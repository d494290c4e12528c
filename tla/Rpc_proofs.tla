----------------------------- MODULE Rpc_proofs -----------------------------
(***************************************************************************)
(* Theorems about Rpc, for any number of callers, methods, connections and *)
(* breaks of connections.                                                  *)
(*                                                                         *)
(* A call leaves traces: an entry of the map of pending calls, a request   *)
(* on its way, a goroutine of the server with a Request object, a response *)
(* on its way.  They bear the connection and the number under which the    *)
(* call was registered, and a call is registered once, because client.call *)
(* tries again only what was not registered.  So every trace leads back to *)
(* one caller, and the traces that can still have the method executed      *)
(* exclude each other.                                                     *)
(***************************************************************************)
EXTENDS Rpc, TLAPS

-----------------------------------------------------------------------------
(* The inductive invariant.                                                *)

\* The call of c has the number s on connection i.
Owner(i, s, c) == onConn[c] = i /\ seqOf[c] = s

\* Some connection was found shut down.
SomeShutdown == \E i \in ConnIds : shutdown[i]

\* A call that was not registered has left no trace.
Unsent(c) ==
  /\ callPc[c] # "write" /\ executed[c] = 0 /\ completed[c] <= 1
  /\ err[c] \in {"none", "shutdown", "unreachable", "dial"}
  /\ callPc[c] \in {"loop", "dial", "call", "send"} => err[c] = "none"
  /\ callPc[c] = "send" => completed[c] = 0
  /\ callPc[c] = "wait" => err[c] = "shutdown" /\ completed[c] = 1
  /\ callPc[c] = "returned" => err[c] # "none"

\* A response, or the completion of a call, is about the call of c.
Rightful(c, e, r) ==
  /\ e = "none" => r = c /\ executed[c] = 1
  /\ e = "server" => \/ method[c] = "unknown" /\ executed[c] = 0
                     \/ method[c] = "fails" /\ executed[c] = 1

\* A call that was registered is not tried again.
Registered(c) ==
  /\ callPc[c] \in {"write", "wait", "returned"}
  /\ seqOf[c] \in Nat /\ seqOf[c] < nextSeq[onConn[c]]
  /\ callPc[c] = "write" =>
       /\ executed[c] = 0
       /\ reqMutex[onConn[c]] = c /\ inputPc[onConn[c]] # "ended"
  /\ executed[c] <= 1 /\ (method[c] = "unknown" => executed[c] = 0)
  /\ completed[c] <= 1
  /\ completed[c] = 0 => callPc[c] # "returned" /\ err[c] = "none"
  /\ completed[c] = 1 => Rightful(c, err[c], reply[c])
  /\ err[c] # "shutdown"

UnsentOK == \A c \in Callers : seqOf[c] = NoSeq => Unsent(c)
RegisteredOK == \A c \in Callers : seqOf[c] # NoSeq => Registered(c)

\* A call is sent over a connection that was made, under a number of its own.
NumbersOK ==
  /\ \A c \in Callers :
       callPc[c] = "send" \/ seqOf[c] # NoSeq => onConn[c] # 0 /\ link[onConn[c]] # "none"
  /\ \A c, d \in Callers :
       seqOf[c] # NoSeq /\ seqOf[c] = seqOf[d] /\ onConn[c] = onConn[d] => c = d

ConnsOK ==
  /\ rpcClient # 0 => link[rpcClient] # "none"
  /\ \A i \in ConnIds :
       /\ link[i] = "none" => /\ servePc[i] = "get" /\ inputPc[i] = "read" /\ reqMutex[i] = "nobody"
                              /\ ~shutdown[i] /\ ~closing[i] /\ pending[i] = {}
       /\ inputPc[i] = "ended" => shutdown[i]
       /\ closing[i] => \A c \in Callers : callPc[c] \in {"returned", "crashed"}

\* rpcClient is nil under a caller, or the caller has crashed, only if a connection was
\* found shut down.
CrashOK ==
  \A c \in Callers :
    (err[c] = "shutdown" \/ callPc[c] = "crashed" \/ (callPc[c] = "call" /\ rpcClient = 0))
      => SomeShutdown

\* The traces.
PendingOK ==
  \A i \in ConnIds : \A p \in pending[i] :
    /\ p.seq # NoSeq /\ Owner(i, p.seq, p.caller)
    /\ inputPc[i] # "ended" => completed[p.caller] = 0

\* The call of c was sent and not yet executed.
Underway(i, s, c) == s # NoSeq /\ Owner(i, s, c) /\ callPc[c] # "write"

RequestsOK ==
  \A i \in ConnIds : \A k \in DOMAIN toServer[i] :
    LET m == toServer[i][k]
    IN  /\ Underway(i, m.seq, m.args) /\ executed[m.args] = 0
        /\ m.method = method[m.args] /\ (m.whole \/ link[i] = "cut")
        /\ \A l \in DOMAIN toServer[i] : toServer[i][l].args = m.args => k = l
        /\ \A g \in handlers : g.args # m.args

HandlersOK ==
  \A g \in handlers :
    /\ g.req \in DOMAIN reqs /\ Underway(g.conn, reqs[g.req], g.args)
    /\ executed[g.args] = IF g.pc = "execute" THEN 0 ELSE 1
    /\ method[g.args] # "unknown"
    /\ g.err = IF method[g.args] = "fails" THEN "server" ELSE "none"
    /\ \A h \in handlers : g.args = h.args => g = h

LoopsOK ==
  \A i \in ConnIds : servePc[i] = "answer" /\ link[i] = "open" =>
    \E c \in Callers : /\ reqs[loopReq[i]] # NoSeq /\ Owner(i, reqs[loopReq[i]], c)
                       /\ method[c] = "unknown"

ResponsesOK ==
  \A i \in ConnIds : \A k \in DOMAIN toClient[i] :
    LET r == toClient[i][k]
    IN  \E c \in Callers : r.seq # NoSeq /\ Owner(i, r.seq, c) /\ Rightful(c, r.err, r.reply)

\* The loop of connection i holds a Request object.
Holds(i) == servePc[i] \in {"read", "answer"}

\* A Request object is in the list of free ones, or with one loop, or with one goroutine.
ObjectsOK ==
  /\ \A k \in DOMAIN freeReq : freeReq[k] \in DOMAIN reqs
  /\ \A k, l \in DOMAIN freeReq : freeReq[k] = freeReq[l] => k = l
  /\ \A i \in ConnIds : Holds(i) =>
       /\ loopReq[i] \in DOMAIN reqs
       /\ \A k \in DOMAIN freeReq : freeReq[k] # loopReq[i]
       /\ \A j \in ConnIds : Holds(j) /\ loopReq[j] = loopReq[i] => i = j
       /\ \A g \in handlers : g.req # loopReq[i]
  /\ \A g \in handlers :
       /\ g.req \in DOMAIN reqs
       /\ \A k \in DOMAIN freeReq : freeReq[k] # g.req
       /\ \A h \in handlers : g.req = h.req => g = h

RpcInv ==
  /\ RpcTypeOK /\ UnsentOK /\ RegisteredOK /\ NumbersOK /\ ConnsOK /\ CrashOK
  /\ PendingOK /\ RequestsOK /\ HandlersOK /\ LoopsOK /\ ResponsesOK /\ ObjectsOK

-----------------------------------------------------------------------------
(* What the types say of the traces.                                       *)

LEMMA TraceTypes ==
  ASSUME RpcTypeOK
  PROVE  /\ \A i \in ConnIds : \A p \in pending[i] : p.seq \in Int /\ p.caller \in Callers
         /\ \A i \in ConnIds : \A k \in DOMAIN toServer[i] :
              /\ toServer[i][k].seq \in Int /\ toServer[i][k].args \in Callers
              /\ toServer[i][k].method \in Methods /\ toServer[i][k].whole \in BOOLEAN
         /\ \A i \in ConnIds : \A k \in DOMAIN toClient[i] :
              /\ toClient[i][k].seq \in Int /\ toClient[i][k].err \in {"none", "server"}
              /\ toClient[i][k].reply \in Callers \cup {"none"} /\ toClient[i][k].whole \in BOOLEAN
         /\ \A g \in handlers :
              /\ g.conn \in ConnIds /\ g.req \in Nat /\ g.args \in Callers
              /\ g.err \in {"none", "server"} /\ g.pc \in {"execute", "answer", "free"}
<1>1. \A i \in ConnIds : \A p \in pending[i] : p.seq \in Int /\ p.caller \in Callers
  BY DEF RpcTypeOK, ClientType
<1>2. \A i \in ConnIds : \A k \in DOMAIN toServer[i] :
        /\ toServer[i][k].seq \in Int /\ toServer[i][k].args \in Callers
        /\ toServer[i][k].method \in Methods /\ toServer[i][k].whole \in BOOLEAN
  <2>1. \A i \in ConnIds : \A k \in DOMAIN toServer[i] : toServer[i][k] \in Requests
    BY DEF RpcTypeOK, LinkType
  <2> QED
    BY <2>1 DEF Requests
<1>3. \A i \in ConnIds : \A k \in DOMAIN toClient[i] :
        /\ toClient[i][k].seq \in Int /\ toClient[i][k].err \in {"none", "server"}
        /\ toClient[i][k].reply \in Callers \cup {"none"} /\ toClient[i][k].whole \in BOOLEAN
  <2>1. \A i \in ConnIds : \A k \in DOMAIN toClient[i] : toClient[i][k] \in Responses
    BY DEF RpcTypeOK, LinkType
  <2> QED
    BY <2>1 DEF Responses
<1>4. \A g \in handlers :
        /\ g.conn \in ConnIds /\ g.req \in Nat /\ g.args \in Callers
        /\ g.err \in {"none", "server"} /\ g.pc \in {"execute", "answer", "free"}
  BY DEF RpcTypeOK, ServerType, Handlers
<1> QED
  BY <1>1, <1>2, <1>3, <1>4

-----------------------------------------------------------------------------
(* The completion of calls.                                                *)

\* Completing calls that are pending on a connection whose input goroutine runs completes
\* registered calls that were not completed before, and touches no other.
LEMMA CompleteFacts ==
  ASSUME RpcInv, NEW i \in ConnIds, NEW calls \in SUBSET pending[i], inputPc[i] # "ended",
         NEW e, NEW r, Complete(CallersOf(calls), e, r)
  PROVE  /\ \A d \in Callers : d \in CallersOf(calls) =>
              /\ seqOf[d] # NoSeq /\ onConn[d] = i /\ [seq |-> seqOf[d], caller |-> d] \in calls
              /\ completed[d] = 0 /\ completed'[d] = 1 /\ err'[d] = e /\ reply'[d] = r
         /\ \A d \in Callers : d \notin CallersOf(calls) =>
              completed'[d] = completed[d] /\ err'[d] = err[d] /\ reply'[d] = reply[d]
         /\ completed' \in [Callers -> Nat]
<1>1. \A p \in calls : /\ p.caller \in Callers /\ p = [seq |-> p.seq, caller |-> p.caller]
                       /\ p.seq # NoSeq /\ Owner(i, p.seq, p.caller) /\ completed[p.caller] = 0
  BY DEF RpcInv, RpcTypeOK, ClientType, PendingOK
<1>2. \A d \in Callers : d \in CallersOf(calls) =>
        /\ seqOf[d] # NoSeq /\ onConn[d] = i /\ [seq |-> seqOf[d], caller |-> d] \in calls
        /\ completed[d] = 0
  BY <1>1 DEF CallersOf, Owner
<1> QED
  BY <1>2 DEF Complete, RpcInv, RpcTypeOK, CallType

-----------------------------------------------------------------------------
(* What is left on a connection that breaks.                               *)

\* Each message that may still arrive was sent, at the same place, and is as it was
\* sent but for its body.
LEMMA RemainsFacts ==
  ASSUME NEW T, \A x \in T : [x EXCEPT !.whole = FALSE] \in T,
         NEW s \in Seq(T), NEW t \in Remains(s)
  PROVE  /\ t \in Seq(T)
         /\ \A k \in DOMAIN t : /\ k \in DOMAIN s
                                /\ t[k] = s[k] \/ t[k] = [s[k] EXCEPT !.whole = FALSE]
<1>1. ASSUME NEW m \in 0 .. Len(s), t = SubSeq(s, 1, m)
      PROVE  /\ t \in Seq(T)
             /\ \A k \in DOMAIN t : k \in DOMAIN s /\ t[k] = s[k]
  BY <1>1
<1>2. ASSUME NEW m \in 1 .. Len(s), t = [SubSeq(s, 1, m) EXCEPT ![m].whole = FALSE]
      PROVE  /\ t \in Seq(T)
             /\ \A k \in DOMAIN t : /\ k \in DOMAIN s
                                    /\ t[k] = s[k] \/ t[k] = [s[k] EXCEPT !.whole = FALSE]
  <2> DEFINE u == SubSeq(s, 1, m)
             x == [u[m] EXCEPT !.whole = FALSE]
  <2>1. u \in Seq(T) /\ DOMAIN u = 1 .. m /\ \A k \in 1 .. m : k \in DOMAIN s /\ u[k] = s[k]
    OBVIOUS
  <2>2. t = [u EXCEPT ![m] = x]
    BY <1>2
  <2>3. m \in DOMAIN u /\ u[m] \in T
    BY <2>1
  <2>4. x \in T
    BY <2>3
  <2>5. u[m] = s[m]
    BY <2>1, <2>3
  <2>6. x = [s[m] EXCEPT !.whole = FALSE]
    BY ONLY <2>5
  <2> HIDE DEF u, x
  <2>7. DOMAIN t = 1 .. m /\ t[m] = x /\ \A k \in 1 .. m : k # m => t[k] = u[k]
    BY <2>1, <2>2, <2>3
  <2>8. t \in Seq(T)
    BY <2>1, <2>2, <2>3, <2>4
  <2> QED
    BY <2>1, <2>6, <2>7, <2>8
<1> QED
  BY <1>1, <1>2 DEF Remains

-----------------------------------------------------------------------------
(* The steps of callers, input goroutines, loops and goroutines.           *)

\* The look at rpcClient at the top of the loop of client.call preserves the invariant.
LEMMA CallLoopPreserves ==
  ASSUME RpcInv, NEW c \in Callers, CallLoop(c)
  PROVE  RpcInv'
<1> USE DEF RpcInv, RpcTypeOK, Errors, callVars, clientVars, linkVars, serverVars
<1>1. CallType'
  BY RpcAssumption DEF CallLoop, Goto, CallType, Responses, NumbersOK, Methods, ConnIds
<1>2. ClientType'
  BY RpcAssumption DEF CallLoop, ClientType, ConnIds
<1>3. LinkType'
  BY RpcAssumption DEF CallLoop, LinkType, ConnIds
<1>4. ServerType'
  BY RpcAssumption DEF CallLoop, ServerType
<1>5. UnsentOK'
  BY RpcAssumption DEF CallLoop, Goto, UnsentOK, Unsent, CallType, ConnIds
<1>6. RegisteredOK'
  BY RpcAssumption DEF CallLoop, Goto, RegisteredOK, Registered, Rightful, CallType, NoSeq, ConnIds
<1>7. NumbersOK'
  BY RpcAssumption DEF CallLoop, Goto, NumbersOK, CallType, NoSeq, ConnIds
<1>8. ConnsOK'
  BY RpcAssumption DEF CallLoop, Goto, ConnsOK, CallType, ConnIds
<1>9. CrashOK'
  BY RpcAssumption DEF CallLoop, Goto, CrashOK, SomeShutdown, CallType, ConnIds
<1>10. PendingOK'
  BY RpcAssumption DEF CallLoop, PendingOK, Owner
<1>11. RequestsOK'
  BY RpcAssumption, TraceTypes DEF CallLoop, Goto, RequestsOK, Underway, Owner, CallType, ConnIds
<1>12. HandlersOK'
  BY RpcAssumption, TraceTypes DEF CallLoop, Goto, HandlersOK, Underway, Owner, CallType, ConnIds
<1>13. LoopsOK'
  BY RpcAssumption DEF CallLoop, LoopsOK, Owner
<1>14. ResponsesOK'
  BY RpcAssumption DEF CallLoop, ResponsesOK, Owner, Rightful
<1>15. ObjectsOK'
  BY RpcAssumption DEF CallLoop, ObjectsOK, Holds
<1> QED
  BY <1>1, <1>2, <1>3, <1>4, <1>5, <1>6, <1>7, <1>8, <1>9, <1>10, <1>11, <1>12, <1>13, <1>14, <1>15

\* A new connection, assigned to rpcClient over what others assigned, preserves it.
LEMMA DialPreserves ==
  ASSUME RpcInv, NEW c \in Callers, Dial(c)
  PROVE  RpcInv'
<1> USE DEF RpcInv, RpcTypeOK, Errors, callVars, clientVars, linkVars, serverVars
<1>0. /\ \A i \in ConnIds : link'[i] # link[i] => link[i] = "none" /\ link'[i] = "open"
      /\ callPc'[c] \in {"call", "returned"} /\ \A d \in Callers \ {c} : callPc'[d] = callPc[d]
      /\ rpcClient' # rpcClient => rpcClient' \in ConnIds /\ link'[rpcClient'] = "open"
      /\ callPc'[c] = "call" => rpcClient' # 0
      /\ err'[c] # "shutdown" /\ \A d \in Callers \ {c} : err'[d] = err[d]
      /\ rpcClient' = 0 => rpcClient = 0
  <2>1. err[c] # "shutdown"
    BY DEF Dial, UnsentOK, Unsent, RegisteredOK, Registered
  <2>2. CASE \E i \in ConnIds : link[i] = "none" /\ link' = [link EXCEPT ![i] = "open"]
                               /\ rpcClient' = i /\ Goto(c, "call") /\ UNCHANGED err
    BY <2>1, <2>2 DEF Goto, CallType, LinkType, ConnIds
  <2>3. CASE Goto(c, "returned") /\ err' = [err EXCEPT ![c] = "dial"] /\ UNCHANGED <<link, rpcClient>>
    BY <2>3 DEF Goto, CallType
  <2> QED
    BY <2>2, <2>3 DEF Dial
<1>1. CallType'
  BY RpcAssumption DEF Dial, Goto, CallType, Responses, NumbersOK, Methods, ConnIds
<1>2. ClientType'
  BY RpcAssumption DEF Dial, Goto, ClientType, NumbersOK, ConnIds
<1>3. LinkType'
  BY RpcAssumption DEF Dial, Goto, LinkType, Responses, Requests, HandlersOK, ObjectsOK, Holds, Handlers,
     ConnIds
<1>4. ServerType'
  BY RpcAssumption DEF Dial, ServerType
<1>5. UnsentOK'
  BY RpcAssumption DEF Dial, Goto, UnsentOK, Unsent, CallType, ConnIds
<1>6. RegisteredOK'
  BY RpcAssumption DEF Dial, Goto, RegisteredOK, Registered, Rightful, CallType, NoSeq, ConnIds
<1>7. NumbersOK'
  BY <1>0, RpcAssumption DEF Dial, NumbersOK, CallType, ConnIds
<1>8. ConnsOK'
  <2>1. rpcClient' # 0 => link'[rpcClient'] # "none"
    BY <1>0, RpcAssumption DEF ConnsOK, ClientType, ConnIds
  <2>2. closing = closing' /\ \A i \in ConnIds : closing[i] => callPc[c] \in {"returned", "crashed"}
    BY DEF Dial, ConnsOK
  <2> QED
    BY <1>0, <2>1, <2>2 DEF Dial, ConnsOK
<1>9. CrashOK'
  BY <1>0 DEF Dial, CrashOK, SomeShutdown
<1>10. PendingOK'
  BY RpcAssumption DEF Dial, PendingOK, Owner
<1>11. RequestsOK'
  BY <1>0, TraceTypes DEF Dial, RequestsOK, Underway, Owner
<1>12. HandlersOK'
  BY RpcAssumption, TraceTypes DEF Dial, Goto, HandlersOK, Underway, Owner, CallType, ConnIds
<1>13. LoopsOK'
  BY <1>0 DEF Dial, LoopsOK, ConnsOK, Owner
<1>14. ResponsesOK'
  BY RpcAssumption DEF Dial, ResponsesOK, Owner, Rightful
<1>15. ObjectsOK'
  BY RpcAssumption DEF Dial, ObjectsOK, Holds
<1> QED
  BY <1>1, <1>2, <1>3, <1>4, <1>5, <1>6, <1>7, <1>8, <1>9, <1>10, <1>11, <1>12, <1>13, <1>14, <1>15

\* The second read of rpcClient, which another caller may have cleared, preserves it.
LEMMA CallPreserves ==
  ASSUME RpcInv, NEW c \in Callers, Call(c)
  PROVE  RpcInv'
<1> USE DEF RpcInv, RpcTypeOK, Errors, callVars, clientVars, linkVars, serverVars
<1>1. CallType'
  BY RpcAssumption DEF Call, Goto, CallType, Responses, NumbersOK, Methods, ClientType, ConnIds
<1>2. ClientType'
  BY RpcAssumption DEF Call, ClientType, ConnIds
<1>3. LinkType'
  BY RpcAssumption DEF Call, LinkType, ConnIds
<1>4. ServerType'
  BY RpcAssumption DEF Call, ServerType
<1>5. UnsentOK'
  BY RpcAssumption DEF Call, Goto, UnsentOK, Unsent, CallType, ConnIds
<1>6. RegisteredOK'
  BY RpcAssumption DEF Call, Goto, RegisteredOK, Registered, Rightful, CallType, NoSeq, ConnIds
<1>7. NumbersOK'
  BY RpcAssumption DEF Call, Goto, NumbersOK, CallType, NoSeq, ConnIds, ConnsOK, RegisteredOK,
     Registered, UnsentOK, Unsent
<1>8. ConnsOK'
  BY RpcAssumption DEF Call, Goto, ConnsOK, CallType, ConnIds
<1>9. CrashOK'
  BY RpcAssumption DEF Call, Goto, CrashOK, SomeShutdown, CallType, ConnIds
<1>10. PendingOK'
  BY RpcAssumption, TraceTypes DEF Call, Goto, PendingOK, Owner, CallType, NoSeq, ConnIds, RegisteredOK,
     Registered, Underway
<1>11. RequestsOK'
  BY RpcAssumption, TraceTypes DEF Call, Goto, RequestsOK, Underway, Owner, CallType, ConnIds,
     RegisteredOK, Registered
<1>12. HandlersOK'
  BY RpcAssumption, TraceTypes DEF Call, Goto, HandlersOK, Underway, Owner, CallType, ConnIds,
     RegisteredOK, Registered
<1>13. LoopsOK'
  BY RpcAssumption, TraceTypes, SMTT(30) DEF Call, Goto, LoopsOK, Owner, CallType, NoSeq, ConnIds, RegisteredOK,
     Registered, Underway
<1>14. ResponsesOK'
  BY RpcAssumption, TraceTypes DEF Call, Goto, ResponsesOK, Owner, Rightful, CallType, NoSeq, ConnIds,
     RegisteredOK, Registered, Underway
<1>15. ObjectsOK'
  BY RpcAssumption DEF Call, ObjectsOK, Holds
<1> QED
  BY <1>1, <1>2, <1>3, <1>4, <1>5, <1>6, <1>7, <1>8, <1>9, <1>10, <1>11, <1>12, <1>13, <1>14, <1>15

\* Forgetting a client that is shut down, and trying again, preserves it.
LEMMA AfterCallPreserves ==
  ASSUME RpcInv, NEW c \in Callers, AfterCall(c)
  PROVE  RpcInv'
<1> USE DEF RpcInv, RpcTypeOK, Errors, callVars, clientVars, linkVars, serverVars
<1>1. CallType'
  BY RpcAssumption DEF AfterCall, Goto, CallType, Responses, NumbersOK, Methods, ConnIds
<1>2. ClientType'
  BY RpcAssumption DEF AfterCall, Goto, ClientType, NumbersOK, ConnIds
<1>3. LinkType'
  BY RpcAssumption DEF AfterCall, LinkType, ConnIds
<1>4. ServerType'
  BY RpcAssumption DEF AfterCall, ServerType
<1>5. UnsentOK'
  BY RpcAssumption DEF AfterCall, Goto, UnsentOK, Unsent, CallType, ConnIds
<1>6. RegisteredOK'
  BY RpcAssumption DEF AfterCall, Goto, RegisteredOK, Registered, Rightful, CallType, NoSeq, ConnIds
<1>7. NumbersOK'
  BY RpcAssumption DEF AfterCall, Goto, NumbersOK, CallType, NoSeq, ConnIds
<1>8. ConnsOK'
  BY RpcAssumption DEF AfterCall, Goto, ConnsOK, CallType, ClientType, ConnIds
<1>9. CrashOK'
  <2>1. CASE err[c] = "shutdown"
    <3>1. SomeShutdown'
      BY <2>1 DEF AfterCall, CrashOK, SomeShutdown
    <3> QED
      BY <3>1 DEF CrashOK
  <2>2. CASE err[c] # "shutdown"
    BY <2>2 DEF AfterCall, Goto, CrashOK, SomeShutdown, CallType
  <2> QED
    BY <2>1, <2>2
<1>10. PendingOK'
  BY RpcAssumption DEF AfterCall, PendingOK, Owner
<1>11. RequestsOK'
  BY RpcAssumption, TraceTypes DEF AfterCall, Goto, RequestsOK, Underway, Owner, CallType, ConnIds
<1>12. HandlersOK'
  BY RpcAssumption, TraceTypes DEF AfterCall, Goto, HandlersOK, Underway, Owner, CallType, ConnIds
<1>13. LoopsOK'
  BY RpcAssumption DEF AfterCall, LoopsOK, Owner
<1>14. ResponsesOK'
  BY RpcAssumption DEF AfterCall, ResponsesOK, Owner, Rightful
<1>15. ObjectsOK'
  BY RpcAssumption DEF AfterCall, ObjectsOK, Holds
<1> QED
  BY <1>1, <1>2, <1>3, <1>4, <1>5, <1>6, <1>7, <1>8, <1>9, <1>10, <1>11, <1>12, <1>13, <1>14, <1>15

\* send on a client that is shut down leaves no trace of the call.
LEMMA SendRefusedPreserves ==
  ASSUME RpcInv, NEW c \in Callers, SendRefused(c)
  PROVE  RpcInv'
<1> USE DEF RpcInv, RpcTypeOK, Errors, callVars, clientVars, linkVars, serverVars
<1>1. CallType'
  BY RpcAssumption DEF SendRefused, Goto, CallType, Responses, NumbersOK, Methods, ConnIds
<1>2. ClientType'
  BY RpcAssumption DEF SendRefused, ClientType, ConnIds
<1>3. LinkType'
  BY RpcAssumption DEF SendRefused, LinkType, ConnIds
<1>4. ServerType'
  BY RpcAssumption DEF SendRefused, ServerType
<1>5. UnsentOK'
  BY RpcAssumption DEF SendRefused, Goto, UnsentOK, Unsent, CallType, ConnIds
<1>6. RegisteredOK'
  BY RpcAssumption DEF SendRefused, Goto, RegisteredOK, Registered, Rightful, CallType, NoSeq, ConnIds
<1>7. NumbersOK'
  BY RpcAssumption DEF SendRefused, Goto, NumbersOK, CallType, NoSeq, ConnIds
<1>8. ConnsOK'
  BY RpcAssumption DEF SendRefused, Goto, ConnsOK, CallType, ConnIds
<1>9. CrashOK'
  <2>1. SomeShutdown
    BY RpcAssumption DEF SendRefused, NumbersOK, ConnsOK, SomeShutdown, CallType, ConnIds
  <2>2. SomeShutdown'
    BY <2>1 DEF SendRefused, SomeShutdown
  <2> QED
    BY <2>2 DEF CrashOK
<1>10. PendingOK'
  BY RpcAssumption, TraceTypes DEF SendRefused, Goto, PendingOK, Owner, CallType, NoSeq, ConnIds,
     RegisteredOK, Registered
<1>11. RequestsOK'
  BY RpcAssumption, TraceTypes DEF SendRefused, Goto, RequestsOK, Underway, Owner, CallType, ConnIds
<1>12. HandlersOK'
  BY RpcAssumption, TraceTypes DEF SendRefused, Goto, HandlersOK, Underway, Owner, CallType, ConnIds
<1>13. LoopsOK'
  BY RpcAssumption DEF SendRefused, LoopsOK, Owner
<1>14. ResponsesOK'
  BY RpcAssumption DEF SendRefused, ResponsesOK, Owner, Rightful
<1>15. ObjectsOK'
  BY RpcAssumption DEF SendRefused, ObjectsOK, Holds
<1> QED
  BY <1>1, <1>2, <1>3, <1>4, <1>5, <1>6, <1>7, <1>8, <1>9, <1>10, <1>11, <1>12, <1>13, <1>14, <1>15

\* The registration of a call takes a number that no other call has.
LEMMA SendPreserves ==
  ASSUME RpcInv, NEW c \in Callers, Send(c)
  PROVE  RpcInv'
<1> USE DEF RpcInv, RpcTypeOK, Errors, callVars, clientVars, linkVars, serverVars
<1> DEFINE i == onConn[c]
<1>0. /\ i \in ConnIds /\ link[i] # "none" /\ callPc[c] = "send" /\ seqOf[c] = NoSeq /\ Unsent(c)
      /\ reqMutex[i] = "nobody" /\ ~shutdown[i] /\ ~closing[i] /\ nextSeq[i] \in Nat
  <2>1. callPc[c] = "send" /\ reqMutex[i] = "nobody" /\ ~shutdown[i] /\ ~closing[i]
    BY DEF Send
  <2>2. i \in ConnIds /\ link[i] # "none"
    BY <2>1, RpcAssumption DEF NumbersOK, CallType, ConnIds
  <2>3. seqOf[c] = NoSeq /\ Unsent(c)
    BY <2>1 DEF UnsentOK, RegisteredOK, Registered
  <2> QED
    BY <2>1, <2>2, <2>3 DEF ClientType
<1>a. /\ callPc'[c] = "write" /\ seqOf'[c] = nextSeq[i]
      /\ \A d \in Callers \ {c} : callPc'[d] = callPc[d] /\ seqOf'[d] = seqOf[d]
  BY DEF Send, Goto, CallType
<1>b. /\ nextSeq'[i] = nextSeq[i] + 1 /\ reqMutex'[i] = c
      /\ pending'[i] = pending[i] \cup {[seq |-> nextSeq[i], caller |-> c]}
      /\ \A j \in ConnIds \ {i} : nextSeq'[j] = nextSeq[j] /\ reqMutex'[j] = reqMutex[j] /\ pending'[j] = pending[j]
  BY <1>0 DEF Send, ClientType
<1>c. UNCHANGED <<attempt, onConn, err, reply, method, completed, rpcClient, closing, shutdown, inputPc,
                  linkVars, serverVars>>
  BY DEF Send
<1> HIDE DEF i
<1>1. CallType'
  BY <1>0, <1>a, <1>b, <1>c DEF Send, Goto, CallType, ClientType
<1>2. ClientType'
  BY <1>0, <1>a, <1>b, <1>c DEF Send, ClientType
<1>3. LinkType'
  BY RpcAssumption DEF Send, LinkType, ConnIds
<1>4. ServerType'
  BY RpcAssumption DEF Send, ServerType
<1>5. UnsentOK'
  BY <1>0, <1>a, <1>b, <1>c DEF UnsentOK, Unsent, NoSeq
<1>6. RegisteredOK'
  <2> SUFFICES ASSUME NEW d \in Callers, seqOf'[d] # NoSeq
               PROVE  Registered(d)'
    BY DEF RegisteredOK
  <2>1. CASE d = c
    <3>1. inputPc[i] # "ended" /\ onConn[c] = i
      BY <1>0 DEF ConnsOK, i
    <3> QED
      BY <1>0, <1>a, <1>b, <1>c, <2>1, <3>1 DEF Registered, Unsent, Rightful
  <2>2. CASE d # c
    <3>1. Registered(d) /\ onConn[d] \in ConnIds
      BY <1>a, <2>2, RpcAssumption DEF RegisteredOK, NumbersOK, CallType, ConnIds
    <3>2. callPc[d] # "write" \/ onConn[d] # i
      BY <1>0, <3>1, RpcAssumption DEF Registered
    <3>3. nextSeq[onConn[d]] \in Nat
      BY <3>1 DEF ClientType
    <3> QED
      BY <1>a, <1>b, <1>c, <2>2, <3>1, <3>2, <3>3 DEF Registered, Rightful
  <2> QED
    BY <2>1, <2>2
<1>7. NumbersOK'
  <2>1. \A d \in Callers : seqOf[d] # NoSeq /\ onConn[d] = i => seqOf[d] \in Nat /\ seqOf[d] < nextSeq[i]
    BY DEF RegisteredOK, Registered
  <2>2. onConn[c] = i
    BY DEF i
  <2> QED
    BY <1>0, <1>a, <1>c, <2>1, <2>2 DEF NumbersOK, linkVars
<1>8. ConnsOK'
  BY <1>0, <1>a, <1>b, <1>c DEF ConnsOK, linkVars, serverVars
<1>9. CrashOK'
  BY <1>a, <1>c DEF CrashOK, SomeShutdown
<1>10. PendingOK'
  <2> SUFFICES ASSUME NEW j \in ConnIds, NEW p \in pending'[j]
               PROVE  /\ p.seq # NoSeq /\ Owner(j, p.seq, p.caller)'
                      /\ inputPc'[j] # "ended" => completed'[p.caller] = 0
    BY DEF PendingOK
  <2>1. CASE p \in pending[j]
    <3>1. p.caller \in Callers /\ p.caller # c
      BY <1>0, <2>1, TraceTypes DEF PendingOK, Owner
    <3> QED
      BY <1>a, <1>c, <2>1, <3>1 DEF PendingOK, Owner
  <2>2. CASE p \notin pending[j]
    <3>1. j = i /\ p = [seq |-> nextSeq[i], caller |-> c]
      BY <1>b, <2>2
    <3>2. completed[c] = 0 /\ onConn[c] = i
      BY <1>0 DEF Unsent, i
    <3> QED
      BY <1>0, <1>a, <1>c, <3>1, <3>2 DEF Owner, NoSeq
  <2> QED
    BY <2>1, <2>2
<1>11. RequestsOK'
  BY <1>0, <1>a, <1>c, TraceTypes DEF RequestsOK, Underway, Owner, linkVars, serverVars
<1>12. HandlersOK'
  BY <1>0, <1>a, <1>c, TraceTypes DEF HandlersOK, Underway, Owner, linkVars, serverVars
<1>13. LoopsOK'
  BY <1>0, <1>a, <1>c, TraceTypes DEF LoopsOK, Owner, linkVars, serverVars
<1>14. ResponsesOK'
  BY <1>0, <1>a, <1>c, TraceTypes DEF ResponsesOK, Owner, Rightful, linkVars, serverVars
<1>15. ObjectsOK'
  BY <1>c DEF ObjectsOK, Holds, serverVars
<1> QED
  BY <1>1, <1>2, <1>3, <1>4, <1>5, <1>6, <1>7, <1>8, <1>9, <1>10, <1>11, <1>12, <1>13, <1>14, <1>15

\* A request is written while its caller holds reqMutex, once.
LEMMA WritePreserves ==
  ASSUME RpcInv, NEW c \in Callers, Write(c)
  PROVE  RpcInv'
<1> USE DEF RpcInv, RpcTypeOK, Errors, callVars, clientVars, linkVars, serverVars
<1> DEFINE i == onConn[c]
           m == [seq |-> seqOf[c], args |-> c, method |-> method[c], whole |-> TRUE]
<1>0. /\ i \in ConnIds /\ link[i] = "open" /\ callPc[c] = "write" /\ seqOf[c] # NoSeq
      /\ Registered(c) /\ m \in Requests
  <2>1. callPc[c] = "write" /\ link[i] = "open"
    BY DEF Write
  <2>2. seqOf[c] # NoSeq /\ Registered(c)
    BY <2>1 DEF UnsentOK, Unsent, RegisteredOK
  <2>3. i \in ConnIds
    BY <2>2, RpcAssumption DEF NumbersOK, CallType, ConnIds
  <2> QED
    BY <2>1, <2>2, <2>3 DEF Requests, CallType
<1>1. onConn[c] = i /\ m.seq = seqOf[c] /\ m.args = c /\ m.method = method[c] /\ m.whole
  OBVIOUS
<1>a. callPc'[c] = "wait" /\ \A d \in Callers \ {c} : callPc'[d] = callPc[d]
  BY DEF Write, Goto, CallType
<1>b. /\ toServer'[i] = Append(toServer[i], m) /\ reqMutex'[i] = "nobody" /\ reqMutex[i] = c
      /\ \A j \in ConnIds \ {i} : toServer'[j] = toServer[j] /\ reqMutex'[j] = reqMutex[j]
  BY <1>0 DEF Write, ClientType, LinkType, Registered
<1>c. UNCHANGED <<attempt, onConn, seqOf, err, reply, method, completed, rpcClient, nextSeq, pending,
                  closing, shutdown, inputPc, link, toClient, cuts, serverVars>>
  BY DEF Write
<1> HIDE DEF i, m
<1>2. CallType'
  BY <1>c DEF Write, Goto, CallType
<1>3. ClientType'
  BY <1>c DEF Write, ClientType
<1>4. LinkType'
  <2>1. Append(toServer[i], m) \in Seq(Requests)
    BY <1>0 DEF LinkType
  <2>2. toServer' = [toServer EXCEPT ![i] = Append(toServer[i], m)]
    BY DEF Write, i, m
  <2> QED
    BY <1>c, <2>1, <2>2 DEF LinkType
<1>5. ServerType'
  BY <1>c DEF ServerType, serverVars
<1>6. UnsentOK'
  BY <1>0, <1>a, <1>c DEF UnsentOK, Unsent, serverVars
<1>7. RegisteredOK'
  <2> SUFFICES ASSUME NEW d \in Callers, seqOf'[d] # NoSeq
               PROVE  Registered(d)'
    BY DEF RegisteredOK
  <2>1. CASE d = c
    BY <1>0, <1>a, <1>c, <2>1 DEF Registered, Rightful, serverVars
  <2>2. CASE d # c
    <3>1. Registered(d) /\ onConn[d] \in ConnIds
      BY <1>c, RpcAssumption DEF RegisteredOK, NumbersOK, CallType, ConnIds
    <3>2. callPc[d] # "write" \/ onConn[d] # i
      BY <1>b, <2>2, <3>1 DEF Registered
    <3> QED
      BY <1>a, <1>b, <1>c, <2>2, <3>1, <3>2 DEF Registered, Rightful, serverVars
  <2> QED
    BY <2>1, <2>2
<1>8. NumbersOK'
  BY <1>0, <1>a, <1>c DEF NumbersOK
<1>9. ConnsOK'
  BY <1>0, <1>a, <1>b, <1>c DEF ConnsOK, serverVars
<1>10. CrashOK'
  BY <1>a, <1>c DEF CrashOK, SomeShutdown
<1>11. PendingOK'
  BY <1>c DEF PendingOK, Owner
<1>12. RequestsOK'
  <2>1. /\ \A j \in ConnIds : \A k \in DOMAIN toServer[j] : toServer[j][k].args # c
        /\ \A g \in handlers : g.args # c
    BY <1>0 DEF RequestsOK, HandlersOK, Underway
  <2>2. /\ DOMAIN toServer'[i] = 1 .. Len(toServer[i]) + 1 /\ DOMAIN toServer[i] = 1 .. Len(toServer[i])
        /\ Len(toServer[i]) \in Nat
        /\ toServer'[i][Len(toServer[i]) + 1] = m
        /\ \A k \in DOMAIN toServer[i] : toServer'[i][k] = toServer[i][k]
    BY <1>0, <1>b DEF LinkType
  <2> SUFFICES ASSUME NEW j \in ConnIds, NEW k \in DOMAIN toServer'[j]
               PROVE  /\ Underway(j, toServer[j][k].seq, toServer[j][k].args)' /\ executed'[toServer'[j][k].args] = 0
                      /\ toServer'[j][k].method = method'[toServer'[j][k].args]
                      /\ toServer'[j][k].whole \/ link'[j] = "cut"
                      /\ \A l \in DOMAIN toServer'[j] : toServer'[j][l].args = toServer'[j][k].args => k = l
                      /\ \A g \in handlers' : g.args # toServer'[j][k].args
    BY DEF RequestsOK
  <2>3. CASE k \in DOMAIN toServer[j]
    <3>1. toServer'[j][k] = toServer[j][k] /\ toServer[j][k].args \in Callers \ {c}
      BY <1>b, <2>1, <2>2, <2>3, TraceTypes
    <3>2. \A l \in DOMAIN toServer'[j] : l \in DOMAIN toServer[j] \/ toServer'[j][l].args = c
      BY <1>1, <1>b, <2>2
    <3> QED
      BY <1>a, <1>b, <1>c, <2>2, <2>3, <3>1, <3>2, SMTT(30) DEF RequestsOK, Underway, Owner, serverVars
  <2>4. CASE k \notin DOMAIN toServer[j]
    <3>1. j = i /\ k = Len(toServer[i]) + 1 /\ toServer'[j][k] = m
      BY <1>b, <2>2, <2>4
    <3> QED
      BY <1>0, <1>1, <1>a, <1>c, <2>1, <2>2, <3>1, SMTT(30) DEF Underway, Owner, Registered, serverVars
  <2> QED
    BY <2>3, <2>4
<1>13. HandlersOK'
  BY <1>0, <1>a, <1>c, TraceTypes DEF HandlersOK, Underway, Owner, serverVars
<1>14. LoopsOK'
  BY <1>c DEF LoopsOK, Owner, serverVars
<1>15. ResponsesOK'
  BY <1>c DEF ResponsesOK, Owner, Rightful, serverVars
<1>16. ObjectsOK'
  BY <1>c DEF ObjectsOK, Holds, serverVars
<1> QED
  BY <1>2, <1>3, <1>4, <1>5, <1>6, <1>7, <1>8, <1>9, <1>10, <1>11, <1>12, <1>13, <1>14, <1>15, <1>16

\* A request that cannot be written completes its own call, and no other.
LEMMA WriteFailsPreserves ==
  ASSUME RpcInv, NEW c \in Callers, WriteFails(c)
  PROVE  RpcInv'
<1> USE DEF RpcInv, RpcTypeOK, Errors, callVars, clientVars, linkVars, serverVars
<1> DEFINE i == onConn[c]
           calls == Pending(i, seqOf[c])
           done == CallersOf(calls)
<1>1. /\ i \in ConnIds /\ callPc[c] = "write" /\ seqOf[c] # NoSeq
      /\ Registered(c) /\ inputPc[i] # "ended" /\ reqMutex[i] = c /\ link[i] = "cut"
  <2>1. callPc[c] = "write" /\ link[i] = "cut"
    BY DEF WriteFails
  <2>2. seqOf[c] # NoSeq /\ Registered(c)
    BY <2>1 DEF UnsentOK, Unsent, RegisteredOK
  <2>3. i \in ConnIds
    BY <2>2, RpcAssumption DEF NumbersOK, CallType, ConnIds
  <2> QED
    BY <2>1, <2>2, <2>3 DEF Registered
<1>2. calls \subseteq pending[i] /\ Complete(done, "write", "none") /\ \A p \in pending[i] \ calls : p.seq # seqOf[c]
  BY DEF WriteFails, Pending
<1>a. callPc'[c] = "wait" /\ \A d \in Callers \ {c} : callPc'[d] = callPc[d]
  BY DEF WriteFails, Goto, CallType
<1>b. /\ pending'[i] = pending[i] \ calls /\ reqMutex'[i] = "nobody"
      /\ \A j \in ConnIds \ {i} : pending'[j] = pending[j] /\ reqMutex'[j] = reqMutex[j]
  BY <1>1 DEF WriteFails, ClientType
<1>c. UNCHANGED <<attempt, onConn, seqOf, method, rpcClient, nextSeq, closing, shutdown, inputPc,
                  linkVars, serverVars>>
  BY DEF WriteFails
<1>d. /\ \A d \in Callers : d \in done =>
           /\ seqOf[d] # NoSeq /\ onConn[d] = i /\ seqOf[d] = seqOf[c]
           /\ completed[d] = 0 /\ completed'[d] = 1 /\ err'[d] = "write" /\ reply'[d] = "none"
      /\ \A d \in Callers : d \notin done =>
           completed'[d] = completed[d] /\ err'[d] = err[d] /\ reply'[d] = reply[d]
      /\ completed' \in [Callers -> Nat]
  <2>1. \A p \in calls : p.seq = seqOf[c]
    BY DEF Pending
  <2> HIDE DEF calls, i
  <2>2. /\ \A d \in Callers : d \in CallersOf(calls) =>
             /\ seqOf[d] # NoSeq /\ onConn[d] = i /\ [seq |-> seqOf[d], caller |-> d] \in calls
             /\ completed[d] = 0 /\ completed'[d] = 1 /\ err'[d] = "write" /\ reply'[d] = "none"
        /\ \A d \in Callers : d \notin CallersOf(calls) =>
             completed'[d] = completed[d] /\ err'[d] = err[d] /\ reply'[d] = reply[d]
        /\ completed' \in [Callers -> Nat]
    BY ONLY RpcInv, <1>1, <1>2, CompleteFacts, Zenon DEF done
  <2> QED
    BY ONLY <2>1, <2>2 DEF done
<1> HIDE DEF i, calls, done
<1>3. CallType'
  <2>1. /\ err' \in [Callers -> Errors]
        /\ reply' \in [Callers -> Callers \cup {"none"}]
    BY <1>2 DEF Complete, CallType
  <2>2. callPc' \in [Callers -> {"loop", "dial", "call", "send", "write", "wait", "returned", "crashed"}]
    BY DEF WriteFails, Goto, CallType
  <2> QED
    BY <1>c, <1>d, <2>1, <2>2 DEF CallType
<1>4. ClientType'
  BY <1>c DEF WriteFails, ClientType
<1>5. LinkType'
  BY <1>c DEF LinkType, linkVars
<1>6. ServerType'
  BY <1>c DEF ServerType, serverVars
<1>7. UnsentOK'
  BY <1>1, <1>a, <1>c, <1>d DEF UnsentOK, Unsent, serverVars
<1>8. RegisteredOK'
  <2> SUFFICES ASSUME NEW d \in Callers, seqOf'[d] # NoSeq
               PROVE  Registered(d)'
    BY DEF RegisteredOK
  <2>1. Registered(d) /\ onConn[d] \in ConnIds
    BY <1>c, RpcAssumption DEF RegisteredOK, NumbersOK, CallType, ConnIds
  <2>2. callPc'[d] = "write" => callPc[d] = "write" /\ reqMutex'[onConn[d]] = reqMutex[onConn[d]]
    <3>1. CASE d = c
      BY <1>a, <3>1
    <3>2. CASE d # c
      BY <1>1, <1>a, <1>b, <2>1, <3>2 DEF Registered
    <3> QED
      BY <3>1, <3>2
  <2>3. callPc'[d] \in {"write", "wait", "returned"} /\ (callPc'[d] = "returned" => callPc[d] = "returned")
    BY <1>a, <2>1 DEF Registered
  <2>4. CASE d \in done
    BY <1>c, <1>d, <2>1, <2>2, <2>3, <2>4 DEF Registered, Rightful, serverVars
  <2>5. CASE d \notin done
    BY <1>c, <1>d, <2>1, <2>2, <2>3, <2>5 DEF Registered, Rightful, serverVars
  <2> QED
    BY <2>4, <2>5
<1>9. NumbersOK'
  BY <1>a, <1>c DEF NumbersOK, linkVars
<1>10. ConnsOK'
  <2>1. \A j \in ConnIds : reqMutex'[j] = reqMutex[j] \/ reqMutex'[j] = "nobody"
    BY <1>b
  <2>2. \A j \in ConnIds : pending'[j] \subseteq pending[j]
    BY <1>b
  <2> QED
    BY <1>1, <1>a, <1>c, <2>1, <2>2 DEF ConnsOK, linkVars, serverVars
<1>11. CrashOK'
  BY <1>a, <1>c, <1>d DEF CrashOK, SomeShutdown
<1>12. PendingOK'
  <2> SUFFICES ASSUME NEW j \in ConnIds, NEW p \in pending'[j]
               PROVE  /\ p.seq # NoSeq /\ Owner(j, p.seq, p.caller)'
                      /\ inputPc'[j] # "ended" => completed'[p.caller] = 0
    BY DEF PendingOK
  <2>1. p \in pending[j] /\ p.caller \in Callers /\ Owner(j, p.seq, p.caller) /\ p.seq # NoSeq
    BY <1>b, TraceTypes DEF PendingOK
  <2>2. p.caller \notin done
    BY <1>2, <1>b, <1>d, <2>1 DEF Owner
  <2> QED
    BY <1>c, <1>d, <2>1, <2>2 DEF PendingOK, Owner
<1>13. RequestsOK'
  BY <1>a, <1>c, TraceTypes DEF RequestsOK, Underway, Owner, linkVars, serverVars
<1>14. HandlersOK'
  BY <1>a, <1>c, TraceTypes DEF HandlersOK, Underway, Owner, serverVars
<1>15. LoopsOK'
  BY <1>c DEF LoopsOK, Owner, serverVars, linkVars
<1>16. ResponsesOK'
  BY <1>c DEF ResponsesOK, Owner, Rightful, serverVars, linkVars
<1>17. ObjectsOK'
  BY <1>c DEF ObjectsOK, Holds, serverVars
<1> QED
  BY <1>3, <1>4, <1>5, <1>6, <1>7, <1>8, <1>9, <1>10, <1>11, <1>12, <1>13, <1>14, <1>15, <1>16, <1>17

\* A response completes the call that it answers, and no other.
LEMMA InputReadPreserves ==
  ASSUME RpcInv, NEW i \in ConnIds, InputRead(i)
  PROVE  RpcInv'
<1> USE DEF RpcInv, RpcTypeOK, Errors, callVars, clientVars, linkVars, serverVars
<1> DEFINE m == toClient[i][1]
           calls == Pending(i, m.seq)
           e == m.err
           r == m.reply
           done == CallersOf(calls)
<1>1. inputPc[i] # "ended" /\ i \in ConnIds
  BY DEF InputRead
<1>2. calls \subseteq pending[i] /\ Complete(done, e, r) /\ e \in Errors /\ r \in Callers \cup {"none"}
  <2>1. 1 \in DOMAIN toClient[i]
    BY DEF InputRead, LinkType
  <2>2. m.err \in {"none", "server"} /\ m.reply \in Callers \cup {"none"}
    BY <2>1, TraceTypes
  <2>3. Complete(done, e, r)
    BY DEF InputRead
  <2> QED
    BY <2>2, <2>3 DEF Pending
<1>a. callPc' = callPc
  BY DEF InputRead
<1>b. /\ pending'[i] = pending[i] \ calls /\ toClient' = [toClient EXCEPT ![i] = Tail(@)]
      /\ \A j \in ConnIds \ {i} : pending'[j] = pending[j]
      /\ inputPc' = inputPc
      /\ shutdown' = shutdown
  BY DEF InputRead, ClientType
<1>c. UNCHANGED <<attempt, onConn, seqOf, method, rpcClient, nextSeq, closing, shutdown, reqMutex, link,
                  toServer, cuts, serverVars>>
  BY DEF InputRead
<1>d. /\ \A d \in Callers : d \in done =>
           /\ seqOf[d] # NoSeq /\ onConn[d] = i /\ [seq |-> seqOf[d], caller |-> d] \in calls
           /\ completed[d] = 0 /\ completed'[d] = 1 /\ err'[d] = e /\ reply'[d] = r
      /\ \A d \in Callers : d \notin done =>
           completed'[d] = completed[d] /\ err'[d] = err[d] /\ reply'[d] = reply[d]
      /\ completed' \in [Callers -> Nat]
  <2> HIDE DEF calls, e, r, m
  <2> QED
    BY ONLY RpcInv, i \in ConnIds, <1>1, <1>2, CompleteFacts, Zenon DEF done
<1>3. \A d \in Callers : d \in done => e \in {"none", "server", "body", "eof", "write"} /\ Rightful(d, e, r)
  <2>1. 1 \in DOMAIN toClient[i]
    BY DEF InputRead, LinkType
  <2>2. PICK d \in Callers : m.seq # NoSeq /\ Owner(i, m.seq, d) /\ Rightful(d, m.err, m.reply)
    BY <2>1 DEF ResponsesOK
  <2>3. \A p \in calls : p.seq = m.seq
    BY DEF Pending
  <2>4. \A f \in Callers : f \in done => f = d
    <3> HIDE DEF calls, done, m
    <3>1. \A f \in Callers : f \in done => seqOf[f] = m.seq /\ onConn[f] = i
      BY <1>d, <2>3
    <3> QED
      BY <2>2, <3>1 DEF NumbersOK, Owner
  <2>5. m.err \in {"none", "server"}
    BY <2>1, TraceTypes
  <2> QED
    BY <2>2, <2>4, <2>5 DEF Rightful
<1> HIDE DEF calls, done, e, r, m
<1>4. CallType'
  <2>1. err' \in [Callers -> Errors] /\ reply' \in [Callers -> Callers \cup {"none"}]
    BY <1>2 DEF Complete, CallType
  <2> QED
    BY <1>a, <1>c, <1>d, <2>1 DEF CallType
<1>5. ClientType'
  BY <1>c DEF InputRead, ClientType
<1>6. LinkType'
  <2>1. toClient[i] # <<>>
    BY DEF InputRead
  <2>2. Tail(toClient[i]) \in Seq(Responses)
    BY <2>1 DEF LinkType
  <2> QED
    BY <1>b, <1>c, <2>2 DEF LinkType
<1>7. ServerType'
  BY <1>c DEF ServerType, serverVars
<1>8. UnsentOK'
  BY <1>a, <1>c, <1>d DEF UnsentOK, Unsent, serverVars
<1>9. RegisteredOK'
  <2> SUFFICES ASSUME NEW d \in Callers, seqOf'[d] # NoSeq
               PROVE  Registered(d)'
    BY DEF RegisteredOK
  <2>1. Registered(d) /\ onConn[d] \in ConnIds
    BY <1>c, RpcAssumption DEF RegisteredOK, NumbersOK, CallType, ConnIds
  <2>2. callPc[d] = "write" => inputPc'[onConn[d]] # "ended"
    BY <1>b, <2>1 DEF Registered
  <2>3. CASE d \in done
    <3>1. Rightful(d, err[d], reply[d])'
      BY <1>3, <1>c, <1>d, <2>3 DEF Rightful, serverVars
    <3>2. completed'[d] = 1 /\ err'[d] # "shutdown"
      BY <1>3, <1>d, <2>3
    <3> QED
      BY <1>a, <1>c, <2>1, <2>2, <3>1, <3>2 DEF Registered, serverVars
  <2>4. CASE d \notin done
    BY <1>a, <1>c, <1>d, <2>1, <2>2, <2>4 DEF Registered, Rightful, serverVars
  <2> QED
    BY <2>3, <2>4
<1>10. NumbersOK'
  BY <1>a, <1>c DEF NumbersOK, linkVars
<1>11. ConnsOK'
  <2>1. \A j \in ConnIds : pending'[j] \subseteq pending[j]
    BY <1>b
  <2> QED
    BY <1>a, <1>b, <1>c, <2>1 DEF ConnsOK, serverVars
<1>12. CrashOK'
  <2>1. \A d \in Callers : err'[d] = "shutdown" => err[d] = "shutdown"
    BY <1>3, <1>d
  <2>2. SomeShutdown => SomeShutdown'
    BY <1>b DEF SomeShutdown
  <2> QED
    BY <1>a, <1>c, <2>1, <2>2 DEF CrashOK
<1>13. PendingOK'
  <2> SUFFICES ASSUME NEW j \in ConnIds, NEW p \in pending'[j]
               PROVE  /\ p.seq # NoSeq /\ Owner(j, p.seq, p.caller)'
                      /\ inputPc'[j] # "ended" => completed'[p.caller] = 0
    BY DEF PendingOK
  <2>1. p \in pending[j] /\ p.caller \in Callers /\ Owner(j, p.seq, p.caller) /\ p.seq # NoSeq
    BY <1>b, TraceTypes DEF PendingOK
  <2>2. p.caller \in done => j = i /\ [seq |-> p.seq, caller |-> p.caller] \in calls
    BY <1>d, <2>1 DEF Owner
  <2>3. p = [seq |-> p.seq, caller |-> p.caller]
    BY <2>1 DEF ClientType
  <2> QED
    BY <1>b, <1>c, <1>d, <2>1, <2>2, <2>3 DEF PendingOK, Owner
<1>14. RequestsOK'
  BY <1>a, <1>c DEF RequestsOK, Underway, Owner, linkVars, serverVars
<1>15. HandlersOK'
  BY <1>a, <1>c DEF HandlersOK, Underway, Owner, serverVars
<1>16. LoopsOK'
  BY <1>c DEF LoopsOK, Owner, serverVars, linkVars
<1>17. ResponsesOK'
  <2>1. toClient[i] # <<>>
    BY DEF InputRead
  <2>2. /\ \A k \in DOMAIN toClient'[i] : k + 1 \in DOMAIN toClient[i] /\ toClient'[i][k] = toClient[i][k + 1]
        /\ \A j \in ConnIds \ {i} : toClient'[j] = toClient[j]
    BY <1>b, <2>1 DEF LinkType
  <2> SUFFICES ASSUME NEW j \in ConnIds, NEW k \in DOMAIN toClient'[j]
               PROVE  \E d \in Callers : /\ toClient'[j][k].seq # NoSeq /\ Owner(j, toClient[j][k].seq, d)'
                                         /\ Rightful(d, toClient[j][k].err, toClient[j][k].reply)'
    BY DEF ResponsesOK
  <2>3. \E l \in DOMAIN toClient[j] : toClient'[j][k] = toClient[j][l]
    BY <2>2
  <2> QED
    BY <1>c, <2>3 DEF ResponsesOK, Owner, Rightful, serverVars
<1>18. ObjectsOK'
  BY <1>c DEF ObjectsOK, Holds, serverVars
<1> QED
  BY <1>4, <1>5, <1>6, <1>7, <1>8, <1>9, <1>10, <1>11, <1>12, <1>13, <1>14, <1>15, <1>16, <1>17, <1>18

\* A response without its body completes its call with an error.
LEMMA InputBodyLostPreserves ==
  ASSUME RpcInv, NEW i \in ConnIds, InputBodyLost(i)
  PROVE  RpcInv'
<1> USE DEF RpcInv, RpcTypeOK, Errors, callVars, clientVars, linkVars, serverVars
<1> DEFINE m == toClient[i][1]
           calls == Pending(i, m.seq)
           e == IF m.err = "none" THEN "body" ELSE m.err
           r == "none"
           done == CallersOf(calls)
<1>1. inputPc[i] # "ended" /\ i \in ConnIds
  BY DEF InputBodyLost
<1>2. calls \subseteq pending[i] /\ Complete(done, e, r) /\ e \in Errors /\ r \in Callers \cup {"none"}
  <2>1. 1 \in DOMAIN toClient[i]
    BY DEF InputBodyLost, LinkType
  <2>2. m.err \in {"none", "server"} /\ m.reply \in Callers \cup {"none"}
    BY <2>1, TraceTypes
  <2>3. Complete(done, e, r)
    BY DEF InputBodyLost
  <2> QED
    BY <2>2, <2>3 DEF Pending
<1>a. callPc' = callPc
  BY DEF InputBodyLost
<1>b. /\ pending'[i] = pending[i] \ calls /\ toClient' = [toClient EXCEPT ![i] = Tail(@)]
      /\ \A j \in ConnIds \ {i} : pending'[j] = pending[j]
      /\ inputPc'[i] = "failed" /\ \A j \in ConnIds \ {i} : inputPc'[j] = inputPc[j]
      /\ shutdown' = shutdown
  BY DEF InputBodyLost, ClientType
<1>c. UNCHANGED <<attempt, onConn, seqOf, method, rpcClient, nextSeq, closing, shutdown, reqMutex, link,
                  toServer, cuts, serverVars>>
  BY DEF InputBodyLost
<1>d. /\ \A d \in Callers : d \in done =>
           /\ seqOf[d] # NoSeq /\ onConn[d] = i /\ [seq |-> seqOf[d], caller |-> d] \in calls
           /\ completed[d] = 0 /\ completed'[d] = 1 /\ err'[d] = e /\ reply'[d] = r
      /\ \A d \in Callers : d \notin done =>
           completed'[d] = completed[d] /\ err'[d] = err[d] /\ reply'[d] = reply[d]
      /\ completed' \in [Callers -> Nat]
  <2> HIDE DEF calls, e, r, m
  <2> QED
    BY ONLY RpcInv, i \in ConnIds, <1>1, <1>2, CompleteFacts, Zenon DEF done
<1>3. \A d \in Callers : d \in done => e \in {"none", "server", "body", "eof", "write"} /\ Rightful(d, e, r)
  <2>1. 1 \in DOMAIN toClient[i]
    BY DEF InputBodyLost, LinkType
  <2>2. PICK d \in Callers : m.seq # NoSeq /\ Owner(i, m.seq, d) /\ Rightful(d, m.err, m.reply)
    BY <2>1 DEF ResponsesOK
  <2>3. \A p \in calls : p.seq = m.seq
    BY DEF Pending
  <2>4. \A f \in Callers : f \in done => f = d
    <3> HIDE DEF calls, done, m
    <3>1. \A f \in Callers : f \in done => seqOf[f] = m.seq /\ onConn[f] = i
      BY <1>d, <2>3
    <3> QED
      BY <2>2, <3>1 DEF NumbersOK, Owner
  <2>5. m.err \in {"none", "server"}
    BY <2>1, TraceTypes
  <2> QED
    BY <2>2, <2>4, <2>5 DEF Rightful
<1> HIDE DEF calls, done, e, r, m
<1>4. CallType'
  <2>1. err' \in [Callers -> Errors] /\ reply' \in [Callers -> Callers \cup {"none"}]
    BY <1>2 DEF Complete, CallType
  <2> QED
    BY <1>a, <1>c, <1>d, <2>1 DEF CallType
<1>5. ClientType'
  BY <1>c DEF InputBodyLost, ClientType
<1>6. LinkType'
  <2>1. toClient[i] # <<>>
    BY DEF InputBodyLost
  <2>2. Tail(toClient[i]) \in Seq(Responses)
    BY <2>1 DEF LinkType
  <2> QED
    BY <1>b, <1>c, <2>2 DEF LinkType
<1>7. ServerType'
  BY <1>c DEF ServerType, serverVars
<1>8. UnsentOK'
  BY <1>a, <1>c, <1>d DEF UnsentOK, Unsent, serverVars
<1>9. RegisteredOK'
  <2> SUFFICES ASSUME NEW d \in Callers, seqOf'[d] # NoSeq
               PROVE  Registered(d)'
    BY DEF RegisteredOK
  <2>1. Registered(d) /\ onConn[d] \in ConnIds
    BY <1>c, RpcAssumption DEF RegisteredOK, NumbersOK, CallType, ConnIds
  <2>2. callPc[d] = "write" => inputPc'[onConn[d]] # "ended"
    BY <1>b, <2>1 DEF Registered
  <2>3. CASE d \in done
    <3>1. Rightful(d, err[d], reply[d])'
      BY <1>3, <1>c, <1>d, <2>3 DEF Rightful, serverVars
    <3>2. completed'[d] = 1 /\ err'[d] # "shutdown"
      BY <1>3, <1>d, <2>3
    <3> QED
      BY <1>a, <1>c, <2>1, <2>2, <3>1, <3>2 DEF Registered, serverVars
  <2>4. CASE d \notin done
    BY <1>a, <1>c, <1>d, <2>1, <2>2, <2>4 DEF Registered, Rightful, serverVars
  <2> QED
    BY <2>3, <2>4
<1>10. NumbersOK'
  BY <1>a, <1>c DEF NumbersOK, linkVars
<1>11. ConnsOK'
  <2>1. \A j \in ConnIds : pending'[j] \subseteq pending[j] /\ (inputPc'[j] = "ended" => inputPc[j] = "ended")
                              /\ (j # i => inputPc'[j] = inputPc[j])
    BY <1>b
  <2>2. link[i] # "none"
    <3>1. 1 \in DOMAIN toClient[i]
      BY DEF InputBodyLost, LinkType
    <3> QED
      BY <3>1 DEF ResponsesOK, NumbersOK, Owner
  <2>3. rpcClient' # 0 => link'[rpcClient'] # "none"
    BY <1>c DEF ConnsOK
  <2>4. ASSUME NEW j \in ConnIds
        PROVE  /\ link'[j] = "none" => /\ servePc'[j] = "get" /\ inputPc'[j] = "read" /\ reqMutex'[j] = "nobody"
                                       /\ ~shutdown'[j] /\ ~closing'[j] /\ pending'[j] = {}
               /\ inputPc'[j] = "ended" => shutdown'[j]
               /\ closing'[j] => \A c \in Callers : callPc'[c] \in {"returned", "crashed"}
    <3>1. /\ link[j] = "none" => /\ servePc[j] = "get" /\ inputPc[j] = "read" /\ reqMutex[j] = "nobody"
                                 /\ ~shutdown[j] /\ ~closing[j] /\ pending[j] = {}
          /\ inputPc[j] = "ended" => shutdown[j]
          /\ closing[j] => \A c \in Callers : callPc[c] \in {"returned", "crashed"}
      BY DEF ConnsOK
    <3> QED
      BY <1>a, <1>c, <2>1, <2>2, <3>1 DEF serverVars
  <2> QED
    BY ONLY <2>3, <2>4 DEF ConnsOK
<1>12. CrashOK'
  <2>1. \A d \in Callers : err'[d] = "shutdown" => err[d] = "shutdown"
    BY <1>3, <1>d
  <2>2. SomeShutdown => SomeShutdown'
    BY <1>b DEF SomeShutdown
  <2> QED
    BY <1>a, <1>c, <2>1, <2>2 DEF CrashOK
<1>13. PendingOK'
  <2> SUFFICES ASSUME NEW j \in ConnIds, NEW p \in pending'[j]
               PROVE  /\ p.seq # NoSeq /\ Owner(j, p.seq, p.caller)'
                      /\ inputPc'[j] # "ended" => completed'[p.caller] = 0
    BY DEF PendingOK
  <2>1. p \in pending[j] /\ p.caller \in Callers /\ Owner(j, p.seq, p.caller) /\ p.seq # NoSeq
    BY <1>b, TraceTypes DEF PendingOK
  <2>2. p.caller \in done => j = i /\ [seq |-> p.seq, caller |-> p.caller] \in calls
    BY <1>d, <2>1 DEF Owner
  <2>3. p = [seq |-> p.seq, caller |-> p.caller]
    BY <2>1 DEF ClientType
  <2>4. p.caller \notin done
    BY <1>b, <2>2, <2>3
  <2>5. inputPc[j] # "ended" => completed[p.caller] = 0
    BY <2>1 DEF PendingOK
  <2>6. inputPc'[j] # "ended" => inputPc[j] # "ended"
    BY <1>1, <1>b
  <2> QED
    BY <1>c, <1>d, <2>1, <2>4, <2>5, <2>6 DEF Owner
<1>14. RequestsOK'
  BY <1>a, <1>c DEF RequestsOK, Underway, Owner, linkVars, serverVars
<1>15. HandlersOK'
  BY <1>a, <1>c DEF HandlersOK, Underway, Owner, serverVars
<1>16. LoopsOK'
  BY <1>c DEF LoopsOK, Owner, serverVars, linkVars
<1>17. ResponsesOK'
  <2>1. toClient[i] # <<>>
    BY DEF InputBodyLost
  <2>2. /\ \A k \in DOMAIN toClient'[i] : k + 1 \in DOMAIN toClient[i] /\ toClient'[i][k] = toClient[i][k + 1]
        /\ \A j \in ConnIds \ {i} : toClient'[j] = toClient[j]
    BY <1>b, <2>1 DEF LinkType
  <2> SUFFICES ASSUME NEW j \in ConnIds, NEW k \in DOMAIN toClient'[j]
               PROVE  \E d \in Callers : /\ toClient'[j][k].seq # NoSeq /\ Owner(j, toClient[j][k].seq, d)'
                                         /\ Rightful(d, toClient[j][k].err, toClient[j][k].reply)'
    BY DEF ResponsesOK
  <2>3. \E l \in DOMAIN toClient[j] : toClient'[j][k] = toClient[j][l]
    BY <2>2
  <2> QED
    BY <1>c, <2>3 DEF ResponsesOK, Owner, Rightful, serverVars
<1>18. ObjectsOK'
  BY <1>c DEF ObjectsOK, Holds, serverVars
<1> QED
  BY <1>4, <1>5, <1>6, <1>7, <1>8, <1>9, <1>10, <1>11, <1>12, <1>13, <1>14, <1>15, <1>16, <1>17, <1>18

\* The end of input completes what is pending, with an error that is not ErrShutdown.
LEMMA InputEndPreserves ==
  ASSUME RpcInv, NEW i \in ConnIds, InputEnd(i)
  PROVE  RpcInv'
<1> USE DEF RpcInv, RpcTypeOK, Errors, callVars, clientVars, linkVars, serverVars
<1> DEFINE calls == pending[i]
           done == CallersOf(calls)
           r == "none"
<1>1. inputPc[i] # "ended" /\ i \in ConnIds
  BY DEF InputEnd, InputOver
<1> PICK e \in IF inputPc[i] = "failed" THEN {"body"}
              ELSE IF closing[i] THEN {"shutdown", "closed"} ELSE {"eof"} :
            Complete(CallersOf(pending[i]), e, "none")
  BY DEF InputEnd
<1>2. calls \subseteq pending[i] /\ Complete(done, e, r) /\ r \in Callers \cup {"none"}
      /\ e \in Errors
  OBVIOUS
<1>a. callPc' = callPc
  BY DEF InputEnd
<1>b. /\ pending' = pending
      /\ inputPc'[i] = "ended" /\ \A j \in ConnIds \ {i} : inputPc'[j] = inputPc[j]
      /\ shutdown'[i] /\ \A j \in ConnIds \ {i} : shutdown'[j] = shutdown[j]
      /\ reqMutex[i] = "nobody"
  BY DEF InputEnd, ClientType
<1>c. UNCHANGED <<attempt, onConn, seqOf, method, rpcClient, nextSeq, closing, reqMutex, linkVars,
                  serverVars>>
  BY DEF InputEnd
<1>d. /\ \A d \in Callers : d \in done =>
           /\ seqOf[d] # NoSeq /\ onConn[d] = i /\ [seq |-> seqOf[d], caller |-> d] \in calls
           /\ completed[d] = 0 /\ completed'[d] = 1 /\ err'[d] = e /\ reply'[d] = r
      /\ \A d \in Callers : d \notin done =>
           completed'[d] = completed[d] /\ err'[d] = err[d] /\ reply'[d] = reply[d]
      /\ completed' \in [Callers -> Nat]
  <2> HIDE DEF calls, r
  <2> QED
    BY ONLY RpcInv, i \in ConnIds, <1>1, <1>2, CompleteFacts, Zenon DEF done
<1>3. \A d \in Callers : d \in done => e \in {"none", "server", "body", "eof", "write"} /\ Rightful(d, e, r)
  <2> SUFFICES ASSUME NEW d \in Callers, d \in done
               PROVE  e \in {"body", "eof"}
    BY DEF Rightful
  <2>1. ~closing[i]
    BY <1>d DEF ConnsOK, RegisteredOK, Registered
  <2> QED
    BY <2>1
<1> HIDE DEF calls, done, r
<1>4. CallType'
  <2>1. err' \in [Callers -> Errors] /\ reply' \in [Callers -> Callers \cup {"none"}]
    BY <1>2 DEF Complete, CallType
  <2> QED
    BY <1>a, <1>c, <1>d, <2>1 DEF CallType
<1>5. ClientType'
  BY <1>c DEF InputEnd, ClientType
<1>6. LinkType'
  BY <1>c DEF LinkType, linkVars
<1>7. ServerType'
  BY <1>c DEF ServerType, serverVars
<1>8. UnsentOK'
  BY <1>a, <1>c, <1>d DEF UnsentOK, Unsent, serverVars
<1>9. RegisteredOK'
  <2> SUFFICES ASSUME NEW d \in Callers, seqOf'[d] # NoSeq
               PROVE  Registered(d)'
    BY DEF RegisteredOK
  <2>1. Registered(d) /\ onConn[d] \in ConnIds
    BY <1>c, RpcAssumption DEF RegisteredOK, NumbersOK, CallType, ConnIds
  <2>2. callPc[d] = "write" => inputPc'[onConn[d]] # "ended"
    <3>1. callPc[d] = "write" => onConn[d] # i
      BY <1>b, <2>1, RpcAssumption DEF Registered
    <3> QED
      BY <1>b, <2>1, <3>1 DEF Registered
  <2>3. CASE d \in done
    <3>1. Rightful(d, err[d], reply[d])'
      BY <1>3, <1>c, <1>d, <2>3 DEF Rightful, serverVars
    <3>2. completed'[d] = 1 /\ err'[d] # "shutdown"
      BY <1>3, <1>d, <2>3
    <3> QED
      BY <1>a, <1>c, <2>1, <2>2, <3>1, <3>2 DEF Registered, serverVars
  <2>4. CASE d \notin done
    BY <1>a, <1>c, <1>d, <2>1, <2>2, <2>4 DEF Registered, Rightful, serverVars
  <2> QED
    BY <2>3, <2>4
<1>10. NumbersOK'
  BY <1>a, <1>c DEF NumbersOK, linkVars
<1>11. ConnsOK'
  <2>1. link[i] # "none"
    BY DEF InputEnd, InputOver, ConnsOK
  <2> QED
    BY <1>a, <1>b, <1>c, <2>1 DEF ConnsOK, linkVars, serverVars
<1>12. CrashOK'
  <2>1. \A d \in Callers : err'[d] = "shutdown" => err[d] = "shutdown"
    BY <1>3, <1>d
  <2>2. SomeShutdown => SomeShutdown'
    BY <1>b DEF SomeShutdown
  <2> QED
    BY <1>a, <1>c, <2>1, <2>2 DEF CrashOK
<1>13. PendingOK'
  <2> SUFFICES ASSUME NEW j \in ConnIds, NEW p \in pending'[j]
               PROVE  /\ p.seq # NoSeq /\ Owner(j, p.seq, p.caller)'
                      /\ inputPc'[j] # "ended" => completed'[p.caller] = 0
    BY DEF PendingOK
  <2>1. p \in pending[j] /\ p.caller \in Callers /\ Owner(j, p.seq, p.caller) /\ p.seq # NoSeq
    BY <1>b, TraceTypes DEF PendingOK
  <2>2. j # i => p.caller \notin done
    BY <1>d, <2>1 DEF Owner
  <2> QED
    BY <1>b, <1>c, <1>d, <2>1, <2>2 DEF PendingOK, Owner
<1>14. RequestsOK'
  BY <1>a, <1>c DEF RequestsOK, Underway, Owner, linkVars, serverVars
<1>15. HandlersOK'
  BY <1>a, <1>c DEF HandlersOK, Underway, Owner, serverVars
<1>16. LoopsOK'
  BY <1>c DEF LoopsOK, Owner, serverVars, linkVars
<1>17. ResponsesOK'
  BY <1>c DEF ResponsesOK, Owner, Rightful, serverVars, linkVars
<1>18. ObjectsOK'
  BY <1>c DEF ObjectsOK, Holds, serverVars
<1> QED
  BY <1>4, <1>5, <1>6, <1>7, <1>8, <1>9, <1>10, <1>11, <1>12, <1>13, <1>14, <1>15, <1>16, <1>17, <1>18

\* Close of the daemon client, when all calls are over, preserves the invariant.
LEMMA ClosePreserves ==
  ASSUME RpcInv, Close
  PROVE  RpcInv'
<1> USE DEF RpcInv, RpcTypeOK, Errors, callVars, clientVars, linkVars, serverVars
<1>a. /\ rpcClient \in ConnIds /\ rpcClient' = 0 /\ \A c \in Callers : callPc[c] \in {"returned", "crashed"}
      /\ link'[rpcClient] = "cut" /\ closing'[rpcClient]
      /\ \A i \in ConnIds \ {rpcClient} : link'[i] = link[i] /\ closing'[i] = closing[i]
  BY RpcAssumption DEF Close, CloseClient, ClientType, LinkType, ConnIds
<1>b. link[rpcClient] # "none"
  BY DEF Close, ConnsOK
<1>c. UNCHANGED <<callVars, nextSeq, pending, shutdown, reqMutex, inputPc, toServer, toClient, cuts,
                  serverVars>>
  BY DEF Close
<1>1. CallType'
  BY RpcAssumption DEF Close, CallType, ConnIds
<1>2. ClientType'
  BY <1>a, <1>c, RpcAssumption DEF Close, CloseClient, ClientType
<1>3. LinkType'
  BY <1>a, <1>c DEF Close, CloseClient, LinkType
<1>4. ServerType'
  BY RpcAssumption DEF Close, ServerType
<1>5. UnsentOK'
  BY RpcAssumption DEF Close, UnsentOK, Unsent
<1>6. RegisteredOK'
  BY RpcAssumption DEF Close, RegisteredOK, Registered, Rightful
<1>7. NumbersOK'
  BY <1>a, <1>c, RpcAssumption DEF NumbersOK, CallType, ConnIds
<1>8. ConnsOK'
  BY <1>a, <1>b, <1>c DEF ConnsOK, ClientType
<1>9. CrashOK'
  BY RpcAssumption DEF Close, CloseClient, CrashOK, SomeShutdown, ClientType, ConnIds
<1>10. PendingOK'
  BY RpcAssumption DEF Close, PendingOK, Owner
<1>11. RequestsOK'
  <2>1. \A i \in ConnIds : link[i] = "cut" => link'[i] = "cut"
    BY <1>a
  <2> QED
    BY <1>c, <2>1 DEF RequestsOK, Underway, Owner
<1>12. HandlersOK'
  BY RpcAssumption DEF Close, HandlersOK, Underway, Owner
<1>13. LoopsOK'
  <2>1. \A i \in ConnIds : link'[i] = "open" => link[i] = "open"
    BY <1>a
  <2> QED
    BY <1>c, <2>1 DEF LoopsOK, Owner
<1>14. ResponsesOK'
  BY RpcAssumption DEF Close, ResponsesOK, Owner, Rightful
<1>15. ObjectsOK'
  BY RpcAssumption DEF Close, ObjectsOK, Holds
<1> QED
  BY <1>1, <1>2, <1>3, <1>4, <1>5, <1>6, <1>7, <1>8, <1>9, <1>10, <1>11, <1>12, <1>13, <1>14, <1>15

\* The Request object that a loop takes was with nobody.
LEMMA getRequestPreserves ==
  ASSUME RpcInv, NEW i \in ConnIds, getRequest(i)
  PROVE  RpcInv'
<1> USE DEF RpcInv, RpcTypeOK, Errors, callVars, clientVars, linkVars, serverVars
<1>1. PICK n \in Nat :
        /\ loopReq' = [loopReq EXCEPT ![i] = n] /\ n \in DOMAIN reqs' /\ reqs' \in Seq(Int)
        /\ \A k \in DOMAIN reqs : k \in DOMAIN reqs' /\ (k # n => reqs'[k] = reqs[k])
        /\ freeReq' \in Seq(Nat) /\ \A k, l \in DOMAIN freeReq' : freeReq'[k] = freeReq'[l] => k = l
        /\ \A k \in DOMAIN freeReq' : freeReq'[k] # n /\ freeReq'[k] \in DOMAIN reqs
        /\ \A k \in DOMAIN freeReq' : \E l \in DOMAIN freeReq : freeReq'[k] = freeReq[l]
        /\ \A j \in ConnIds : Holds(j) => loopReq[j] # n
        /\ \A g \in handlers : g.req # n
  <2>1. CASE freeReq = <<>>
    <3>1. /\ reqs' = Append(reqs, NoSeq) /\ loopReq' = [loopReq EXCEPT ![i] = Len(reqs) + 1]
          /\ freeReq' = freeReq /\ Len(reqs) \in Nat
      BY <2>1 DEF getRequest, ServerType
    <3>2. /\ DOMAIN reqs = 1 .. Len(reqs) /\ DOMAIN reqs' = 1 .. Len(reqs) + 1 /\ reqs' \in Seq(Int)
          /\ \A k \in DOMAIN reqs : reqs'[k] = reqs[k]
      BY <3>1 DEF ServerType, NoSeq
    <3>3. Len(reqs) + 1 \notin DOMAIN reqs
      BY <3>1, <3>2
    <3>4. /\ \A j \in ConnIds : Holds(j) => loopReq[j] # Len(reqs) + 1
          /\ \A g \in handlers : g.req # Len(reqs) + 1
      BY <3>3 DEF ObjectsOK
    <3>5. freeReq' \in Seq(Nat) /\ DOMAIN freeReq' = {}
      BY <2>1, <3>1
    <3> DEFINE n == Len(reqs) + 1
    <3>6. n \in Nat /\ n \in DOMAIN reqs' /\ \A k \in DOMAIN reqs : k \in DOMAIN reqs'
      BY <3>1, <3>2
    <3>7. loopReq' = [loopReq EXCEPT ![i] = n]
      BY <3>1
    <3>8. (\A j \in ConnIds : Holds(j) => loopReq[j] # n) /\ (\A g \in handlers : g.req # n)
      BY <3>4
    <3> HIDE DEF n
    <3> QED
      BY <3>2, <3>5, <3>6, <3>7, <3>8
  <2>2. CASE freeReq # <<>>
    <3> DEFINE n == freeReq[1]
    <3>1. /\ reqs' = [reqs EXCEPT ![n] = NoSeq] /\ loopReq' = [loopReq EXCEPT ![i] = n]
          /\ freeReq' = Tail(freeReq) /\ 1 \in DOMAIN freeReq /\ n \in Nat
      BY <2>2 DEF getRequest, ServerType
    <3>2. /\ freeReq' \in Seq(Nat)
          /\ \A k \in DOMAIN freeReq' : k \in Nat /\ k # 0 /\ k + 1 \in DOMAIN freeReq /\ freeReq'[k] = freeReq[k + 1]
      BY <2>2, <3>1 DEF ServerType
    <3>3. n \in DOMAIN reqs
      BY <3>1 DEF ObjectsOK
    <3>4. DOMAIN reqs' = DOMAIN reqs /\ reqs' \in Seq(Int) /\ \A k \in DOMAIN reqs : k # n => reqs'[k] = reqs[k]
      BY <3>1, <3>3 DEF ServerType, NoSeq
    <3>5. /\ \A k, l \in DOMAIN freeReq' : freeReq'[k] = freeReq'[l] => k = l
          /\ \A k \in DOMAIN freeReq' : freeReq'[k] # n /\ freeReq'[k] \in DOMAIN reqs
      <4>1. \A k, l \in DOMAIN freeReq : freeReq[k] = freeReq[l] => k = l
        BY DEF ObjectsOK
      <4>2. \A k \in DOMAIN freeReq : freeReq[k] \in DOMAIN reqs
        BY DEF ObjectsOK
      <4>3. \A k, l \in DOMAIN freeReq' : freeReq'[k] = freeReq'[l] => k + 1 = l + 1
        BY <3>2, <4>1
      <4>4. \A k \in DOMAIN freeReq' : k + 1 # 1 /\ k \in Nat
        BY <3>2
      <4> HIDE DEF n
      <4> QED
        BY <3>1, <3>2, <4>1, <4>2, <4>3, <4>4 DEF n
    <3>6. /\ \A j \in ConnIds : Holds(j) => loopReq[j] # n
          /\ \A g \in handlers : g.req # n
      BY <3>1 DEF ObjectsOK
    <3> HIDE DEF n
    <3> QED
      BY <3>1, <3>2, <3>3, <3>4, <3>5, <3>6, ZenonT(40)
  <2> QED
    BY <2>1, <2>2
<1>a. /\ servePc'[i] = "read" /\ loopReq'[i] = n /\ servePc[i] = "get" /\ link[i] # "none"
      /\ \A j \in ConnIds \ {i} : servePc'[j] = servePc[j] /\ loopReq'[j] = loopReq[j]
  BY <1>1 DEF getRequest, ServerType
<1>c. UNCHANGED <<callVars, clientVars, linkVars, handlers, executed>>
  BY DEF getRequest
<1>2. CallType'
  BY RpcAssumption DEF getRequest, CallType, ConnIds
<1>3. ClientType'
  BY RpcAssumption DEF getRequest, ClientType, ConnIds
<1>4. LinkType'
  BY RpcAssumption DEF getRequest, LinkType, ConnIds
<1>5. ServerType'
  BY <1>1, <1>c DEF getRequest, ServerType
<1>6. UnsentOK'
  BY RpcAssumption DEF getRequest, UnsentOK, Unsent
<1>7. RegisteredOK'
  BY RpcAssumption DEF getRequest, RegisteredOK, Registered, Rightful
<1>8. NumbersOK'
  BY RpcAssumption DEF getRequest, NumbersOK
<1>9. ConnsOK'
  BY <1>a, <1>c DEF ConnsOK
<1>10. CrashOK'
  BY RpcAssumption DEF getRequest, CrashOK, SomeShutdown
<1>11. PendingOK'
  BY RpcAssumption DEF getRequest, PendingOK, Owner
<1>12. RequestsOK'
  BY RpcAssumption DEF getRequest, RequestsOK, Underway, Owner
<1>13. HandlersOK'
  BY <1>1, <1>c DEF HandlersOK, Underway, Owner
<1>14. LoopsOK'
  <2> SUFFICES ASSUME NEW j \in ConnIds, servePc'[j] = "answer", link'[j] = "open"
               PROVE  reqs'[loopReq'[j]] = reqs[loopReq[j]] /\ servePc[j] = "answer" /\ link[j] = "open"
    BY <1>c DEF LoopsOK, Owner
  <2>1. servePc[j] = "answer" /\ loopReq'[j] = loopReq[j]
    BY <1>a
  <2> QED
    BY <1>1, <1>c, <2>1 DEF ObjectsOK, Holds
<1>15. ResponsesOK'
  BY RpcAssumption DEF getRequest, ResponsesOK, Owner, Rightful
<1>16. ObjectsOK'
  <2>1. /\ \A k \in DOMAIN freeReq' : freeReq'[k] \in DOMAIN reqs'
        /\ \A k, l \in DOMAIN freeReq' : freeReq'[k] = freeReq'[l] => k = l
    BY <1>1
  <2>2. ASSUME NEW j \in ConnIds, Holds(j)'
        PROVE  /\ loopReq'[j] \in DOMAIN reqs'
               /\ \A k \in DOMAIN freeReq' : freeReq'[k] # loopReq'[j]
               /\ \A l \in ConnIds : Holds(l)' /\ loopReq'[l] = loopReq'[j] => j = l
               /\ \A g \in handlers' : g.req # loopReq'[j]
    <3>1. CASE j = i
      BY <1>1, <1>a, <1>c, <2>2, <3>1 DEF Holds
    <3>2. CASE j # i
      <4>1. Holds(j) /\ loopReq'[j] = loopReq[j]
        BY <1>a, <2>2, <3>2 DEF Holds
      <4>2. /\ loopReq[j] \in DOMAIN reqs /\ loopReq[j] # n
            /\ \A k \in DOMAIN freeReq : freeReq[k] # loopReq[j]
            /\ \A l \in ConnIds : Holds(l) /\ loopReq[l] = loopReq[j] => j = l
            /\ \A g \in handlers : g.req # loopReq[j]
        BY <1>1, <4>1 DEF ObjectsOK
      <4>3. \A l \in ConnIds : l # i /\ Holds(l)' => Holds(l) /\ loopReq'[l] = loopReq[l]
        BY <1>a DEF Holds
      <4> QED
        BY <1>1, <1>a, <1>c, <3>2, <4>1, <4>2, <4>3
    <3> QED
      BY <3>1, <3>2
  <2>3. ASSUME NEW g \in handlers'
        PROVE  /\ g.req \in DOMAIN reqs'
               /\ \A k \in DOMAIN freeReq' : freeReq'[k] # g.req
               /\ \A h \in handlers' : g.req = h.req => g = h
    BY <1>1, <1>c DEF ObjectsOK
  <2> QED
    BY <2>1, <2>2, <2>3 DEF ObjectsOK
<1> QED
  BY <1>2, <1>3, <1>4, <1>5, <1>6, <1>7, <1>8, <1>9, <1>10, <1>11, <1>12, <1>13, <1>14, <1>15, <1>16

\* The request that a loop reads is handed to one goroutine, with its object.
LEMMA ReadRequestPreserves ==
  ASSUME RpcInv, NEW i \in ConnIds, ReadRequest(i)
  PROVE  RpcInv'
<1> USE DEF RpcInv, RpcTypeOK, Errors, callVars, clientVars, linkVars, serverVars
<1> DEFINE m == toServer[i][1]
           n == loopReq[i]
           ok == m.whole /\ m.method # "unknown"
           h == [conn |-> i, req |-> n, args |-> m.args,
                 err |-> IF m.method = "fails" THEN "server" ELSE "none", pc |-> "execute"]
<1>1. /\ 1 \in DOMAIN toServer[i] /\ m.seq \in Int /\ m.args \in Callers /\ m.method \in Methods /\ m.whole \in BOOLEAN
      /\ m.seq # NoSeq /\ Owner(i, m.seq, m.args) /\ callPc[m.args] # "write" /\ executed[m.args] = 0
      /\ m.method = method[m.args] /\ (m.whole \/ link[i] = "cut")
      /\ \A l \in DOMAIN toServer[i] : toServer[i][l].args = m.args => l = 1
      /\ \A g \in handlers : g.args # m.args
  <2>1. 1 \in DOMAIN toServer[i]
    BY DEF ReadRequest, LinkType
  <2>2. m.seq \in Int /\ m.args \in Callers /\ m.method \in Methods /\ m.whole \in BOOLEAN
    BY <2>1, TraceTypes
  <2> QED
    BY <2>1, <2>2 DEF RequestsOK, Underway
<1>2. /\ servePc[i] = "read" /\ n \in DOMAIN reqs /\ n \in Nat
      /\ \A k \in DOMAIN freeReq : freeReq[k] # n
      /\ \A j \in ConnIds : Holds(j) /\ loopReq[j] = n => i = j
      /\ \A g \in handlers : g.req # n
  BY DEF ReadRequest, ObjectsOK, Holds, ServerType
<1>3. h \in Handlers /\ h.conn = i /\ h.req = n /\ h.args = m.args /\ h.pc = "execute"
      /\ h.err = IF m.method = "fails" THEN "server" ELSE "none"
  BY <1>1, <1>2 DEF Handlers
<1>4. link[i] # "none"
  BY <1>1 DEF NumbersOK, Owner
<1>a. /\ reqs' \in Seq(Int) /\ DOMAIN reqs' = DOMAIN reqs /\ reqs'[n] = m.seq
      /\ \A k \in DOMAIN reqs : k # n => reqs'[k] = reqs[k]
  BY <1>1, <1>2 DEF ReadRequest, ServerType
<1>b. /\ toServer[i] # <<>> /\ toServer' = [toServer EXCEPT ![i] = Tail(toServer[i])]
      /\ servePc'[i] = (IF ok THEN "get" ELSE "answer") /\ \A j \in ConnIds \ {i} : servePc'[j] = servePc[j]
  BY DEF ReadRequest, ServerType
<1>d. handlers' = IF ok THEN handlers \cup {h} ELSE handlers
  BY DEF ReadRequest
<1>c. UNCHANGED <<callVars, clientVars, link, toClient, cuts, loopReq, freeReq, executed>>
  BY DEF ReadRequest
<1>e. ok \in BOOLEAN /\ (~ok /\ link[i] = "open" => method[m.args] = "unknown") /\ (ok => method[m.args] # "unknown")
  BY <1>1
<1> HIDE DEF m, n, ok, h
<1>5. CallType'
  BY RpcAssumption DEF ReadRequest, CallType, ConnIds
<1>6. ClientType'
  BY RpcAssumption DEF ReadRequest, ClientType, ConnIds
<1>7. LinkType'
  <2>1. Tail(toServer[i]) \in Seq(Requests)
    BY <1>b DEF LinkType
  <2> QED
    BY <1>b, <1>c, <2>1 DEF LinkType
<1>8. ServerType'
  <2>1. servePc' \in [ConnIds -> {"get", "read", "answer", "ended"}]
    BY DEF ReadRequest, ServerType
  <2>2. handlers' \subseteq Handlers
    BY <1>3, <1>d DEF ServerType
  <2> QED
    BY <1>a, <1>c, <2>1, <2>2 DEF ServerType
<1>9. UnsentOK'
  BY RpcAssumption DEF ReadRequest, UnsentOK, Unsent
<1>10. RegisteredOK'
  BY RpcAssumption DEF ReadRequest, RegisteredOK, Registered, Rightful
<1>11. NumbersOK'
  BY RpcAssumption DEF ReadRequest, NumbersOK
<1>12. ConnsOK'
  BY <1>4, <1>b, <1>c DEF ConnsOK
<1>13. CrashOK'
  BY RpcAssumption DEF ReadRequest, CrashOK, SomeShutdown
<1>14. PendingOK'
  BY RpcAssumption DEF ReadRequest, PendingOK, Owner
<1>15. RequestsOK'
  <2>1. /\ \A k \in DOMAIN toServer'[i] : /\ k \in Nat /\ k # 0 /\ k + 1 \in DOMAIN toServer[i]
                                       /\ toServer'[i][k] = toServer[i][k + 1]
        /\ \A j \in ConnIds \ {i} : toServer'[j] = toServer[j]
    BY <1>b DEF LinkType
  <2> SUFFICES ASSUME NEW j \in ConnIds, NEW k \in DOMAIN toServer'[j]
               PROVE  /\ Underway(j, toServer[j][k].seq, toServer[j][k].args)' /\ executed'[toServer'[j][k].args] = 0
                      /\ toServer'[j][k].method = method'[toServer'[j][k].args]
                      /\ toServer'[j][k].whole \/ link'[j] = "cut"
                      /\ \A l \in DOMAIN toServer'[j] : toServer'[j][l].args = toServer'[j][k].args => k = l
                      /\ \A g \in handlers' : g.args # toServer'[j][k].args
    BY DEF RequestsOK
  <2> DEFINE o == IF j = i THEN k + 1 ELSE k
             q == toServer[j][o]
  <2>2. o \in DOMAIN toServer[j] /\ toServer'[j][k] = q /\ (j = i => o # 1)
    BY <2>1
  <2>3. \A l \in DOMAIN toServer'[j] : toServer'[j][l].args = q.args => k = l
    <3>1. \A l \in DOMAIN toServer[j] : toServer[j][l].args = q.args => o = l
      BY <2>2 DEF RequestsOK
    <3> HIDE DEF q
    <3>2. CASE j = i
      BY <2>1, <3>1, <3>2
    <3>3. CASE j # i
      BY <2>1, <3>1, <3>3
    <3> QED
      BY <3>2, <3>3
  <2> HIDE DEF o
  <2>4. /\ Underway(j, q.seq, q.args) /\ executed[q.args] = 0 /\ q.method = method[q.args]
        /\ (q.whole \/ link[j] = "cut") /\ \A g \in handlers : g.args # q.args
    BY <2>2 DEF RequestsOK
  <2>5. q.args # m.args
    <3>1. CASE j = i
      BY <1>1, <2>2, <3>1
    <3>2. CASE j # i
      BY <1>1, <2>4, <3>2 DEF Underway, Owner
    <3> QED
      BY <3>1, <3>2
  <2>6. \A g \in handlers' : g.args # q.args
    BY <1>3, <1>d, <2>4, <2>5
  <2> HIDE DEF q
  <2> QED
    BY <1>c, <2>2, <2>3, <2>4, <2>6 DEF Underway, Owner
<1>16. HandlersOK'
  <2> SUFFICES ASSUME NEW g \in handlers'
               PROVE  /\ g.req \in DOMAIN reqs' /\ Underway(g.conn, reqs[g.req], g.args)'
                      /\ executed'[g.args] = IF g.pc = "execute" THEN 0 ELSE 1
                      /\ method'[g.args] # "unknown"
                      /\ g.err = IF method'[g.args] = "fails" THEN "server" ELSE "none"
                      /\ \A f \in handlers' : g.args = f.args => g = f
    BY DEF HandlersOK
  <2>1. CASE g \in handlers
    <3>1. /\ g.req \in DOMAIN reqs /\ Underway(g.conn, reqs[g.req], g.args)
          /\ executed[g.args] = (IF g.pc = "execute" THEN 0 ELSE 1)
          /\ method[g.args] # "unknown"
          /\ g.err = (IF method[g.args] = "fails" THEN "server" ELSE "none")
          /\ \A f \in handlers : g.args = f.args => g = f
      BY <2>1 DEF HandlersOK
    <3>2. reqs'[g.req] = reqs[g.req] /\ g.args # m.args
      BY <1>1, <1>2, <1>a, <2>1, <3>1
    <3>3. \A f \in handlers' : g.args = f.args => g = f
      BY <1>3, <1>d, <3>1, <3>2
    <3> QED
      BY <1>a, <1>c, <3>1, <3>2, <3>3 DEF Underway, Owner
  <2>2. CASE g \notin handlers
    <3>1. g = h /\ ok
      BY <1>d, <2>2
    <3>2. \A f \in handlers' : g.args = f.args => g = f
      BY <1>1, <1>3, <1>d, <3>1
    <3> QED
      BY <1>1, <1>2, <1>3, <1>a, <1>c, <1>e, <3>1, <3>2 DEF Underway, Owner
  <2> QED
    BY <2>1, <2>2
<1>17. LoopsOK'
  <2> SUFFICES ASSUME NEW j \in ConnIds, servePc'[j] = "answer", link'[j] = "open"
               PROVE  \E c \in Callers : /\ reqs'[loopReq'[j]] # NoSeq /\ Owner(j, reqs[loopReq[j]], c)'
                                         /\ method'[c] = "unknown"
    BY DEF LoopsOK
  <2>1. CASE j = i
    <3>1. ~ok /\ loopReq'[j] = n
      BY <1>b, <1>c, <1>e, <2>1 DEF n
    <3> QED
      BY <1>1, <1>a, <1>c, <1>e, <2>1, <3>1 DEF Owner
  <2>2. CASE j # i
    <3>1. servePc[j] = "answer" /\ link[j] = "open"
      BY <1>b, <1>c, <2>2
    <3>2. loopReq[j] # n /\ loopReq[j] \in DOMAIN reqs
      BY <1>2, <2>2, <3>1 DEF ObjectsOK, Holds
    <3>3. reqs'[loopReq'[j]] = reqs[loopReq[j]]
      BY <1>a, <1>c, <3>2
    <3> QED
      BY <1>c, <3>1, <3>3 DEF LoopsOK, Owner
  <2> QED
    BY <2>1, <2>2
<1>18. ResponsesOK'
  BY RpcAssumption DEF ReadRequest, ResponsesOK, Owner, Rightful
<1>19. ObjectsOK'
  <2>1. \A j \in ConnIds : Holds(j)' => Holds(j) /\ (ok => j # i)
    BY <1>2, <1>b DEF Holds
  <2>2. \A g \in handlers' : g \in handlers \/ (g = h /\ ok)
    BY <1>d
  <2>3. \A g \in handlers' : /\ g.req \in DOMAIN reqs
                             /\ \A k \in DOMAIN freeReq : freeReq[k] # g.req
                             /\ \A f \in handlers' : g.req = f.req => g = f
    BY <1>2, <1>3, <2>2 DEF ObjectsOK
  <2>4. \A j \in ConnIds : Holds(j)' => \A g \in handlers' : g.req # loopReq[j]
    BY <1>2, <1>3, <2>1, <2>2 DEF ObjectsOK
  <2>5. /\ \A k \in DOMAIN freeReq : freeReq[k] \in DOMAIN reqs
        /\ \A k, l \in DOMAIN freeReq : freeReq[k] = freeReq[l] => k = l
        /\ \A j \in ConnIds : Holds(j) =>
             /\ loopReq[j] \in DOMAIN reqs
             /\ \A k \in DOMAIN freeReq : freeReq[k] # loopReq[j]
             /\ \A l \in ConnIds : Holds(l) /\ loopReq[l] = loopReq[j] => j = l
    BY DEF ObjectsOK
  <2> QED
    BY <1>a, <1>c, <2>1, <2>3, <2>4, <2>5 DEF ObjectsOK
<1> QED
  BY <1>5, <1>6, <1>7, <1>8, <1>9, <1>10, <1>11, <1>12, <1>13, <1>14, <1>15, <1>16, <1>17, <1>18, <1>19

\* A goroutine executes a request that was not executed before.
LEMMA ExecutePreserves ==
  ASSUME RpcInv, NEW g \in handlers, Execute(g)
  PROVE  RpcInv'
<1> USE DEF RpcInv, RpcTypeOK, Errors, callVars, clientVars, linkVars, serverVars
<1> DEFINE c == g.args
           h == [g EXCEPT !.pc = "answer"]
<1>1. /\ g.conn \in ConnIds /\ g.req \in DOMAIN reqs /\ c \in Callers /\ g.pc = "execute"
      /\ Underway(g.conn, reqs[g.req], c) /\ executed[c] = 0 /\ method[c] # "unknown"
      /\ g.err = (IF method[c] = "fails" THEN "server" ELSE "none")
      /\ \A f \in handlers : c = f.args => g = f
  BY TraceTypes DEF Execute, HandlersOK
<1>2. h \in Handlers /\ h.conn = g.conn /\ h.req = g.req /\ h.args = c /\ h.err = g.err /\ h.pc = "answer"
  BY DEF ServerType, Handlers
<1>a. executed' \in [Callers -> Nat] /\ executed'[c] = 1 /\ \A d \in Callers \ {c} : executed'[d] = executed[d]
  BY <1>1 DEF Execute, ServerType
<1>b. handlers' = (handlers \ {g}) \cup {h}
  BY DEF Execute
<1>c. UNCHANGED <<callVars, clientVars, linkVars, servePc, loopReq, reqs, freeReq>>
  BY DEF Execute
<1>3. seqOf[c] # NoSeq /\ callPc[c] # "write" /\ Registered(c)
  BY <1>1 DEF Underway, Owner, RegisteredOK
<1> HIDE DEF c, h
<1>4. CallType'
  BY RpcAssumption DEF Execute, CallType, ConnIds
<1>5. ClientType'
  BY RpcAssumption DEF Execute, ClientType, ConnIds
<1>6. LinkType'
  BY RpcAssumption DEF Execute, LinkType, ConnIds
<1>7. ServerType'
  BY <1>2, <1>a, <1>b, <1>c DEF ServerType
<1>8. UnsentOK'
  BY <1>3, <1>a, <1>c DEF UnsentOK, Unsent
<1>9. RegisteredOK'
  <2> SUFFICES ASSUME NEW d \in Callers, seqOf[d] # NoSeq
               PROVE  Registered(d)'
    BY <1>c DEF RegisteredOK
  <2>1. CASE d = c
    <3>1. completed[c] = 1 => err[c] # "none" /\ err[c] # "server"
      BY <1>1, <1>3 DEF Registered, Rightful
    <3> QED
      BY <1>1, <1>3, <1>a, <1>c, <2>1, <3>1 DEF Registered, Rightful
  <2>2. CASE d # c
    BY <1>a, <1>c, <2>2 DEF RegisteredOK, Registered, Rightful
  <2> QED
    BY <2>1, <2>2
<1>10. NumbersOK'
  BY RpcAssumption DEF Execute, NumbersOK
<1>11. ConnsOK'
  BY RpcAssumption DEF Execute, ConnsOK
<1>12. CrashOK'
  BY RpcAssumption DEF Execute, CrashOK, SomeShutdown
<1>13. PendingOK'
  BY RpcAssumption DEF Execute, PendingOK, Owner
<1>14. RequestsOK'
  <2>1. \A j \in ConnIds : \A k \in DOMAIN toServer[j] : toServer[j][k].args \in Callers \ {c}
    BY TraceTypes DEF RequestsOK, c
  <2>2. \A f \in handlers' : f \in handlers \/ f.args = c
    BY <1>2, <1>b
  <2> QED
    BY <1>a, <1>c, <2>1, <2>2 DEF RequestsOK, Underway, Owner
<1>15. HandlersOK'
  <2>1. \A f \in handlers' : (f \in handlers /\ f.args \in Callers \ {c}) \/ f = h
    BY <1>1, <1>b, TraceTypes
  <2> SUFFICES ASSUME NEW f \in handlers'
               PROVE  /\ f.req \in DOMAIN reqs' /\ Underway(f.conn, reqs[f.req], f.args)'
                      /\ executed'[f.args] = IF f.pc = "execute" THEN 0 ELSE 1
                      /\ method'[f.args] # "unknown"
                      /\ f.err = IF method'[f.args] = "fails" THEN "server" ELSE "none"
                      /\ \A e \in handlers' : f.args = e.args => f = e
    BY DEF HandlersOK
  <2>2. CASE f = h
    BY <1>1, <1>2, <1>a, <1>c, <2>1, <2>2 DEF Underway, Owner
  <2>3. CASE f # h
    BY <1>2, <1>a, <1>c, <2>1, <2>3 DEF HandlersOK, Underway, Owner
  <2> QED
    BY <2>2, <2>3
<1>16. LoopsOK'
  BY RpcAssumption DEF Execute, LoopsOK, Owner
<1>17. ResponsesOK'
  <2> SUFFICES ASSUME NEW j \in ConnIds, NEW k \in DOMAIN toClient[j], NEW d \in Callers,
                      Rightful(d, toClient[j][k].err, toClient[j][k].reply)
               PROVE  Rightful(d, toClient[j][k].err, toClient[j][k].reply)'
    BY <1>c DEF ResponsesOK, Owner
  <2>1. toClient[j][k].err \in {"none", "server"}
    BY TraceTypes
  <2>2. d # c
    BY <1>1, <2>1 DEF Rightful
  <2> QED
    BY <1>a, <1>c, <2>2 DEF Rightful
<1>18. ObjectsOK'
  <2>1. \A f \in handlers' : (f.req = g.req /\ f = h) \/ (f \in handlers /\ f.req # g.req)
    <3>1. \A f \in handlers : g.req = f.req => g = f
      BY DEF ObjectsOK
    <3> QED
      BY <1>2, <1>b, <3>1
  <2>2. /\ g.req \in DOMAIN reqs /\ \A k \in DOMAIN freeReq : freeReq[k] # g.req
        /\ \A j \in ConnIds : Holds(j) => g.req # loopReq[j]
    BY DEF ObjectsOK
  <2>3. \A f \in handlers' : /\ f.req \in DOMAIN reqs
                             /\ \A k \in DOMAIN freeReq : freeReq[k] # f.req
                             /\ \A e \in handlers' : f.req = e.req => f = e
    BY <2>1, <2>2 DEF ObjectsOK
  <2>4. \A j \in ConnIds : Holds(j) => \A f \in handlers' : f.req # loopReq[j]
    BY <2>1, <2>2 DEF ObjectsOK
  <2> QED
    BY <1>c, <2>3, <2>4 DEF ObjectsOK, Holds
<1> QED
  BY <1>4, <1>5, <1>6, <1>7, <1>8, <1>9, <1>10, <1>11, <1>12, <1>13, <1>14, <1>15, <1>16, <1>17, <1>18

\* The number in the Request object is that of the call the goroutine executed.
LEMMA SendResponsePreserves ==
  ASSUME RpcInv, NEW g \in handlers, SendResponse(g)
  PROVE  RpcInv'
<1> USE DEF RpcInv, RpcTypeOK, Errors, callVars, clientVars, linkVars, serverVars
<1> DEFINE c == g.args
           i == g.conn
           h == [g EXCEPT !.pc = "free"]
           m == [seq |-> reqs[g.req], err |-> g.err, reply |-> IF g.err = "none" THEN c ELSE "none", whole |-> TRUE]
<1>1. /\ i \in ConnIds /\ g.req \in DOMAIN reqs /\ c \in Callers /\ g.pc = "answer"
      /\ Underway(i, reqs[g.req], c) /\ executed[c] = 1 /\ method[c] # "unknown"
      /\ g.err = (IF method[c] = "fails" THEN "server" ELSE "none")
      /\ \A f \in handlers : c = f.args => g = f
  BY TraceTypes DEF SendResponse, HandlersOK
<1>2. h \in Handlers /\ h.conn = g.conn /\ h.req = g.req /\ h.args = c /\ h.err = g.err /\ h.pc = "free"
  BY DEF ServerType, Handlers
<1>3. /\ m \in Responses /\ m.seq # NoSeq /\ Owner(i, m.seq, c) /\ Rightful(c, m.err, m.reply)
  <2>1. m.seq = reqs[g.req] /\ m.err = g.err /\ m.reply = (IF g.err = "none" THEN c ELSE "none") /\ m.whole
    OBVIOUS
  <2>2. reqs[g.req] \in Int
    BY <1>1 DEF ServerType
  <2>3. m \in Responses
    BY <1>1, <2>2 DEF Responses
  <2> HIDE DEF m
  <2> QED
    BY <1>1, <2>1, <2>3 DEF Underway, Rightful
<1>a. toClient' = IF link[i] = "open" THEN [toClient EXCEPT ![i] = Append(toClient[i], m)] ELSE toClient
  BY DEF SendResponse, sendResponse
<1>b. handlers' = (handlers \ {g}) \cup {h}
  BY DEF SendResponse
<1>c. UNCHANGED <<callVars, clientVars, link, toServer, cuts, servePc, loopReq, reqs, freeReq, executed>>
  BY DEF SendResponse
<1> HIDE DEF c, i, h, m
<1>4. CallType'
  BY RpcAssumption DEF SendResponse, CallType, ConnIds
<1>5. ClientType'
  BY RpcAssumption DEF SendResponse, ClientType, ConnIds
<1>6. LinkType'
  <2>1. Append(toClient[i], m) \in Seq(Responses)
    BY <1>1, <1>3 DEF LinkType
  <2> QED
    BY <1>1, <1>a, <1>c, <2>1 DEF LinkType
<1>7. ServerType'
  BY <1>2, <1>b, <1>c DEF ServerType
<1>8. UnsentOK'
  BY RpcAssumption DEF SendResponse, UnsentOK, Unsent
<1>9. RegisteredOK'
  BY RpcAssumption DEF SendResponse, RegisteredOK, Registered, Rightful
<1>10. NumbersOK'
  BY RpcAssumption DEF SendResponse, NumbersOK
<1>11. ConnsOK'
  BY RpcAssumption DEF SendResponse, ConnsOK
<1>12. CrashOK'
  BY RpcAssumption DEF SendResponse, CrashOK, SomeShutdown
<1>13. PendingOK'
  BY RpcAssumption DEF SendResponse, PendingOK, Owner
<1>14. RequestsOK'
  <2>1. \A f \in handlers' : f \in handlers \/ f.args = c
    BY <1>2, <1>b
  <2>2. \A j \in ConnIds : \A k \in DOMAIN toServer[j] : toServer[j][k].args # c
    BY DEF RequestsOK, c
  <2> QED
    BY <1>c, <2>1, <2>2 DEF RequestsOK, Underway, Owner
<1>15. HandlersOK'
  <2>1. \A f \in handlers' : (f \in handlers /\ f.args \in Callers \ {c}) \/ f = h
    BY <1>1, <1>b, TraceTypes
  <2> SUFFICES ASSUME NEW f \in handlers'
               PROVE  /\ f.req \in DOMAIN reqs' /\ Underway(f.conn, reqs[f.req], f.args)'
                      /\ executed'[f.args] = IF f.pc = "execute" THEN 0 ELSE 1
                      /\ method'[f.args] # "unknown"
                      /\ f.err = IF method'[f.args] = "fails" THEN "server" ELSE "none"
                      /\ \A e \in handlers' : f.args = e.args => f = e
    BY DEF HandlersOK
  <2>2. CASE f = h
    <3>1. \A e \in handlers' : f.args = e.args => f = e
      BY <1>2, <2>1, <2>2
    <3>2. f.req = g.req /\ f.conn = i /\ f.args = c /\ f.err = g.err /\ f.pc = "free"
      BY <1>2, <2>2 DEF i
    <3> QED
      BY <1>1, <1>c, <3>1, <3>2 DEF Underway, Owner
  <2>3. CASE f # h
    BY <1>2, <1>c, <2>1, <2>3 DEF HandlersOK, Underway, Owner
  <2> QED
    BY <2>2, <2>3
<1>16. LoopsOK'
  BY RpcAssumption DEF SendResponse, LoopsOK, Owner
<1>17. ResponsesOK'
  <2>1. \A j \in ConnIds : \A k \in DOMAIN toClient'[j] :
          \/ k \in DOMAIN toClient[j] /\ toClient'[j][k] = toClient[j][k]
          \/ j = i /\ link[i] = "open" /\ toClient'[j][k] = m
    <3>1. CASE link[i] = "open"
      <4>1. /\ toClient'[i] = Append(toClient[i], m) /\ toClient[i] \in Seq(Responses)
            /\ \A j \in ConnIds \ {i} : toClient'[j] = toClient[j]
        BY <1>1, <1>a, <3>1 DEF LinkType
      <4> QED
        BY <3>1, <4>1
    <3>2. CASE link[i] # "open"
      BY <1>a, <3>2
    <3> QED
      BY <3>1, <3>2
  <2> SUFFICES ASSUME NEW j \in ConnIds, NEW k \in DOMAIN toClient'[j]
               PROVE  \E d \in Callers : /\ toClient'[j][k].seq # NoSeq /\ Owner(j, toClient[j][k].seq, d)'
                                         /\ Rightful(d, toClient[j][k].err, toClient[j][k].reply)'
    BY DEF ResponsesOK
  <2>2. CASE k \in DOMAIN toClient[j] /\ toClient'[j][k] = toClient[j][k]
    BY <1>c, <2>2 DEF ResponsesOK, Owner, Rightful
  <2>3. CASE j = i /\ link[i] = "open" /\ toClient'[j][k] = m
    BY <1>1, <1>3, <1>c, <2>3 DEF Owner, Rightful
  <2> QED
    BY <2>1, <2>2, <2>3
<1>18. ObjectsOK'
  <2>1. \A f \in handlers' : (f.req = g.req /\ f = h) \/ (f \in handlers /\ f.req # g.req)
    <3>1. \A f \in handlers : g.req = f.req => g = f
      BY DEF ObjectsOK
    <3> QED
      BY <1>2, <1>b, <3>1
  <2>2. /\ g.req \in DOMAIN reqs /\ \A k \in DOMAIN freeReq : freeReq[k] # g.req
        /\ \A j \in ConnIds : Holds(j) => g.req # loopReq[j]
    BY DEF ObjectsOK
  <2>3. \A f \in handlers' : /\ f.req \in DOMAIN reqs
                             /\ \A k \in DOMAIN freeReq : freeReq[k] # f.req
                             /\ \A e \in handlers' : f.req = e.req => f = e
    BY <2>1, <2>2 DEF ObjectsOK
  <2>4. \A j \in ConnIds : Holds(j) => \A f \in handlers' : f.req # loopReq[j]
    BY <2>1, <2>2 DEF ObjectsOK
  <2> QED
    BY <1>c, <2>3, <2>4 DEF ObjectsOK, Holds
<1> QED
  BY <1>4, <1>5, <1>6, <1>7, <1>8, <1>9, <1>10, <1>11, <1>12, <1>13, <1>14, <1>15, <1>16, <1>17, <1>18

\* A Request object that is freed is with nobody else.
LEMMA FreeRequestPreserves ==
  ASSUME RpcInv, NEW g \in handlers, FreeRequest(g)
  PROVE  RpcInv'
<1> USE DEF RpcInv, RpcTypeOK, Errors, callVars, clientVars, linkVars, serverVars
<1>1. /\ g.req \in DOMAIN reqs /\ g.req \in Nat /\ \A k \in DOMAIN freeReq : freeReq[k] # g.req
      /\ \A j \in ConnIds : Holds(j) => g.req # loopReq[j]
      /\ \A f \in handlers : g.req = f.req => g = f
  BY TraceTypes DEF ObjectsOK
<1>a. freeReq' = <<g.req>> \o freeReq
  BY DEF FreeRequest, freeRequest
<1>2. /\ freeReq' \in Seq(Nat)
      /\ \A k \in DOMAIN freeReq' : \/ k = 1 /\ freeReq'[k] = g.req
                                    \/ k \in Nat /\ k - 1 \in DOMAIN freeReq /\ freeReq'[k] = freeReq[k - 1]
  BY <1>1, <1>a DEF ServerType
<1>c. UNCHANGED <<callVars, clientVars, linkVars, servePc, loopReq, reqs, executed>> /\ handlers' =
                  handlers \ {g}
  BY DEF FreeRequest
<1>3. CallType'
  BY RpcAssumption DEF FreeRequest, CallType, ConnIds
<1>4. ClientType'
  BY RpcAssumption DEF FreeRequest, ClientType, ConnIds
<1>5. LinkType'
  BY RpcAssumption DEF FreeRequest, LinkType, ConnIds
<1>6. ServerType'
  BY <1>2, <1>c DEF ServerType
<1>7. UnsentOK'
  BY RpcAssumption DEF FreeRequest, UnsentOK, Unsent
<1>8. RegisteredOK'
  BY RpcAssumption DEF FreeRequest, RegisteredOK, Registered, Rightful
<1>9. NumbersOK'
  BY RpcAssumption DEF FreeRequest, NumbersOK
<1>10. ConnsOK'
  BY RpcAssumption DEF FreeRequest, ConnsOK
<1>11. CrashOK'
  BY RpcAssumption DEF FreeRequest, CrashOK, SomeShutdown
<1>12. PendingOK'
  BY RpcAssumption DEF FreeRequest, PendingOK, Owner
<1>13. RequestsOK'
  BY RpcAssumption, TraceTypes DEF FreeRequest, freeRequest, RequestsOK, Underway, Owner, ServerType
<1>14. HandlersOK'
  BY RpcAssumption, TraceTypes DEF FreeRequest, freeRequest, HandlersOK, Underway, Owner, ServerType
<1>15. LoopsOK'
  BY RpcAssumption DEF FreeRequest, LoopsOK, Owner
<1>16. ResponsesOK'
  BY RpcAssumption DEF FreeRequest, ResponsesOK, Owner, Rightful
<1>17. ObjectsOK'
  <2>1. \A k, l \in DOMAIN freeReq : freeReq[k] = freeReq[l] => k = l
    BY DEF ObjectsOK
  <2>2. \A k, l \in DOMAIN freeReq' : freeReq'[k] = freeReq'[l] => k = l
    BY <1>1, <1>2, <2>1
  <2>3. \A k \in DOMAIN freeReq' : freeReq'[k] = g.req \/ \E l \in DOMAIN freeReq : freeReq'[k] = freeReq[l]
    BY <1>2
  <2>4. \A k \in DOMAIN freeReq' : freeReq'[k] \in DOMAIN reqs
    BY <1>1, <2>3 DEF ObjectsOK
  <2>5. \A j \in ConnIds : Holds(j)' =>
          /\ loopReq[j] \in DOMAIN reqs
          /\ \A k \in DOMAIN freeReq' : freeReq'[k] # loopReq[j]
          /\ \A l \in ConnIds : Holds(l)' /\ loopReq[l] = loopReq[j] => j = l
          /\ \A f \in handlers' : f.req # loopReq[j]
    BY <1>1, <1>c, <2>3 DEF ObjectsOK, Holds
  <2>6. \A f \in handlers' : /\ f.req \in DOMAIN reqs
                             /\ \A k \in DOMAIN freeReq' : freeReq'[k] # f.req
                             /\ \A e \in handlers' : f.req = e.req => f = e
    BY <1>1, <1>c, <2>3 DEF ObjectsOK
  <2> QED
    BY <1>c, <2>2, <2>4, <2>5, <2>6 DEF ObjectsOK
<1> QED
  BY <1>3, <1>4, <1>5, <1>6, <1>7, <1>8, <1>9, <1>10, <1>11, <1>12, <1>13, <1>14, <1>15, <1>16, <1>17

\* The answer to a request that names no method is about the call that it came from.
LEMMA AnswerInvalidPreserves ==
  ASSUME RpcInv, NEW i \in ConnIds, AnswerInvalid(i)
  PROVE  RpcInv'
<1> USE DEF RpcInv, RpcTypeOK, Errors, callVars, clientVars, linkVars, serverVars
<1> DEFINE n == loopReq[i]
           m == [seq |-> reqs[n], err |-> "server", reply |-> "none", whole |-> TRUE]
<1>1. /\ servePc[i] = "answer" /\ n \in DOMAIN reqs /\ n \in Nat /\ \A k \in DOMAIN freeReq : freeReq[k] # n
      /\ \A j \in ConnIds : Holds(j) /\ loopReq[j] = n => i = j
      /\ \A f \in handlers : f.req # n
  BY DEF AnswerInvalid, ObjectsOK, Holds, ServerType
<1>3. /\ m \in Responses /\ m.seq = reqs[n] /\ m.err = "server" /\ m.reply = "none"
  BY <1>1 DEF ServerType, Responses
<1>a. /\ toClient' = IF link[i] = "open" THEN [toClient EXCEPT ![i] = Append(toClient[i], m)] ELSE toClient
      /\ freeReq' = <<n>> \o freeReq
  BY DEF AnswerInvalid, sendResponse, freeRequest
<1>2. /\ freeReq' \in Seq(Nat)
      /\ \A k \in DOMAIN freeReq' : \/ k = 1 /\ freeReq'[k] = n
                                    \/ k \in Nat /\ k - 1 \in DOMAIN freeReq /\ freeReq'[k] = freeReq[k - 1]
  <2> HIDE DEF n
  <2> QED
    BY <1>1, <1>a DEF ServerType
<1>b. servePc'[i] = "get" /\ \A j \in ConnIds \ {i} : servePc'[j] = servePc[j]
  BY DEF AnswerInvalid, ServerType
<1>c. UNCHANGED <<callVars, clientVars, link, toServer, cuts, loopReq, reqs, handlers, executed>>
  BY DEF AnswerInvalid
<1>4. servePc' \in [ConnIds -> {"get", "read", "answer", "ended"}]
  BY DEF AnswerInvalid, ServerType
<1>5. link[i] = "open" => \E d \in Callers : m.seq # NoSeq /\ Owner(i, m.seq, d) /\ Rightful(d, m.err, m.reply)
  <2> SUFFICES ASSUME link[i] = "open"
               PROVE  \E d \in Callers : m.seq # NoSeq /\ Owner(i, m.seq, d) /\ Rightful(d, m.err, m.reply)
    OBVIOUS
  <2>1. PICK d \in Callers : reqs[n] # NoSeq /\ Owner(i, reqs[n], d) /\ method[d] = "unknown"
    BY <1>1 DEF LoopsOK
  <2>2. seqOf[d] # NoSeq
    BY <2>1 DEF Owner
  <2>3. executed[d] = 0
    BY <2>1, <2>2 DEF RegisteredOK, Registered
  <2> HIDE DEF m
  <2> QED
    BY <1>3, <2>1, <2>3 DEF Rightful
<1> HIDE DEF n, m
<1>6. CallType'
  BY RpcAssumption DEF AnswerInvalid, CallType, ConnIds
<1>7. ClientType'
  BY RpcAssumption DEF AnswerInvalid, ClientType, ConnIds
<1>8. LinkType'
  <2>1. Append(toClient[i], m) \in Seq(Responses)
    BY <1>3 DEF LinkType
  <2> QED
    BY <1>3, <1>a, <1>c, <2>1 DEF LinkType
<1>9. ServerType'
  BY <1>2, <1>4, <1>c DEF ServerType
<1>10. UnsentOK'
  BY RpcAssumption DEF AnswerInvalid, UnsentOK, Unsent
<1>11. RegisteredOK'
  BY RpcAssumption DEF AnswerInvalid, RegisteredOK, Registered, Rightful
<1>12. NumbersOK'
  BY RpcAssumption DEF AnswerInvalid, NumbersOK
<1>13. ConnsOK'
  <2>1. \A j \in ConnIds : servePc'[j] = "get" \/ servePc'[j] = servePc[j]
    BY <1>b
  <2> QED
    BY <1>c, <2>1 DEF ConnsOK
<1>14. CrashOK'
  BY RpcAssumption DEF AnswerInvalid, CrashOK, SomeShutdown
<1>15. PendingOK'
  BY RpcAssumption DEF AnswerInvalid, PendingOK, Owner
<1>16. RequestsOK'
  BY RpcAssumption DEF AnswerInvalid, RequestsOK, Underway, Owner
<1>17. HandlersOK'
  BY RpcAssumption DEF AnswerInvalid, HandlersOK, Underway, Owner
<1>18. LoopsOK'
  <2>1. \A j \in ConnIds : servePc'[j] = "answer" => servePc[j] = "answer"
    BY <1>b
  <2> QED
    BY <1>c, <2>1 DEF LoopsOK, Owner
<1>19. ResponsesOK'
  <2>1. \A j \in ConnIds : \A k \in DOMAIN toClient'[j] :
          \/ k \in DOMAIN toClient[j] /\ toClient'[j][k] = toClient[j][k]
          \/ j = i /\ link[i] = "open" /\ toClient'[j][k] = m
    <3>1. CASE link[i] = "open"
      <4>1. /\ toClient'[i] = Append(toClient[i], m) /\ toClient[i] \in Seq(Responses)
            /\ \A j \in ConnIds \ {i} : toClient'[j] = toClient[j]
        BY <1>3, <1>a, <3>1 DEF LinkType
      <4> QED
        BY <3>1, <4>1
    <3>2. CASE link[i] # "open"
      BY <1>a, <3>2
    <3> QED
      BY <3>1, <3>2
  <2> SUFFICES ASSUME NEW j \in ConnIds, NEW k \in DOMAIN toClient'[j]
               PROVE  \E d \in Callers : /\ toClient'[j][k].seq # NoSeq /\ Owner(j, toClient[j][k].seq, d)'
                                         /\ Rightful(d, toClient[j][k].err, toClient[j][k].reply)'
    BY DEF ResponsesOK
  <2>2. CASE k \in DOMAIN toClient[j] /\ toClient'[j][k] = toClient[j][k]
    BY <1>c, <2>2 DEF ResponsesOK, Owner, Rightful
  <2>3. CASE j = i /\ link[i] = "open" /\ toClient'[j][k] = m
    BY <1>5, <1>c, <2>3 DEF Owner, Rightful
  <2> QED
    BY <2>1, <2>2, <2>3
<1>20. ObjectsOK'
  <2>1. \A k, l \in DOMAIN freeReq : freeReq[k] = freeReq[l] => k = l
    BY DEF ObjectsOK
  <2>2. \A k, l \in DOMAIN freeReq' : freeReq'[k] = freeReq'[l] => k = l
    BY <1>1, <1>2, <2>1
  <2>3. \A k \in DOMAIN freeReq' : freeReq'[k] = n \/ \E l \in DOMAIN freeReq : freeReq'[k] = freeReq[l]
    BY <1>2
  <2>4. \A k \in DOMAIN freeReq' : freeReq'[k] \in DOMAIN reqs
    BY <1>1, <2>3 DEF ObjectsOK
  <2>5. \A j \in ConnIds : Holds(j)' =>
          /\ loopReq[j] \in DOMAIN reqs
          /\ \A k \in DOMAIN freeReq' : freeReq'[k] # loopReq[j]
          /\ \A l \in ConnIds : Holds(l)' /\ loopReq[l] = loopReq[j] => j = l
          /\ \A f \in handlers' : f.req # loopReq[j]
    <3>1. \A j \in ConnIds : Holds(j)' => Holds(j) /\ loopReq[j] # n
      BY <1>1, <1>b DEF Holds
    <3> QED
      BY <1>c, <2>3, <3>1 DEF ObjectsOK
  <2>6. \A f \in handlers' : /\ f.req \in DOMAIN reqs
                             /\ \A k \in DOMAIN freeReq' : freeReq'[k] # f.req
                             /\ \A e \in handlers' : f.req = e.req => f = e
    BY <1>1, <1>c, <2>3 DEF ObjectsOK
  <2> QED
    BY <1>c, <2>2, <2>4, <2>5, <2>6 DEF ObjectsOK
<1> QED
  BY <1>6, <1>7, <1>8, <1>9, <1>10, <1>11, <1>12, <1>13, <1>14, <1>15, <1>16, <1>17, <1>18, <1>19, <1>20

\* The end of the loop of ServeCodec preserves the invariant.
LEMMA ServeEndPreserves ==
  ASSUME RpcInv, NEW i \in ConnIds, ServeEnd(i)
  PROVE  RpcInv'
<1> USE DEF RpcInv, RpcTypeOK, Errors, callVars, clientVars, linkVars, serverVars
<1>1. CallType'
  BY RpcAssumption DEF ServeEnd, CallType, ConnIds
<1>2. ClientType'
  BY RpcAssumption DEF ServeEnd, ClientType, ConnIds
<1>3. LinkType'
  BY RpcAssumption DEF ServeEnd, LinkType, ConnIds
<1>4. ServerType'
  BY RpcAssumption DEF ServeEnd, ServerType, Handlers, LinkType, Requests, ObjectsOK, Holds
<1>5. UnsentOK'
  BY RpcAssumption DEF ServeEnd, UnsentOK, Unsent
<1>6. RegisteredOK'
  BY RpcAssumption DEF ServeEnd, RegisteredOK, Registered, Rightful
<1>7. NumbersOK'
  BY RpcAssumption DEF ServeEnd, NumbersOK
<1>8. ConnsOK'
  BY RpcAssumption DEF ServeEnd, ConnsOK, ServerType, ConnIds
<1>9. CrashOK'
  BY RpcAssumption DEF ServeEnd, CrashOK, SomeShutdown
<1>10. PendingOK'
  BY RpcAssumption DEF ServeEnd, PendingOK, Owner
<1>11. RequestsOK'
  BY RpcAssumption DEF ServeEnd, RequestsOK, Underway, Owner
<1>12. HandlersOK'
  BY RpcAssumption DEF ServeEnd, HandlersOK, Underway, Owner
<1>13. LoopsOK'
  BY RpcAssumption, ZenonT(40) DEF ServeEnd, LoopsOK, Owner, ServerType, NoSeq, ConnIds
<1>14. ResponsesOK'
  BY RpcAssumption DEF ServeEnd, ResponsesOK, Owner, Rightful
<1>15. ObjectsOK'
  BY RpcAssumption DEF ServeEnd, ObjectsOK, Holds, ServerType, ConnIds
<1> QED
  BY <1>1, <1>2, <1>3, <1>4, <1>5, <1>6, <1>7, <1>8, <1>9, <1>10, <1>11, <1>12, <1>13, <1>14, <1>15

\* What a broken connection still delivers was sent over it.
LEMMA CutPreserves ==
  ASSUME RpcInv, NEW i \in ConnIds, Cut(i)
  PROVE  RpcInv'
<1> USE DEF RpcInv, RpcTypeOK, Errors, callVars, clientVars, linkVars, serverVars
<1>1. \A x \in Requests : [x EXCEPT !.whole = FALSE] \in Requests
  BY DEF Requests
<1>2. \A x \in Responses : [x EXCEPT !.whole = FALSE] \in Responses
  BY DEF Responses
<1>3. PICK s \in Remains(toServer[i]) : toServer' = [toServer EXCEPT ![i] = s]
  BY DEF Cut
<1>4. PICK t \in Remains(toClient[i]) : toClient' = [toClient EXCEPT ![i] = t]
  BY DEF Cut
<1>5. /\ s \in Seq(Requests)
      /\ \A k \in DOMAIN s : /\ k \in DOMAIN toServer[i]
                             /\ s[k] = toServer[i][k] \/ s[k] = [toServer[i][k] EXCEPT !.whole = FALSE]
  <2>1. toServer[i] \in Seq(Requests)
    BY DEF LinkType
  <2> QED
    BY ONLY <1>1, <1>3, <2>1, RemainsFacts, Zenon
<1>6. /\ t \in Seq(Responses)
      /\ \A k \in DOMAIN t : /\ k \in DOMAIN toClient[i]
                             /\ t[k] = toClient[i][k] \/ t[k] = [toClient[i][k] EXCEPT !.whole = FALSE]
  <2>1. toClient[i] \in Seq(Responses)
    BY DEF LinkType
  <2> QED
    BY ONLY <1>2, <1>4, <2>1, RemainsFacts, Zenon
<1>a. /\ toServer'[i] = s /\ toClient'[i] = t /\ link[i] = "open" /\ link'[i] = "cut"
      /\ \A j \in ConnIds \ {i} : toServer'[j] = toServer[j] /\ toClient'[j] = toClient[j] /\ link'[j] = link[j]
  BY <1>3, <1>4 DEF Cut, LinkType
<1>c. UNCHANGED <<callVars, clientVars, serverVars>>
  BY DEF Cut
<1>7. \A k \in DOMAIN s : /\ s[k].seq = toServer[i][k].seq /\ s[k].args = toServer[i][k].args
                          /\ s[k].method = toServer[i][k].method
  <2>1. \A x \in Requests : LET y == [x EXCEPT !.whole = FALSE]
                            IN  y.seq = x.seq /\ y.args = x.args /\ y.method = x.method
    BY DEF Requests
  <2>2. \A k \in DOMAIN toServer[i] : toServer[i][k] \in Requests
    BY DEF LinkType
  <2> QED
    BY <1>5, <2>1, <2>2
<1>8. \A k \in DOMAIN t : /\ t[k].seq = toClient[i][k].seq /\ t[k].err = toClient[i][k].err
                          /\ t[k].reply = toClient[i][k].reply
  <2>1. \A x \in Responses : LET y == [x EXCEPT !.whole = FALSE]
                             IN  y.seq = x.seq /\ y.err = x.err /\ y.reply = x.reply
    BY DEF Responses
  <2>2. \A k \in DOMAIN toClient[i] : toClient[i][k] \in Responses
    BY DEF LinkType
  <2> QED
    BY <1>6, <2>1, <2>2
<1>9. CallType'
  BY RpcAssumption DEF Cut, CallType, ConnIds
<1>10. ClientType'
  BY RpcAssumption DEF Cut, ClientType, ConnIds
<1>11. LinkType'
  BY <1>3, <1>4, <1>5, <1>6 DEF Cut, LinkType
<1>12. ServerType'
  BY RpcAssumption DEF Cut, ServerType
<1>13. UnsentOK'
  BY RpcAssumption DEF Cut, UnsentOK, Unsent
<1>14. RegisteredOK'
  BY RpcAssumption DEF Cut, RegisteredOK, Registered, Rightful
<1>15. NumbersOK'
  BY RpcAssumption DEF Cut, NumbersOK, LinkType, NoSeq, ConnIds
<1>16. ConnsOK'
  BY RpcAssumption DEF Cut, ConnsOK, LinkType, ConnIds
<1>17. CrashOK'
  BY RpcAssumption DEF Cut, CrashOK, SomeShutdown
<1>18. PendingOK'
  BY RpcAssumption DEF Cut, PendingOK, Owner
<1>19. RequestsOK'
  <2> SUFFICES ASSUME NEW j \in ConnIds, NEW k \in DOMAIN toServer'[j]
               PROVE  /\ Underway(j, toServer[j][k].seq, toServer[j][k].args)' /\ executed'[toServer'[j][k].args] = 0
                      /\ toServer'[j][k].method = method'[toServer'[j][k].args]
                      /\ toServer'[j][k].whole \/ link'[j] = "cut"
                      /\ \A l \in DOMAIN toServer'[j] : toServer'[j][l].args = toServer'[j][k].args => k = l
                      /\ \A g \in handlers' : g.args # toServer'[j][k].args
    BY DEF RequestsOK
  <2>1. CASE j = i
    <3> HIDE DEF RpcInv
    <3>1. toServer'[j] = s /\ link'[j] = "cut" /\ k \in DOMAIN s /\ \A l \in DOMAIN s : l \in DOMAIN toServer[i]
      BY <1>5, <1>a, <2>1
    <3>2. /\ Underway(i, toServer[i][k].seq, toServer[i][k].args) /\ executed[toServer[i][k].args] = 0
          /\ toServer[i][k].method = method[toServer[i][k].args]
          /\ \A l \in DOMAIN toServer[i] : toServer[i][l].args = toServer[i][k].args => k = l
          /\ \A g \in handlers : g.args # toServer[i][k].args
      BY <3>1 DEF RpcInv, RequestsOK
    <3> QED
      BY <1>7, <1>c, <2>1, <3>1, <3>2 DEF Underway, Owner
  <2>2. CASE j # i
    BY <1>a, <1>c, <2>2 DEF RequestsOK, Underway, Owner
  <2> QED
    BY <2>1, <2>2
<1>20. HandlersOK'
  BY RpcAssumption DEF Cut, HandlersOK, Underway, Owner
<1>21. LoopsOK'
  BY RpcAssumption DEF Cut, LoopsOK, Owner, LinkType, NoSeq, ConnIds
<1>22. ResponsesOK'
  <2> SUFFICES ASSUME NEW j \in ConnIds, NEW k \in DOMAIN toClient'[j]
               PROVE  \E d \in Callers : /\ toClient'[j][k].seq # NoSeq /\ Owner(j, toClient[j][k].seq, d)'
                                         /\ Rightful(d, toClient[j][k].err, toClient[j][k].reply)'
    BY DEF ResponsesOK
  <2>1. /\ k \in DOMAIN toClient[j] /\ toClient'[j][k].seq = toClient[j][k].seq
        /\ toClient'[j][k].err = toClient[j][k].err /\ toClient'[j][k].reply = toClient[j][k].reply
    BY <1>6, <1>8, <1>a
  <2> QED
    BY <1>c, <2>1 DEF ResponsesOK, Owner, Rightful
<1>23. ObjectsOK'
  BY RpcAssumption DEF Cut, ObjectsOK, Holds
<1> QED
  BY <1>9, <1>10, <1>11, <1>12, <1>13, <1>14, <1>15, <1>16, <1>17, <1>18, <1>19, <1>20, <1>21, <1>22,
     <1>23

-----------------------------------------------------------------------------
(* The theorems.                                                           *)

\* Before the first call there is no connection, no trace of a call and no Request object.
LEMMA RpcInitInv == RpcInit => RpcInv
<1> SUFFICES ASSUME RpcInit
             PROVE  RpcInv
  OBVIOUS
<1> USE RpcAssumption DEF RpcInit
<1>1. CallType
  BY DEF CallType, NoSeq, Errors
<1>2. ClientType
  BY DEF ClientType
<1>3. LinkType
  BY DEF LinkType
<1>4. ServerType
  BY DEF ServerType
<1>5. UnsentOK /\ RegisteredOK /\ NumbersOK
  BY DEF UnsentOK, Unsent, RegisteredOK, NumbersOK
<1>6. ConnsOK /\ CrashOK
  BY DEF ConnsOK, CrashOK
<1>7. PendingOK /\ RequestsOK /\ HandlersOK /\ LoopsOK /\ ResponsesOK
  BY DEF PendingOK, RequestsOK, HandlersOK, LoopsOK, ResponsesOK
<1>8. ObjectsOK
  BY DEF ObjectsOK, Holds
<1> QED
  BY <1>1, <1>2, <1>3, <1>4, <1>5, <1>6, <1>7, <1>8 DEF RpcInv, RpcTypeOK

\* Nothing changes the invariant but the variables it speaks of.
LEMMA RpcStutter == RpcInv /\ UNCHANGED rpcVars => RpcInv'
<1> SUFFICES ASSUME RpcInv, UNCHANGED rpcVars
             PROVE  RpcInv'
  OBVIOUS
<1> USE DEF RpcInv, RpcTypeOK, rpcVars, callVars, clientVars, linkVars, serverVars
<1>1. RpcTypeOK'
  BY DEF CallType, ClientType, LinkType, ServerType
<1>2. UnsentOK' /\ RegisteredOK' /\ NumbersOK'
  BY DEF UnsentOK, Unsent, RegisteredOK, Registered, Rightful, NumbersOK
<1>3. ConnsOK' /\ CrashOK'
  BY DEF ConnsOK, CrashOK, SomeShutdown
<1>4. PendingOK' /\ LoopsOK' /\ ResponsesOK'
  BY DEF PendingOK, LoopsOK, ResponsesOK, Owner, Rightful
<1>5. RequestsOK' /\ HandlersOK'
  BY DEF RequestsOK, HandlersOK, Underway, Owner
<1>6. ObjectsOK'
  BY DEF ObjectsOK, Holds
<1> QED
  BY <1>1, <1>2, <1>3, <1>4, <1>5, <1>6

\* The invariant is inductive.
LEMMA RpcInductive == RpcInv /\ [RpcNext]_rpcVars => RpcInv'
<1> SUFFICES ASSUME RpcInv, [RpcNext]_rpcVars
             PROVE  RpcInv'
  OBVIOUS
<1>1. ASSUME NEW c \in Callers, CallerStep(c)
      PROVE  RpcInv'
  BY <1>1, CallLoopPreserves, DialPreserves, CallPreserves, AfterCallPreserves, SendRefusedPreserves,
     SendPreserves, WritePreserves, WriteFailsPreserves DEF CallerStep
<1>2. ASSUME NEW i \in ConnIds, InputStep(i) \/ LoopStep(i) \/ Cut(i)
      PROVE  RpcInv'
  BY <1>2, InputReadPreserves, InputBodyLostPreserves, InputEndPreserves, getRequestPreserves,
     ReadRequestPreserves, AnswerInvalidPreserves, ServeEndPreserves, CutPreserves DEF InputStep, LoopStep
<1>3. ASSUME NEW g \in handlers, HandlerStep(g)
      PROVE  RpcInv'
  BY <1>3, ExecutePreserves, SendResponsePreserves, FreeRequestPreserves DEF HandlerStep
<1>4. CASE Close
  BY <1>4, ClosePreserves
<1>5. CASE UNCHANGED rpcVars
  BY <1>5, RpcStutter
<1> QED
  BY <1>1, <1>2, <1>3, <1>4, <1>5 DEF RpcNext

\* What the invariant says of finished calls: it gives each of them its own answer.
LEMMA RpcInvExact == RpcInv => CallsAreExact
<1> SUFFICES ASSUME RpcInv
             PROVE  CallsAreExact
  OBVIOUS
<1> USE DEF RpcInv, RpcTypeOK
<1>1. RepliesMatch
  <2> SUFFICES ASSUME NEW c \in Callers
               PROVE  /\ completed[c] <= 1
                      /\ callPc[c] = "returned" /\ err[c] = "none" => reply[c] = c /\ executed[c] = 1
                      /\ err[c] = "server" => \/ method[c] = "unknown" /\ executed[c] = 0
                                              \/ method[c] = "fails" /\ executed[c] = 1
    BY DEF RepliesMatch
  <2>1. CASE seqOf[c] = NoSeq
    BY <2>1 DEF UnsentOK, Unsent
  <2>2. CASE seqOf[c] # NoSeq
    <3>1. Registered(c) /\ completed[c] \in Nat
      BY <2>2 DEF RegisteredOK, CallType
    <3> QED
      BY <3>1 DEF Registered, Rightful
  <2> QED
    BY <2>1, <2>2
<1>2. RequestsUnshared
  BY DEF RequestsUnshared, ObjectsOK
<1>3. ExecutedAtMostOnce
  <2>1. ASSUME NEW c \in Callers
        PROVE  executed[c] <= 1
    <3>1. CASE seqOf[c] = NoSeq
      BY <3>1 DEF UnsentOK, Unsent
    <3>2. CASE seqOf[c] # NoSeq
      BY <3>2 DEF RegisteredOK, Registered
    <3> QED
      BY <3>1, <3>2
  <2>2. (\E c \in Callers : callPc[c] = "crashed") => \E i \in ConnIds : shutdown[i]
    BY DEF CrashOK, SomeShutdown
  <2> QED
    BY <2>1, <2>2 DEF ExecutedAtMostOnce
<1> QED
  BY <1>1, <1>2, <1>3 DEF CallsAreExact

\* Every state of the daemon client, the connections and the server has the type it
\* declares: in particular a response always bears a number and a result, and a
\* goroutine of ServeCodec always a Request object.
THEOREM RpcTypeCorrect == RpcSpec => []RpcTypeOK
<1>1. RpcInv => RpcTypeOK
  BY DEF RpcInv
<1> QED
  BY <1>1, RpcInitInv, RpcInductive, PTL DEF RpcSpec

\* Each call is carried out and answered as if it were the only one, for any number of
\* concurrent callers, reconnections and connections that break: a call that succeeds
\* has the reply to its own request, no call is completed twice, no two goroutines of
\* the server have one Request object, no request is executed twice by client.call's
\* retries, and a caller meets a nil rpcClient only if a connection was shut down.
THEOREM RpcCallsAreExact == RpcSpec => []CallsAreExact
  BY RpcInitInv, RpcInductive, RpcInvExact, PTL DEF RpcSpec
=============================================================================
