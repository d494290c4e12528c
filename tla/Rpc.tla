-------------------------------- MODULE Rpc --------------------------------
(***************************************************************************)
(* Remote calls: daemon.client.call (pkg/daemon/client.go) on top of the   *)
(* client and the server of pkg/rpc.                                       *)
(*                                                                         *)
(* Callers are goroutines of a shell that share one daemon client and so   *)
(* its variable rpcClient, which no lock protects.  A connection is served *)
(* by callers that write requests (one at a time, by reqMutex), by the     *)
(* client's input goroutine, and on the other side by the loop of          *)
(* ServeCodec with one goroutine per request.  The loop takes a Request    *)
(* object from a list of free ones before it waits for a header.           *)
(*                                                                         *)
(* A message is a header and a body; a connection that breaks may leave    *)
(* the header of the last message without its body.                        *)
(***************************************************************************)
EXTENDS Integers, Sequences

CONSTANTS
  Callers,      \* goroutines that make one call each
  Calls,        \* the methods they may call: functions from Callers to Methods
  retriesOnShutdown,
  MaxConns,     \* bound on connections
  MaxCuts       \* bound on connections that break

\* A method that exists and returns no error, one that does, and one that does not exist.
Methods == {"returns", "fails", "unknown"}

ASSUME RpcAssumption ==
  /\ Calls \subseteq [Callers -> Methods] /\ "nobody" \notin Callers
  /\ retriesOnShutdown \in Nat /\ MaxConns \in Nat /\ MaxCuts \in Nat

VARIABLES
  \* Callers: where each is in client.call and send, and its Call.
  callPc, attempt, onConn, seqOf, err, reply, method,
  completed,    \* how often the current call of each was completed
  \* The shell: its rpc.Client, a connection or 0 for nil, and the state of each one.
  rpcClient, nextSeq, pending, closing, shutdown, reqMutex,
  inputPc,      \* where the input goroutine of each is
  \* Connections: whether each is open, and what is under way on it.
  link, toServer, toClient,
  cuts,         \* number of connections broken so far
  \* The server: the loop of ServeCodec per connection, and the Request object it has.
  servePc, loopReq,
  reqs,         \* Request objects, each as the number in it
  freeReq,      \* the list of free ones
  handlers,     \* goroutines that run service.call
  executed      \* per caller: how often its request was executed

callVars == <<callPc, attempt, onConn, seqOf, err, reply, method, completed>>
clientVars == <<rpcClient, nextSeq, pending, closing, shutdown, reqMutex, inputPc>>
linkVars == <<link, toServer, toClient, cuts>>
serverVars == <<servePc, loopReq, reqs, freeReq, handlers, executed>>
rpcVars == <<callVars, clientVars, linkVars, serverVars>>

ConnIds == 1 .. MaxConns
NoSeq == -1

\* A request or a response on its way; whole unless the connection broke inside of it.
Requests == [seq : Int, args : Callers, method : Methods, whole : BOOLEAN]
Responses == [seq : Int, err : {"none", "server"}, reply : Callers \cup {"none"}, whole : BOOLEAN]
Handlers ==
  [conn : ConnIds, req : Nat, args : Callers, err : {"none", "server"}, pc : {"execute", "answer", "free"}]

\* What a call may end with; "none" also stands for a call that has not ended.
Errors == {"none", "unreachable", "dial", "shutdown", "closed", "eof", "body", "write", "server"}

CallType ==
  /\ callPc \in [Callers -> {"loop", "dial", "call", "send", "write", "wait", "returned", "crashed"}]
  /\ attempt \in [Callers -> Nat] /\ onConn \in [Callers -> 0 .. MaxConns] /\ seqOf \in [Callers -> Int]
  /\ err \in [Callers -> Errors]
  /\ reply \in [Callers -> Callers \cup {"none"}] /\ method \in [Callers -> Methods]
  /\ completed \in [Callers -> Nat]

ClientType ==
  /\ rpcClient \in 0 .. MaxConns /\ nextSeq \in [ConnIds -> Nat]
  /\ pending \in [ConnIds -> SUBSET [seq : Int, caller : Callers]]
  /\ closing \in [ConnIds -> BOOLEAN] /\ shutdown \in [ConnIds -> BOOLEAN]
  /\ reqMutex \in [ConnIds -> Callers \cup {"nobody"}]
  /\ inputPc \in [ConnIds -> {"read", "failed", "ended"}]

LinkType ==
  /\ link \in [ConnIds -> {"none", "open", "cut"}] /\ cuts \in Nat
  /\ toServer \in [ConnIds -> Seq(Requests)] /\ toClient \in [ConnIds -> Seq(Responses)]

ServerType ==
  /\ servePc \in [ConnIds -> {"get", "read", "answer", "ended"}] /\ loopReq \in [ConnIds -> Nat]
  /\ reqs \in Seq(Int) /\ freeReq \in Seq(Nat) /\ handlers \subseteq Handlers
  /\ executed \in [Callers -> Nat]

RpcTypeOK == CallType /\ ClientType /\ LinkType /\ ServerType

\* No connection has been made.  Each will begin as it stands here: NewClient starts the
\* input goroutine, and on the other side ServeConn starts.
RpcInit ==
  /\ callPc = [c \in Callers |-> "loop"] /\ attempt = [c \in Callers |-> 0]
  /\ onConn = [c \in Callers |-> 0] /\ seqOf = [c \in Callers |-> NoSeq]
  /\ err = [c \in Callers |-> "none"] /\ reply = [c \in Callers |-> "none"]
  /\ method \in Calls
  /\ completed = [c \in Callers |-> 0]
  /\ rpcClient = 0
  /\ nextSeq = [i \in ConnIds |-> 0] /\ pending = [i \in ConnIds |-> {}]
  /\ closing = [i \in ConnIds |-> FALSE] /\ shutdown = [i \in ConnIds |-> FALSE]
  /\ reqMutex = [i \in ConnIds |-> "nobody"] /\ inputPc = [i \in ConnIds |-> "read"]
  /\ link = [i \in ConnIds |-> "none"] /\ cuts = 0
  /\ toServer = [i \in ConnIds |-> <<>>] /\ toClient = [i \in ConnIds |-> <<>>]
  /\ servePc = [i \in ConnIds |-> "get"] /\ loopReq = [i \in ConnIds |-> 0]
  /\ reqs = <<>> /\ freeReq = <<>> /\ handlers = {}
  /\ executed = [c \in Callers |-> 0]

(***************************************************************************)
(* client.call of the daemon client.                                       *)
(***************************************************************************)
\* Where the caller c goes.
Goto(c, l) == callPc' = [callPc EXCEPT ![c] = l]

\* The condition of the loop, and the look at rpcClient.
CallLoop(c) ==
  /\ callPc[c] = "loop"
  /\ \/ attempt[c] = retriesOnShutdown /\ Goto(c, "returned") /\ err' = [err EXCEPT ![c] = "unreachable"]
     \/ attempt[c] < retriesOnShutdown /\ Goto(c, IF rpcClient = 0 THEN "dial" ELSE "call") /\ UNCHANGED err
  /\ UNCHANGED <<attempt, onConn, seqOf, reply, method, completed, clientVars, linkVars, serverVars>>

\* net.Dial and NewClient, and the assignment to rpcClient, whatever others have
\* assigned meanwhile.
Dial(c) ==
  /\ callPc[c] = "dial"
  /\ \/ \E i \in ConnIds :
          /\ link[i] = "none" /\ \A j \in ConnIds : j < i => link[j] # "none"
          /\ link' = [link EXCEPT ![i] = "open"]
          /\ rpcClient' = i
          /\ Goto(c, "call") /\ UNCHANGED err
     \/ Goto(c, "returned") /\ err' = [err EXCEPT ![c] = "dial"] /\ UNCHANGED <<link, rpcClient>>
  /\ UNCHANGED <<attempt, onConn, seqOf, reply, method, completed,
                 nextSeq, pending, closing, shutdown, reqMutex, inputPc,
                 toServer, toClient, cuts, serverVars>>

\* The variable is read again; another caller may have cleared it.
Call(c) ==
  /\ callPc[c] = "call"
  /\ Goto(c, IF rpcClient = 0 THEN "crashed" ELSE "send")
  /\ onConn' = [onConn EXCEPT ![c] = rpcClient]
  /\ completed' = [completed EXCEPT ![c] = 0]
  /\ UNCHANGED <<attempt, seqOf, err, reply, method, clientVars, linkVars, serverVars>>

\* Call returns: a connection that is shut down is forgotten and the call is
\* tried again, every other result is returned.
AfterCall(c) ==
  /\ callPc[c] = "wait" /\ completed[c] > 0
  /\ \/ /\ err[c] = "shutdown"
        /\ rpcClient' = 0
        /\ Goto(c, "loop") /\ attempt' = [attempt EXCEPT ![c] = @ + 1] /\ err' = [err EXCEPT ![c] = "none"]
     \/ err[c] # "shutdown" /\ Goto(c, "returned") /\ UNCHANGED <<rpcClient, attempt, err>>
  /\ UNCHANGED <<onConn, seqOf, reply, method, completed,
                 nextSeq, pending, closing, shutdown, reqMutex, inputPc, linkVars, serverVars>>

(***************************************************************************)
(* The rpc client.                                                         *)
(***************************************************************************)
\* The pending calls with the number s.
Pending(i, s) == {p \in pending[i] : p.seq = s}
CallersOf(calls) == {p.caller : p \in calls}

\* Completes the calls of a set of callers.  Done has room for one completion.
Complete(cs, e, r) ==
  /\ completed' = [c \in Callers |-> IF c \in cs THEN completed[c] + 1 ELSE completed[c]]
  /\ err' = [c \in Callers |-> IF c \in cs THEN e ELSE err[c]]
  /\ reply' = [c \in Callers |-> IF c \in cs THEN r ELSE reply[c]]

\* send on a client that is shut down.
SendRefused(c) ==
  /\ callPc[c] = "send"
  /\ reqMutex[onConn[c]] = "nobody" /\ (shutdown[onConn[c]] \/ closing[onConn[c]])
  /\ completed' = [completed EXCEPT ![c] = @ + 1] /\ err' = [err EXCEPT ![c] = "shutdown"]
  /\ Goto(c, "wait")
  /\ UNCHANGED <<attempt, onConn, seqOf, reply, method, clientVars, linkVars, serverVars>>

\* send, up to the registration of the call.
Send(c) ==
  LET i == onConn[c]
  IN  /\ callPc[c] = "send"
      /\ reqMutex[i] = "nobody" /\ ~shutdown[i] /\ ~closing[i]
      /\ reqMutex' = [reqMutex EXCEPT ![i] = c]
      /\ nextSeq' = [nextSeq EXCEPT ![i] = @ + 1]
      /\ pending' = [pending EXCEPT ![i] = @ \cup {[seq |-> nextSeq[i], caller |-> c]}]
      /\ seqOf' = [seqOf EXCEPT ![c] = nextSeq[i]]
      /\ Goto(c, "write")
      /\ UNCHANGED <<attempt, onConn, err, reply, method, completed,
                     rpcClient, closing, shutdown, inputPc, linkVars, serverVars>>

\* WriteRequest succeeds.
Write(c) ==
  LET i == onConn[c]
  IN  /\ callPc[c] = "write" /\ link[i] = "open"
      /\ toServer' = [toServer EXCEPT ![i] =
           Append(@, [seq |-> seqOf[c], args |-> c, method |-> method[c], whole |-> TRUE])]
      /\ reqMutex' = [reqMutex EXCEPT ![i] = "nobody"]
      /\ Goto(c, "wait")
      /\ UNCHANGED <<attempt, onConn, seqOf, err, reply, method, completed,
                     rpcClient, nextSeq, pending, closing, shutdown, inputPc,
                     link, toClient, cuts, serverVars>>

\* WriteRequest fails on a broken connection: then the call is completed unless it is no
\* longer pending.
WriteFails(c) ==
  LET i    == onConn[c]
      mine == Pending(i, seqOf[c])
  IN  /\ callPc[c] = "write" /\ link[i] = "cut"
      /\ pending' = [pending EXCEPT ![i] = @ \ mine]
      /\ Complete(CallersOf(mine), "write", "none")
      /\ reqMutex' = [reqMutex EXCEPT ![i] = "nobody"]
      /\ Goto(c, "wait")
      /\ UNCHANGED <<attempt, onConn, seqOf, method,
                     rpcClient, nextSeq, closing, shutdown, inputPc, linkVars, serverVars>>

InputRead_keepPending(i) ==
  LET r == toClient[i][1]
  IN  /\ inputPc[i] = "read" /\ toClient[i] # <<>> /\ r.whole
      /\ toClient' = [toClient EXCEPT ![i] = Tail(@)]
      /\ Complete(CallersOf(Pending(i, r.seq)), r.err, r.reply)
      /\ UNCHANGED <<callPc, attempt, onConn, seqOf, method, clientVars, link, toServer, cuts, serverVars>>

\* input reads a response, header and body, and completes the call.
InputRead(i) ==
  LET r     == toClient[i][1]
      calls == Pending(i, r.seq)
  IN  /\ inputPc[i] = "read" /\ toClient[i] # <<>> /\ r.whole
      /\ toClient' = [toClient EXCEPT ![i] = Tail(@)]
      /\ pending' = [pending EXCEPT ![i] = @ \ calls]
      /\ Complete(CallersOf(calls), r.err, r.reply)
      /\ UNCHANGED <<callPc, attempt, onConn, seqOf, method,
                     rpcClient, nextSeq, closing, shutdown, reqMutex, inputPc,
                     link, toServer, cuts, serverVars>>

\* The header is read but not the body: input goes on to its end.
InputBodyLost(i) ==
  LET r     == toClient[i][1]
      calls == Pending(i, r.seq)
  IN  /\ inputPc[i] = "read" /\ toClient[i] # <<>> /\ ~r.whole
      /\ toClient' = [toClient EXCEPT ![i] = Tail(@)]
      /\ pending' = [pending EXCEPT ![i] = @ \ calls]
      /\ inputPc' = [inputPc EXCEPT ![i] = "failed"]
      /\ Complete(CallersOf(calls), IF r.err = "none" THEN "body" ELSE r.err, "none")
      /\ UNCHANGED <<callPc, attempt, onConn, seqOf, method,
                     rpcClient, nextSeq, closing, shutdown, reqMutex,
                     link, toServer, cuts, serverVars>>

\* Whether the loop of input has ended: at the end of the stream, or after an error.
InputOver(i) ==
  \/ inputPc[i] = "failed"
  \/ inputPc[i] = "read" /\ toClient[i] = <<>> /\ link[i] = "cut"

InputEnd_alwaysShutdown(i) ==
  /\ InputOver(i) /\ reqMutex[i] = "nobody"
  /\ shutdown' = [shutdown EXCEPT ![i] = TRUE] /\ inputPc' = [inputPc EXCEPT ![i] = "ended"]
  /\ Complete(CallersOf(pending[i]), "shutdown", "none")
  /\ UNCHANGED <<callPc, attempt, onConn, seqOf, method,
                 rpcClient, nextSeq, pending, closing, reqMutex, linkVars, serverVars>>

InputEnd_forgetCalls(i) ==
  /\ InputOver(i) /\ reqMutex[i] = "nobody"
  /\ shutdown' = [shutdown EXCEPT ![i] = TRUE] /\ inputPc' = [inputPc EXCEPT ![i] = "ended"]
  /\ UNCHANGED <<callVars, rpcClient, nextSeq, pending, closing, reqMutex, linkVars, serverVars>>

\* With both locks input marks the client as shut down and completes every
\* pending call.  Only at the end of the stream of a client that the user has
\* closed is the error ErrShutdown; reading from what this side has closed is
\* an error of its own.
InputEnd(i) ==
  /\ InputOver(i) /\ reqMutex[i] = "nobody"
  /\ shutdown' = [shutdown EXCEPT ![i] = TRUE] /\ inputPc' = [inputPc EXCEPT ![i] = "ended"]
  /\ \E e \in IF inputPc[i] = "failed" THEN {"body"}
              ELSE IF closing[i] THEN {"shutdown", "closed"} ELSE {"eof"} :
       Complete(CallersOf(pending[i]), e, "none")
  /\ UNCHANGED <<callPc, attempt, onConn, seqOf, method,
                 rpcClient, nextSeq, pending, closing, reqMutex, linkVars, serverVars>>

\* Client.Close of the rpc client, which also closes the connection.
CloseClient(i) == closing' = [closing EXCEPT ![i] = TRUE] /\ link' = [link EXCEPT ![i] = "cut"]

\* The daemon client's Close waits for all calls, then resets the connection.
Close ==
  /\ \A c \in Callers : callPc[c] \in {"returned", "crashed"}
  /\ rpcClient # 0
  /\ rpcClient' = 0
  /\ CloseClient(rpcClient)
  /\ UNCHANGED <<callVars, nextSeq, pending, shutdown, reqMutex, inputPc,
                 toServer, toClient, cuts, serverVars>>

(***************************************************************************)
(* The server.                                                             *)
(***************************************************************************)
\* The loop of ServeCodec begins readRequest: a Request object from the list
\* of free ones, or a new one.
getRequest(i) ==
  /\ link[i] # "none" /\ servePc[i] = "get"
  /\ servePc' = [servePc EXCEPT ![i] = "read"]
  /\ \/ /\ freeReq = <<>>
        /\ reqs' = Append(reqs, NoSeq) /\ loopReq' = [loopReq EXCEPT ![i] = Len(reqs) + 1]
        /\ UNCHANGED freeReq
     \/ /\ freeReq # <<>>
        /\ reqs' = [reqs EXCEPT ![freeReq[1]] = NoSeq] /\ loopReq' = [loopReq EXCEPT ![i] = freeReq[1]]
        /\ freeReq' = Tail(freeReq)
  /\ UNCHANGED <<callVars, clientVars, linkVars, handlers, executed>>

\* The header is read into it.  If it names no method, or the body cannot be
\* read, the loop answers itself; otherwise it starts a goroutine.
ReadRequest(i) ==
  LET r  == toServer[i][1]
      ok == r.whole /\ r.method # "unknown"
  IN  /\ servePc[i] = "read" /\ toServer[i] # <<>>
      /\ toServer' = [toServer EXCEPT ![i] = Tail(@)]
      /\ reqs' = [reqs EXCEPT ![loopReq[i]] = r.seq]
      /\ servePc' = [servePc EXCEPT ![i] = IF ok THEN "get" ELSE "answer"]
      /\ handlers' = IF ok
                     THEN handlers \cup {[conn |-> i, req |-> loopReq[i], args |-> r.args,
                                          err |-> IF r.method = "fails" THEN "server" ELSE "none",
                                          pc |-> "execute"]}
                     ELSE handlers
      /\ UNCHANGED <<callVars, clientVars, link, toClient, cuts, loopReq, freeReq, executed>>

\* service.call: the method runs; its reply depends on its arguments.
Execute(g) ==
  /\ g.pc = "execute"
  /\ executed' = [executed EXCEPT ![g.args] = @ + 1]
  /\ handlers' = (handlers \ {g}) \cup {[g EXCEPT !.pc = "answer"]}
  /\ UNCHANGED <<callVars, clientVars, linkVars, servePc, loopReq, reqs, freeReq>>

\* sendResponse: the number of the response is that of the Request object.
\* An error takes the place of the reply.  A broken connection takes nothing.
\* The Response object is out of the pool only inside of sendResponse.
sendResponse(i, req, e, r) ==
  toClient' =
    IF link[i] = "open"
    THEN [toClient EXCEPT ![i] =
            Append(@, [seq |-> reqs[req], err |-> e, reply |-> IF e = "none" THEN r ELSE "none", whole |-> TRUE])]
    ELSE toClient

SendResponse(g) ==
  /\ g.pc = "answer"
  /\ sendResponse(g.conn, g.req, g.err, g.args)
  /\ handlers' = (handlers \ {g}) \cup {[g EXCEPT !.pc = "free"]}
  /\ UNCHANGED <<callVars, clientVars, link, toServer, cuts, servePc, loopReq, reqs, freeReq, executed>>

freeRequest(req) == freeReq' = <<req>> \o freeReq

FreeRequest(g) ==
  /\ g.pc = "free"
  /\ freeRequest(g.req)
  /\ handlers' = handlers \ {g}
  /\ UNCHANGED <<callVars, clientVars, linkVars, servePc, loopReq, reqs, executed>>

\* The loop answers a request that it could not read, and frees its object.
AnswerInvalid(i) ==
  /\ servePc[i] = "answer"
  /\ sendResponse(i, loopReq[i], "server", "none")
  /\ freeRequest(loopReq[i])
  /\ servePc' = [servePc EXCEPT ![i] = "get"]
  /\ UNCHANGED <<callVars, clientVars, link, toServer, cuts, loopReq, reqs, handlers, executed>>

\* The loop reads the end of the stream, waits for the goroutines of the
\* connection and closes it; the Request object it had taken is lost.
ServeEnd(i) ==
  /\ servePc[i] = "read" /\ toServer[i] = <<>> /\ link[i] = "cut"
  /\ \A g \in handlers : g.conn # i
  /\ servePc' = [servePc EXCEPT ![i] = "ended"]
  /\ UNCHANGED <<callVars, clientVars, linkVars, loopReq, reqs, freeReq, handlers, executed>>

\* What may arrive of the messages s on a connection that breaks: some of the
\* first, of which the last may lack its body.
Remains(s) ==
  {SubSeq(s, 1, m) : m \in 0 .. Len(s)}
    \cup {[SubSeq(s, 1, m) EXCEPT ![m].whole = FALSE] : m \in 1 .. Len(s)}

\* A connection breaks.
Cut(i) ==
  /\ cuts < MaxCuts
  /\ link[i] = "open"
  /\ cuts' = cuts + 1
  /\ link' = [link EXCEPT ![i] = "cut"]
  /\ \E m \in Remains(toServer[i]) : toServer' = [toServer EXCEPT ![i] = m]
  /\ \E m \in Remains(toClient[i]) : toClient' = [toClient EXCEPT ![i] = m]
  /\ UNCHANGED <<callVars, clientVars, serverVars>>

CallerStep(c) ==
  CallLoop(c) \/ Dial(c) \/ Call(c) \/ SendRefused(c) \/ Send(c) \/ Write(c) \/ WriteFails(c) \/ AfterCall(c)
InputStep(i) == InputRead(i) \/ InputBodyLost(i) \/ InputEnd(i)
HandlerStep(g) == Execute(g) \/ SendResponse(g) \/ FreeRequest(g)
LoopStep(i) ==
  getRequest(i) \/ ReadRequest(i) \/ AnswerInvalid(i) \/ ServeEnd(i)
ServerStep(i) == LoopStep(i) \/ \E g \in handlers : g.conn = i /\ HandlerStep(g)

RpcNext ==
  \/ \E c \in Callers : CallerStep(c)
  \/ \E i \in ConnIds : InputStep(i) \/ LoopStep(i) \/ Cut(i)
  \/ \E g \in handlers : HandlerStep(g)
  \/ Close

RpcSpec == RpcInit /\ [][RpcNext]_rpcVars

(***************************************************************************)
(* Properties.                                                             *)
(***************************************************************************)
\* A call that succeeds has the reply to its own request, however responses
\* are ordered and Request objects reused; an error of the server is about a
\* request of its own too; and no call is completed twice.
RepliesMatch ==
  \A c \in Callers :
    /\ completed[c] <= 1
    /\ callPc[c] = "returned" /\ err[c] = "none" =>
         reply[c] = c /\ executed[c] = 1
    /\ err[c] = "server" =>
         \/ method[c] = "unknown" /\ executed[c] = 0
         \/ method[c] = "fails" /\ executed[c] = 1

\* No two goroutines of the server use the same Request object.
RequestsUnshared == \A g1, g2 \in handlers : g1.req = g2.req => g1 = g2

\* No request is executed twice: a call is tried again only if its request
\* was not sent, whether the connection breaks before, after or while it is.
\* And a call crashes on a nil rpcClient only if another one has found the
\* connection shut down.
ExecutedAtMostOnce ==
  /\ \A c \in Callers : executed[c] <= 1
  /\ (\E c \in Callers : callPc[c] = "crashed") => \E i \in ConnIds : shutdown[i]

\* Each call is carried out and answered as if it were the only one.
CallsAreExact == RepliesMatch /\ RequestsUnshared /\ ExecutedAtMostOnce

\* Every call returns, or ends with the crash above.
Returned(c) == callPc[c] \in {"returned", "crashed"}
=============================================================================
