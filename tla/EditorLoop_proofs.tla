------------------------- MODULE EditorLoop_proofs -------------------------
(***************************************************************************)
(* Theorems about EditorLoop, for any number of sessions, events, signals, *)
(* relays and calls, and any capacity of inputCh.                          *)
(***************************************************************************)
EXTENDS EditorLoop, FiniteSetTheorems, TLAPS

-----------------------------------------------------------------------------
(* Redraws.                                                                *)

\* A full redraw that is due is either still to be extracted or is the one in progress;
\* and one that is still to be extracted has its token in redrawCh, unless the loop is
\* about to extract it.
RedrawPending ==
    /\ wanted \in BOOLEAN /\ redrawFull \in BOOLEAN /\ redrawCh \in BOOLEAN /\ flag \in BOOLEAN
    /\ wanted => redrawFull \/ (pc = "draw" /\ flag)
    /\ redrawFull => redrawCh \/ pc = "extract"

\* The request, the flag and the token of redrawCh stay together under every step.
LEMMA RedrawPendingAlways == Spec => []RedrawPending
<1>1. Init => RedrawPending
  BY DEF Init, RedrawPending
<1>2. RedrawPending /\ [Next]_vars => RedrawPending'
  <2> SUFFICES ASSUME RedrawPending, [Next]_vars
               PROVE  RedrawPending'
    OBVIOUS
  <2> USE DEF RedrawPending
  <2>1. CASE Extract
    BY <2>1, Zenon DEF Extract
  <2>2. CASE Draw
    BY <2>2, Zenon DEF Draw
  <2>3. ASSUME pc # "draw", pc # "extract",
               ReceiveInput \/ ReceiveReturn \/ ReceiveRedraw
        PROVE  RedrawPending'
    <3>1. /\ pc' # "draw"
          /\ redrawCh' = redrawCh \/ pc' = "extract"
          /\ flag' = flag /\ redrawFull' = redrawFull /\ wanted' = wanted
          /\ redrawCh' \in BOOLEAN
      BY <2>3, Zenon DEF ReceiveInput, ReceiveReturn, ReceiveRedraw
    <3>2. wanted' => redrawFull'
      BY <2>3, <3>1, Zenon
    <3>3. redrawFull => redrawCh' \/ pc' = "extract"
      BY <2>3, <3>1
    <3>4. redrawFull' => redrawFull
      BY <3>1, Zenon
    <3> QED
      BY <3>1, <3>2, <3>3, <3>4, Zenon
  <2>4. CASE Select \/ Poll \/ ConsumeNext
    <3>1. CASE /\ pc' = "next" \/ pc' = "extract"
               /\ pc = "poll" \/ pc = "next"
               /\ UNCHANGED <<flag, loopVars>>
      BY <3>1, Zenon DEF loopVars
    <3>2. pc # "draw" /\ pc # "extract"
      BY <2>4, Zenon DEF Select, Poll, ConsumeNext
    <3> QED
      BY <2>3, <2>4, <3>1, <3>2, Zenon DEF Select, Poll, ConsumeNext
  <2>5. CASE HandleSignal \/ HandleTermEvent
    <3>1. /\ pc = "handle" /\ pc' # "extract" /\ pc' # "draw"
          /\ flag' = flag
          /\ \/ Redraw(TRUE)
             \/ Redraw(FALSE)
             \/ UNCHANGED <<redrawCh, redrawFull, wanted>>
      <4>1. CASE HandleSignal
        BY <4>1, Zenon DEF HandleSignal
      <4>2. CASE HandleTermEvent
        <5>1. pc' = "push" \/ pc' = "poll"
          BY <4>2, Zenon DEF HandleTermEvent, AfterTermEvent
        <5> QED
          BY <4>2, <5>1, Zenon DEF HandleTermEvent
      <4> QED
        BY <2>5, <4>1, <4>2
    <3>2. CASE Redraw(TRUE)
      BY <3>1, <3>2, Zenon DEF Redraw
    <3>3. CASE Redraw(FALSE)
      BY <3>1, <3>3, Zenon DEF Redraw
    <3>4. CASE UNCHANGED <<redrawCh, redrawFull, wanted>>
      <4>1. pc # "draw" /\ pc # "extract"
        BY <3>1
      <4> QED
        BY <3>1, <3>4, <4>1, Zenon
    <3> QED
      BY <3>1, <3>2, <3>3, <3>4, Zenon
  <2>6. CASE RequestRead
    BY <2>6, Zenon DEF RequestRead, loopVars
  <2>7. CASE \/ StopRelayLateUpdates \/ StopSignals \/ CloseReader \/ CloseReqRead
             \/ WaitGoroutines \/ Reset
    BY <2>7 DEF StopRelayLateUpdates, StopSignals, CloseReader, CloseReqRead,
                WaitGoroutines, Reset, loopVars
  <2>8. CASE Reader \/ ReaderGotEvent
    BY <2>8 DEF Reader, ReaderTakeToken, ReaderLeave, ReaderBeginRead, ReaderInput,
                ReaderGotEvent, mainUnchanged, mainVars, loopVars
  <2>9. CASE SigRelay \/ SignalArrives
    BY <2>9 DEF SigRelay, SigRelayTake, SigRelayInput, SigRelayLeave, SignalArrives,
                mainUnchanged, mainVars, loopVars
  <2>10. ASSUME NEW full \in BOOLEAN, Redraw(full), UNCHANGED mainVars
         PROVE  RedrawPending'
    BY <2>10, Zenon DEF Redraw, mainVars
  <2>11. ASSUME NEW r \in Relays, LateRelay(r) \/ LateUpdate(r)
         PROVE  RedrawPending'
    <3>1. CASE LateTake(r) \/ LateLeave(r) \/ LateUpdate(r)
      BY <3>1 DEF LateTake, LateLeave, LateUpdate, mainUnchanged, mainVars, loopVars
    <3>2. CASE LateRedraw(r)
      BY <3>2, <2>10 DEF LateRedraw, mainUnchanged
    <3> QED
      BY <2>11, <3>1, <3>2 DEF LateRelay
  <2>12. ASSUME NEW full \in BOOLEAN, AsyncRedraw(full)
         PROVE  RedrawPending'
    BY <2>10, <2>12 DEF AsyncRedraw, mainUnchanged
  <2>13. CASE NotifyRedraw
    BY <2>10, <2>13 DEF NotifyRedraw, mainUnchanged
  <2>14. CASE CommitCode \/ NotifyAppend
    BY <2>14 DEF CommitCode, NotifyAppend, mainUnchanged, mainVars, loopVars
  <2>15. CASE ReadCode \/ SetupFails \/ StartReader \/ StartSigRelay \/ StartLateRelays
    BY <2>15 DEF ReadCode, SetupFails, StartReader, StartSigRelay, StartLateRelays, loopVars
  <2>16. CASE UNCHANGED vars
    BY <2>16 DEF vars, mainVars, loopVars
  <2> QED
    BY <2>1, <2>2, <2>4, <2>5, <2>6, <2>7, <2>8, <2>9, <2>11, <2>12, <2>13, <2>14, <2>15, <2>16
       DEF Next, Main, Environment
<1> QED
  BY <1>1, <1>2, PTL DEF Spec

\* No request for a full redraw is forgotten, whatever the interleaving.
THEOREM FullRedrawTheorem == Spec => []FullRedrawNotLost
<1>1. RedrawPending => FullRedrawNotLost
  BY DEF RedrawPending, FullRedrawNotLost
<1> QED
  BY <1>1, RedrawPendingAlways, PTL

\* No note is left unseen, for any number of goroutines' calls of Notify.
THEOREM NotesTheorem == Spec => []NotesNotLost
<1>1. Init => NotesNotLost
  BY DEF Init, NotesNotLost
<1>2. NotesNotLost /\ [Next]_vars => NotesNotLost'
  <2> SUFFICES ASSUME NotesNotLost, [Next]_vars
               PROVE  NotesNotLost'
    OBVIOUS
  <2> USE DEF NotesNotLost
  <2>1. CASE Extract \/ Draw
    BY <2>1 DEF Extract, Draw
  <2>2. CASE Select \/ Poll \/ ConsumeNext
    BY <2>2 DEF Select, Poll, ConsumeNext, ReceiveInput, ReceiveReturn, ReceiveRedraw
  <2>3. CASE HandleSignal \/ HandleTermEvent \/ RequestRead
    BY <2>3 DEF HandleSignal, HandleTermEvent, AfterTermEvent, RequestRead
  <2>4. CASE \/ StopRelayLateUpdates \/ StopSignals \/ CloseReader \/ CloseReqRead
             \/ WaitGoroutines \/ Reset
    BY <2>4 DEF StopRelayLateUpdates, StopSignals, CloseReader, CloseReqRead,
                WaitGoroutines, Reset
  <2>5. CASE Reader \/ ReaderGotEvent
    BY <2>5 DEF Reader, ReaderTakeToken, ReaderLeave, ReaderBeginRead, ReaderInput,
                ReaderGotEvent, mainUnchanged, mainVars, loopVars
  <2>6. CASE SigRelay \/ SignalArrives
    BY <2>6 DEF SigRelay, SigRelayTake, SigRelayInput, SigRelayLeave, SignalArrives,
                mainUnchanged, mainVars, loopVars
  <2>7. ASSUME NEW r \in Relays, LateRelay(r) \/ LateUpdate(r)
        PROVE  NotesNotLost'
    BY <2>7 DEF LateRelay, LateTake, LateRedraw, LateLeave, LateUpdate, Redraw,
                mainUnchanged, mainVars, loopVars
  <2>8. ASSUME NEW full \in BOOLEAN, AsyncRedraw(full)
        PROVE  NotesNotLost'
    BY <2>8 DEF AsyncRedraw, Redraw, mainUnchanged, mainVars
  <2>9. CASE CommitCode \/ NotifyAppend \/ NotifyRedraw
    BY <2>9 DEF CommitCode, NotifyAppend, NotifyRedraw, Redraw, Return, mainUnchanged, mainVars, loopVars
  <2>10. CASE ReadCode \/ SetupFails \/ StartReader \/ StartSigRelay \/ StartLateRelays
    BY <2>10 DEF ReadCode, SetupFails, StartReader, StartSigRelay, StartLateRelays
  <2>11. CASE UNCHANGED vars
    BY <2>11 DEF vars, mainVars, loopVars
  <2> QED
    BY <2>1, <2>2, <2>3, <2>4, <2>5, <2>6, <2>7, <2>8, <2>9, <2>10, <2>11
       DEF Next, Main, Environment
<1> QED
  BY <1>1, <1>2, PTL DEF Spec

-----------------------------------------------------------------------------
(* Goroutines.                                                             *)

\* The goroutines that are relaying late updates, and a goroutine as a number.
Relaying == {r \in Relays : late[r].at # "off"}
Alive(at) == IF at = "off" THEN 0 ELSE 1

\* wg counts the goroutines there are.  It is 0 from the end of wg.Wait to the start of the
\* first goroutine, and no goroutine is there before it is started.
GoroutinesCounted ==
    /\ late \in [Relays -> [ready : BOOLEAN, at : {"off", "range", "redraw"}]]
    /\ wg = Alive(reader) + Alive(sigRelay) + Cardinality(Relaying)
    /\ pc \in {"reset", "idle", "over", "setup"} => wg = 0
    /\ pc = "startSignals" => sigRelay = "off"
    /\ pc \in {"startSignals", "startLate"} => Relaying = {}

\* The relays of late updates can be counted, and there is none if their number is 0.
LEMMA RelayingFinite ==
  /\ IsFiniteSet(Relaying) /\ Cardinality(Relaying) \in Nat
  /\ Cardinality(Relaying) = 0 => Relaying = {}
<1>1. IsFiniteSet(Relaying)
  BY LoopAssumption, FS_Subset DEF Relaying
<1> QED
  BY <1>1, FS_EmptySet, FS_CardinalityType

\* With a counter of 0 there is no goroutine left.
LEMMA NoneCounted ==
  ASSUME GoroutinesCounted, wg = 0
  PROVE  reader = "off" /\ sigRelay = "off" /\ Relaying = {}
BY RelayingFinite DEF GoroutinesCounted, Alive

\* Every goroutine is counted when it starts, and counts itself off once, when it ends.
LEMMA GoroutinesCountedAlways == Spec => []GoroutinesCounted
<1>1. Init => GoroutinesCounted
  <2> SUFFICES ASSUME Init PROVE GoroutinesCounted
    OBVIOUS
  <2>1. Relaying = {}
    BY DEF Init, Relaying
  <2> QED
    BY <2>1, FS_EmptySet DEF Init, GoroutinesCounted, Alive
<1>2. GoroutinesCounted /\ [Next]_vars => GoroutinesCounted'
  <2> SUFFICES ASSUME GoroutinesCounted, [Next]_vars
               PROVE  GoroutinesCounted'
    OBVIOUS
  <2> DEFINE Places == {"reset", "idle", "over", "setup"}
             Stays(at, next) == (at = "off") = (next = "off")
  \* Steps that start and end no goroutine.
  <2>1. ASSUME UNCHANGED wg, Stays(reader, reader'), Stays(sigRelay, sigRelay'),
               late' \in [Relays -> [ready : BOOLEAN, at : {"off", "range", "redraw"}]],
               \A r \in Relays : Stays(late[r].at, late'[r].at),
               pc' \in Places => pc \in Places \/ wg = 0,
               pc' # pc => pc' \notin {"startSignals", "startLate"}
        PROVE  GoroutinesCounted'
    <3>1. Relaying' = Relaying
      BY <2>1 DEF Relaying
    <3> QED
      BY <2>1, <3>1 DEF GoroutinesCounted, Alive
  <2>2. ASSUME UNCHANGED <<wg, reader, sigRelay, late>>,
               pc' \in Places => pc \in Places \/ wg = 0,
               pc' # pc => pc' \notin {"startSignals", "startLate"}
        PROVE  GoroutinesCounted'
    BY <2>1, <2>2 DEF GoroutinesCounted
  \* Steps that end one: the reader or the signal relay.
  <2>3. ASSUME Done, UNCHANGED late,
               pc' = pc \/ pc' \notin Places \cup {"startSignals", "startLate"},
               \/ reader # "off" /\ reader' = "off" /\ UNCHANGED sigRelay
               \/ sigRelay # "off" /\ sigRelay' = "off" /\ UNCHANGED reader
        PROVE  GoroutinesCounted'
    <3>1. Relaying' = Relaying
      BY <2>3 DEF Relaying
    <3>2. wg # 0
      BY <2>3, NoneCounted
    <3>3. wg' = Alive(reader') + Alive(sigRelay') + Cardinality(Relaying')
      BY <2>3, <3>1, RelayingFinite DEF GoroutinesCounted, Alive, Done
    <3> QED
      BY <2>3, <3>1, <3>2, <3>3 DEF GoroutinesCounted
  <2>4. CASE ReadCode \/ SetupFails
    <3>1. UNCHANGED <<wg, reader, sigRelay, late>> /\ pc \in Places /\ pc' \in Places
      BY <2>4 DEF ReadCode, SetupFails, readVars, sigVars
    <3> QED
      BY <2>2, <3>1
  <2>5. CASE StartReader
    <3>1. wg = 0 /\ wg' = 1 /\ UNCHANGED <<sigRelay, late>> /\ reader' # "off"
          /\ pc' = "startSignals"
      BY <2>5 DEF StartReader, GoroutinesCounted, sigVars
    <3>2. sigRelay = "off" /\ Relaying = {}
      BY <3>1, NoneCounted
    <3>3. Relaying' = {}
      BY <3>1, <3>2 DEF Relaying
    <3> QED
      BY <3>1, <3>2, <3>3, FS_EmptySet DEF GoroutinesCounted, Alive
  <2>6. CASE StartSigRelay
    <3>1. /\ sigRelay = "off" /\ sigRelay' # "off" /\ wg' = wg + 1
          /\ UNCHANGED <<reader, late>>
          /\ Relaying = {} /\ pc' = "startLate"
      BY <2>6 DEF StartSigRelay, GoroutinesCounted, readVars
    <3>2. Relaying' = {}
      BY <3>1 DEF Relaying
    <3> QED
      BY <3>1, <3>2, RelayingFinite DEF GoroutinesCounted, Alive
  <2>7. CASE StartLateRelays
    <3>1. /\ Relaying = {} /\ UNCHANGED <<reader, sigRelay>>
          /\ late' = [r \in Relays |-> [late[r] EXCEPT !.at = "range"]]
          /\ wg' = wg + Cardinality(Relays) /\ pc' = "extract"
      BY <2>7 DEF StartLateRelays, GoroutinesCounted, readVars, sigVars
    <3>2. /\ late' \in [Relays -> [ready : BOOLEAN, at : {"off", "range", "redraw"}]]
          /\ \A r \in Relays : late'[r].at = "range"
      BY <3>1 DEF GoroutinesCounted
    <3>3. Relaying' = Relays
      BY <3>2 DEF Relaying
    <3>4. wg = Alive(reader) + Alive(sigRelay)
      BY <3>1, FS_EmptySet DEF GoroutinesCounted, Alive
    <3>5. wg' = Alive(reader') + Alive(sigRelay') + Cardinality(Relaying')
      BY <3>1, <3>3, <3>4
    <3> QED
      BY <3>1, <3>2, <3>5 DEF GoroutinesCounted
  <2>8. CASE Extract \/ Draw
    BY <2>2, <2>8 DEF Extract, Draw, readVars, sigVars
  <2>9. CASE Select \/ Poll \/ ConsumeNext
    BY <2>2, <2>9 DEF Select, Poll, ConsumeNext, ReceiveInput, ReceiveReturn, ReceiveRedraw, readVars, sigVars
  <2>10. CASE HandleSignal \/ HandleTermEvent \/ RequestRead
    BY <2>2, <2>10 DEF HandleSignal, HandleTermEvent, AfterTermEvent, RequestRead, readVars, sigVars
  <2>11. CASE StopRelayLateUpdates \/ StopSignals \/ CloseReqRead \/ WaitGoroutines \/ Reset
    BY <2>2, <2>11 DEF StopRelayLateUpdates, StopSignals, CloseReqRead, WaitGoroutines, Reset, readVars, sigVars
  <2>12. CASE CloseReader
    <3>1. UNCHANGED <<late, sigRelay>> /\ pc' = "closeReqRead"
      BY <2>12 DEF CloseReader, sigVars
    <3>2. CASE reader \in {"read", "enter"} /\ reader' = "off" /\ Done
      BY <2>3, <3>1, <3>2
    <3>3. CASE UNCHANGED wg /\ ((reader = "read" /\ reader' = "input") \/ UNCHANGED reader)
      BY <2>1, <3>1, <3>3 DEF GoroutinesCounted
    <3> QED
      BY <2>12, <3>2, <3>3 DEF CloseReader
  <2>13. CASE ReaderTakeToken \/ ReaderBeginRead \/ ReaderGotEvent
    <3>1. UNCHANGED <<pc, wg, sigRelay, late>> /\ Stays(reader, reader')
      BY <2>13 DEF ReaderTakeToken, ReaderBeginRead, ReaderGotEvent, mainUnchanged, mainVars, sigVars
    <3> QED
      BY <2>1, <3>1 DEF GoroutinesCounted
  <2>14. CASE ReaderLeave \/ ReaderInput
    <3>1. UNCHANGED <<pc, sigRelay, late>> /\ reader # "off"
      BY <2>14 DEF ReaderLeave, ReaderInput, mainUnchanged, mainVars, sigVars
    <3>2. CASE reader' = "off" /\ Done
      BY <2>3, <3>1, <3>2
    <3>3. CASE reader' = "range" /\ UNCHANGED wg
      BY <2>1, <3>1, <3>3 DEF GoroutinesCounted
    <3> QED
      BY <2>14, <3>2, <3>3 DEF ReaderLeave, ReaderInput
  <2>15. CASE SigRelayTake \/ SigRelayInput \/ SignalArrives
    <3>1. UNCHANGED <<pc, wg, reader, late>> /\ Stays(sigRelay, sigRelay')
      BY <2>15 DEF SigRelayTake, SigRelayInput, SignalArrives, mainUnchanged, mainVars, readVars
    <3> QED
      BY <2>1, <3>1 DEF GoroutinesCounted
  <2>16. CASE SigRelayLeave
    <3>1. UNCHANGED <<pc, reader, late>> /\ sigRelay # "off" /\ sigRelay' = "off" /\ Done
      BY <2>16 DEF SigRelayLeave, mainUnchanged, mainVars, readVars
    <3> QED
      BY <2>3, <3>1
  <2>17. ASSUME NEW r \in Relays, LateTake(r) \/ LateRedraw(r) \/ LateUpdate(r)
         PROVE  GoroutinesCounted'
    <3>1. UNCHANGED <<pc, wg, reader, sigRelay>>
      BY <2>17 DEF LateTake, LateRedraw, LateUpdate, mainUnchanged, mainVars, readVars, sigVars
    <3>2. /\ late' \in [Relays -> [ready : BOOLEAN, at : {"off", "range", "redraw"}]]
          /\ \A s \in Relays : Stays(late[s].at, late'[s].at)
      <4>1. CASE LateTake(r)
        BY <4>1 DEF LateTake, GoroutinesCounted
      <4>2. CASE LateRedraw(r)
        <5>1. late' = [late EXCEPT ![r].at = "range"] /\ late[r].at = "redraw"
          BY <4>2 DEF LateRedraw
        <5> QED
          BY <5>1 DEF GoroutinesCounted
      <4>3. CASE LateUpdate(r)
        <5>1. late' = [late EXCEPT ![r].ready = TRUE]
          BY <4>3 DEF LateUpdate
        <5> QED
          BY <5>1 DEF GoroutinesCounted
      <4> QED
        BY <2>17, <4>1, <4>2, <4>3
    <3> QED
      BY <2>1, <3>1, <3>2
  <2>18. ASSUME NEW r \in Relays, LateLeave(r)
         PROVE  GoroutinesCounted'
    <3>1. /\ UNCHANGED <<pc, reader, sigRelay>> /\ Done
          /\ late' = [late EXCEPT ![r].at = "off"] /\ late[r].at = "range"
          /\ pc \notin {"startSignals", "startLate"}
      BY <2>18 DEF LateLeave, Teardown, mainUnchanged, mainVars, readVars, sigVars
    <3>2. /\ late' \in [Relays -> [ready : BOOLEAN, at : {"off", "range", "redraw"}]]
          /\ late'[r].at = "off"
          /\ \A s \in Relays \ {r} : late'[s] = late[s]
      BY <3>1 DEF GoroutinesCounted
    <3>3. r \in Relaying /\ Relaying' = Relaying \ {r}
      BY <3>1, <3>2 DEF Relaying
    <3>4. Cardinality(Relaying') = Cardinality(Relaying) - 1
      BY <3>3, RelayingFinite, FS_RemoveElement
    <3>5. wg # 0
      BY <3>3, NoneCounted
    <3>6. wg' = Alive(reader') + Alive(sigRelay') + Cardinality(Relaying')
      BY <3>1, <3>4, RelayingFinite DEF GoroutinesCounted, Alive, Done
    <3> QED
      BY <3>1, <3>2, <3>5, <3>6 DEF GoroutinesCounted
  <2>19. ASSUME NEW full \in BOOLEAN, AsyncRedraw(full)
         PROVE  GoroutinesCounted'
    BY <2>2, <2>19 DEF AsyncRedraw, mainUnchanged, mainVars, readVars, sigVars
  <2>20. CASE CommitCode \/ NotifyAppend \/ NotifyRedraw
    BY <2>2, <2>20 DEF CommitCode, NotifyAppend, NotifyRedraw, mainUnchanged, mainVars, readVars, sigVars
  <2>21. CASE UNCHANGED vars
    BY <2>2, <2>21 DEF vars, mainVars, readVars, sigVars
  <2> QED
    BY <2>4, <2>5, <2>6, <2>7, <2>8, <2>9, <2>10, <2>11, <2>12, <2>13, <2>14, <2>15, <2>16, <2>17, <2>18,
       <2>19, <2>20, <2>21
       DEF Next, Main, Environment, Reader, SigRelay, LateRelay
<1> QED
  BY <1>1, <1>2, PTL DEF Spec

\* When ReadCode has restored the terminal, every goroutine it has started has ended, for any
\* number of sessions, relays and events: wg.Wait waits for a counter, which agrees with
\* them in whatever order they start and end.
THEOREM NoGoroutineLeftTheorem == Spec => []NoGoroutineLeft
<1>1. GoroutinesCounted => NoGoroutineLeft
  <2> SUFFICES ASSUME GoroutinesCounted PROVE NoGoroutineLeft
    OBVIOUS
  <2>1. wg >= 0
    BY RelayingFinite DEF GoroutinesCounted, Alive
  <2>2. ASSUME pc \in {"reset", "idle", "over", "setup"}
        PROVE  reader = "off" /\ sigRelay = "off" /\ \A r \in Relays : late[r].at = "off"
    <3>1. wg = 0
      BY <2>2 DEF GoroutinesCounted
    <3> QED
      BY <3>1, NoneCounted DEF Relaying
  <2> QED
    BY <2>1, <2>2 DEF NoGoroutineLeft
<1> QED
  BY <1>1, GoroutinesCountedAlways, PTL

-----------------------------------------------------------------------------
\* No request for a redraw and no note is lost (loop.Redraw, app.Notify), for any number of
\* requests and sessions.
THEOREM RequestsTheorem == Spec => []RequestsNotLost
<1>1. FullRedrawNotLost /\ NotesNotLost => RequestsNotLost
  BY DEF RequestsNotLost
<1> QED
  BY <1>1, FullRedrawTheorem, NotesTheorem, PTL

-----------------------------------------------------------------------------
(* Types.                                                                  *)

\* Every event on its way to handleCb is one: in inputCh there are at most as many as it
\* holds, and a relay that is inside of Input has one of its own kind.  The cells that
\* hold truth values are apart.
CellsOK ==
    /\ pc \in {"idle", "over", "extract", "draw", "select", "handle", "push", "poll", "next"} \cup Starting \cup Teardown
    /\ event \in TermEvents \cup Signals \cup {NoEvent}
    /\ inputCh \in Seq(TermEvents \cup Signals)
    /\ Len(inputCh) <= InputChSize
    /\ returnCh \in Returns \cup {NoEvent}
    /\ notes \in Nat
    /\ result \in Returns \cup {"error", NoEvent}
    /\ reqRead \in [tokens : 0..1, closed : BOOLEAN]
    /\ reader \in {"off", "range", "enter", "read", "input"}
    /\ rdEvent \in TermEvents \cup {NoEvent}
    /\ reader = "input" => rdEvent \in TermEvents
    /\ sigCh \in Seq(Signals)
    /\ sigRelay \in {"off", "range", "input"}
    /\ sigEvent \in Signals \cup {NoEvent}
    /\ sigRelay = "input" => sigEvent \in Signals
    /\ sessions \in 0..MaxSessions /\ keys \in 0..MaxKeys
    /\ signals \in 0..MaxSignals /\ async \in 0..MaxAsync

\* The truth values that RedrawPending does not speak of.
SwitchesOK == sigOpen \in BOOLEAN /\ notifier \in BOOLEAN

\* The channels hold only what was sent on them, and inputCh never more than its capacity.
LEMMA CellsAlways == Spec => []CellsOK
<1>1. Init => CellsOK
  BY LoopAssumption DEF Init, CellsOK, NoEvent
<1>2. CellsOK /\ [Next]_vars => CellsOK'
  <2> SUFFICES ASSUME CellsOK, [Next]_vars
               PROVE  CellsOK'
    OBVIOUS
  <2> USE LoopAssumption DEF CellsOK, loopVars, readVars, sigVars, mainVars, bounds,
                             Signals, TermEvents, Returns, NoEvent, Starting, Teardown
  <2>1. CASE Extract
    BY <2>1 DEF Extract
  <2>2. CASE Draw
    BY <2>2 DEF Draw
  <2>3. CASE ReceiveInput
    BY <2>3 DEF ReceiveInput
  <2>4. CASE ReceiveReturn
    BY <2>4 DEF ReceiveReturn, HasReturned
  <2>5. CASE ReceiveRedraw
    BY <2>5 DEF ReceiveRedraw
  <2>6. CASE Poll
    <3>1. CASE ReceiveReturn
      BY <3>1, <2>4
    <3>2. CASE pc' = "next" /\ event' = NoEvent /\ UNCHANGED <<flag, result, loopVars, notes, readVars, sigVars, late, notifier, bounds>>
      BY <3>2
    <3> QED
      BY <2>6, <3>1, <3>2 DEF Poll
  <2>7. CASE ConsumeNext
    <3>1. CASE ReceiveInput
      BY <3>1, <2>3
    <3>2. CASE pc' = "extract" /\ UNCHANGED <<event, flag, result, loopVars, notes, readVars, sigVars, late, notifier, bounds>>
      BY <3>2
    <3> QED
      BY <2>7, <3>1, <3>2 DEF ConsumeNext
  <2>8. CASE Select
    BY <2>8, <2>3, <2>4, <2>5 DEF Select
  <2>9. CASE HandleSignal
    <3>1. /\ UNCHANGED <<event, flag, result, inputCh, readVars, sigVars, bounds>>
          /\ pc' = "poll"
          /\ returnCh' \in {returnCh, "eof"}
          /\ notes' \in {notes, 0}
      BY <2>9 DEF HandleSignal, Return
    <3> QED
      BY <3>1
  <2>10. CASE HandleTermEvent
    <3>1. /\ UNCHANGED <<event, flag, result, inputCh, readVars, sigVars, bounds>>
          /\ pc' \in {"push", "poll"}
          /\ returnCh' \in Returns \cup {returnCh}
          /\ notes' \in {notes, notes + 1}
      BY <2>10 DEF HandleTermEvent, AfterTermEvent, Return
    <3> QED
      BY <3>1
  <2>11. CASE RequestRead
    BY <2>11, SMTT(30) DEF RequestRead
  <2>12. CASE StopRelayLateUpdates \/ StopSignals \/ WaitGoroutines
    BY <2>12 DEF StopRelayLateUpdates, StopSignals, WaitGoroutines
  <2>13. CASE Reset
    BY <2>13 DEF Reset
  <2>14. CASE CloseReader
    <3>1. /\ UNCHANGED <<event, flag, result, loopVars, notes, reqRead, sigVars, sessions, signals, async>>
          /\ pc' = "closeReqRead"
          /\ \/ reader' \in {reader, "off"} /\ rdEvent' = rdEvent /\ keys' = keys
             \/ keys < MaxKeys /\ reader' = "input" /\ rdEvent' = "key" /\ keys' = keys + 1
      BY <2>14 DEF CloseReader
    <3> QED
      BY <3>1
  <2>15. CASE CloseReqRead
    <3>1. /\ UNCHANGED <<event, flag, result, loopVars, notes, reader, rdEvent, sigVars, bounds>>
          /\ pc' = "wait"
          /\ reqRead' = [reqRead EXCEPT !.closed = TRUE]
      BY <2>15 DEF CloseReqRead
    <3>2. reqRead' \in [tokens : 0..1, closed : BOOLEAN]
      BY <3>1, Zenon DEF CellsOK
    <3> QED
      BY <3>1, <3>2
  <2>16. CASE ReaderTakeToken \/ ReaderLeave \/ ReaderBeginRead \/ ReaderGotEvent
    BY <2>16 DEF ReaderTakeToken, ReaderLeave, ReaderBeginRead, ReaderGotEvent, mainUnchanged
  <2>17. CASE ReaderInput
    BY <2>17 DEF ReaderInput, Input, mainUnchanged
  <2>18. CASE SigRelayTake
    BY <2>18 DEF SigRelayTake, mainUnchanged
  <2>19. CASE SigRelayLeave
    BY <2>19 DEF SigRelayLeave, mainUnchanged
  <2>20. CASE SignalArrives
    BY <2>20 DEF SignalArrives, mainUnchanged
  <2>21. CASE SigRelayInput
    BY <2>21 DEF SigRelayInput, Input, mainUnchanged
  <2>22. ASSUME NEW r \in Relays, LateRelay(r) \/ LateUpdate(r)
         PROVE  CellsOK'
    <3>1. UNCHANGED <<mainVars, notes, inputCh, returnCh, readVars, sigVars, sessions, keys, signals>>
      BY <2>22 DEF LateRelay, LateTake, LateRedraw, LateLeave, LateUpdate, mainUnchanged
    <3>2. async' \in 0..MaxAsync
      <4>1. CASE LateRelay(r)
        BY <4>1 DEF LateRelay, LateTake, LateRedraw, LateLeave
      <4>2. CASE LateUpdate(r)
        BY <4>2 DEF LateUpdate, AsyncCall
      <4> QED
        BY <2>22, <4>1, <4>2
    <3> QED
      BY <3>1, <3>2
  <2>23. ASSUME NEW full \in BOOLEAN, AsyncRedraw(full)
         PROVE  CellsOK'
    BY <2>23 DEF AsyncRedraw, AsyncCall, mainUnchanged
  <2>24. CASE CommitCode
    BY <2>24 DEF CommitCode, AsyncCall, Return, mainUnchanged
  <2>25. CASE NotifyAppend
    BY <2>25 DEF NotifyAppend, AsyncCall
  <2>26. CASE NotifyRedraw
    BY <2>26 DEF NotifyRedraw, mainUnchanged
  <2>27. CASE ReadCode \/ SetupFails
    BY <2>27 DEF ReadCode, SetupFails
  <2>29. CASE StartReader
    BY <2>29 DEF StartReader
  <2>30. CASE StartSigRelay
    <3>1. /\ UNCHANGED <<event, inputCh, returnCh, notes, result, reqRead, reader, rdEvent, sigEvent, bounds>>
          /\ pc' = "startLate" /\ sigCh' = <<>> /\ sigRelay' = "range"
      BY <2>30 DEF StartSigRelay
    <3>2. sigCh' \in Seq(Signals)
      BY <3>1
    <3> QED
      BY <3>1, <3>2
  <2>31. CASE StartLateRelays
    BY <2>31 DEF StartLateRelays
  <2>28. CASE UNCHANGED vars
    BY <2>28 DEF vars
  <2> HIDE DEF CellsOK
  <2> QED
    BY <2>1, <2>2, <2>6, <2>7, <2>8, <2>9, <2>10, <2>11, <2>12, <2>13, <2>14, <2>15, <2>16, <2>17, <2>18,
       <2>19, <2>20, <2>21, <2>22, <2>23, <2>24, <2>25, <2>26, <2>27, <2>28, <2>29, <2>30, <2>31
       DEF Next, Main, Environment, Reader, SigRelay
<1> QED
  BY <1>1, <1>2, PTL DEF Spec

\* sigCh is open or closed and a goroutine is inside of Notify or none is.
LEMMA SwitchesAlways == Spec => []SwitchesOK
<1>1. Init => SwitchesOK
  BY DEF Init, SwitchesOK
<1>2. SwitchesOK /\ [Next]_vars => SwitchesOK'
  <2> SUFFICES ASSUME SwitchesOK, [Next]_vars
               PROVE  SwitchesOK'
    OBVIOUS
  <2>1. sigOpen' \in {sigOpen, TRUE, FALSE} /\ notifier' \in {notifier, TRUE, FALSE}
    <3> USE DEF sigVars
    <3>1. CASE Main
      BY <3>1, Zenon DEF Main, Extract, Draw, Select, Poll, ConsumeNext, ReceiveInput, ReceiveReturn, ReceiveRedraw,
                  HandleSignal, HandleTermEvent, RequestRead, StopRelayLateUpdates, StopSignals, CloseReader,
                  CloseReqRead, WaitGoroutines, Reset, StartReader, StartSigRelay, StartLateRelays
    <3>2. CASE Reader \/ SigRelay \/ NotifyRedraw
      BY <3>2, Zenon DEF Reader, ReaderTakeToken, ReaderLeave, ReaderBeginRead, ReaderInput,
                  SigRelay, SigRelayTake, SigRelayInput, SigRelayLeave, NotifyRedraw
    <3>3. CASE \E r \in Relays : LateRelay(r)
      BY <3>3, Zenon DEF LateRelay, LateTake, LateRedraw, LateLeave
    <3>4. CASE Environment
      BY <3>4, Zenon DEF Environment, ReadCode, SetupFails, ReaderGotEvent, SignalArrives, LateUpdate, AsyncRedraw, CommitCode,
                  NotifyAppend
    <3>5. CASE UNCHANGED vars
      BY <3>5, Zenon DEF vars
    <3> QED
      BY <3>1, <3>2, <3>3, <3>4, <3>5, Zenon DEF Next
  <2> QED
    BY <2>1, Zenon DEF SwitchesOK
<1> QED
  BY <1>1, <1>2, PTL DEF Spec

\* inputCh never holds more events than its capacity, nor anything but events, the loop
\* hands handleCb nothing else, and the other cells of the loop and its relays are as
\* declared too, for any number of sessions, events, signals and relays.
THEOREM LoopTypeCorrect == Spec => []TypeOK
<1>1. GoroutinesCounted => wg \in Int
  BY RelayingFinite DEF GoroutinesCounted, Alive
<1>2. CellsOK /\ SwitchesOK /\ RedrawPending /\ GoroutinesCounted => TypeOK
  BY <1>1, Zenon DEF CellsOK, SwitchesOK, RedrawPending, GoroutinesCounted, TypeOK
<1> QED
  BY <1>2, CellsAlways, SwitchesAlways, RedrawPendingAlways, GoroutinesCountedAlways, PTL
=============================================================================
