----------------------------- MODULE EditorLoop -----------------------------
(***************************************************************************)
(* The line editor's event loop (pkg/cli/loop.go) together with the calls  *)
(* of ReadCode (pkg/cli/app.go) that drive it: the goroutine that reads    *)
(* the terminal, the one that relays signals, the ones that relay late     *)
(* prompt and highlighter updates, and goroutines of the shell that call   *)
(* Redraw, Notify and CommitCode at any time.                              *)
(*                                                                         *)
(* One session is one call of ReadCode.  The channels of the loop live as  *)
(* long as the app, so what one session leaves behind the next one finds.  *)
(***************************************************************************)
EXTENDS Integers, Sequences, FiniteSets

CONSTANTS
    InputChSize,  \* capacity of loop.inputCh (inputChSize = 128 in the code)
    Relays,       \* the late-update sources: prompt, rprompt, highlighter
    MaxSessions,  \* bound: calls of ReadCode
    MaxKeys,      \* bound: events the terminal delivers
    MaxSignals,   \* bound: signals delivered to the process
    MaxAsync      \* bound: calls made by other goroutines of the shell

ASSUME LoopAssumption ==
    /\ InputChSize \in Nat \ {0} /\ IsFiniteSet(Relays)
    /\ MaxSessions \in Nat /\ MaxKeys \in Nat
    /\ MaxSignals \in Nat /\ MaxAsync \in Nat

VARIABLES
    pc,         \* where the goroutine that calls ReadCode is
    event,      \* the event handleCb is called with
    inputCh, redrawCh, redrawFull, returnCh,    \* the fields of loop
    notes,      \* how many notes State.Notes holds
    flag,       \* whether the redraw in progress is a full one
    wanted,     \* history: a full redraw was requested and there has been none since
    result,     \* what Run returned, kept until ReadCode returns
    reqRead,    \* tokens buffered in app.reqRead, and whether it is closed
    reader,     \* the goroutine relaying terminal events
    rdEvent,    \* the event that goroutine is passing to Input
    sigCh, sigOpen, sigRelay, sigEvent,         \* the signal relay
    late,       \* the relays of late updates and their channels
    wg,         \* the counter of the WaitGroup of ReadCode
    notifier,   \* a goroutine inside Notify, between the append and Redraw
    sessions, keys, signals, async              \* how much of each bound is used

loopVars == <<inputCh, redrawCh, redrawFull, wanted, returnCh>>
readVars == <<reqRead, reader, rdEvent>>
sigVars == <<sigCh, sigOpen, sigRelay, sigEvent>>
mainVars == <<pc, event, flag, result>>
bounds == <<sessions, keys, signals, async>>
vars == <<mainVars, loopVars, notes, readVars, sigVars, late, wg, notifier, bounds>>

TermEvents == {"key", "nonfatal", "fatal"}
Signals == {"hup", "int", "winch"}
NoEvent == "none"
Returns == {"code", "eof"}
Starting == {"setup", "startSignals", "startLate"}
Teardown == {"stopLate", "stopSignals", "closeReader", "closeReqRead", "wait", "reset"}

TypeOK ==
    /\ pc \in {"idle", "over", "extract", "draw", "select", "handle", "push", "poll", "next"} \cup Starting \cup Teardown
    /\ event \in TermEvents \cup Signals \cup {NoEvent}
    /\ inputCh \in Seq(TermEvents \cup Signals)
    /\ Len(inputCh) <= InputChSize
    /\ redrawCh \in BOOLEAN /\ redrawFull \in BOOLEAN /\ wanted \in BOOLEAN
    /\ returnCh \in Returns \cup {NoEvent}
    /\ notes \in Nat
    /\ flag \in BOOLEAN
    /\ result \in Returns \cup {"error", NoEvent}
    /\ reqRead \in [tokens : 0..1, closed : BOOLEAN]
    /\ reader \in {"off", "range", "enter", "read", "input"}
    /\ rdEvent \in TermEvents \cup {NoEvent}
    /\ sigCh \in Seq(Signals) /\ sigOpen \in BOOLEAN
    /\ sigRelay \in {"off", "range", "input"}
    /\ sigEvent \in Signals \cup {NoEvent}
    /\ late \in [Relays -> [ready : BOOLEAN, at : {"off", "range", "redraw"}]]
    /\ wg \in Int
    /\ notifier \in BOOLEAN
    /\ sessions \in 0..MaxSessions /\ keys \in 0..MaxKeys
    /\ signals \in 0..MaxSignals /\ async \in 0..MaxAsync

Init ==
    /\ pc = "idle" /\ event = NoEvent
    /\ inputCh = <<>> /\ redrawCh = FALSE /\ redrawFull = FALSE /\ returnCh = NoEvent
    /\ notes = 0 /\ flag = FALSE /\ wanted = FALSE /\ result = NoEvent
    /\ reqRead = [tokens |-> 0, closed |-> TRUE]
    /\ reader = "off" /\ rdEvent = NoEvent
    /\ sigCh = <<>> /\ sigOpen = FALSE /\ sigRelay = "off" /\ sigEvent = NoEvent
    /\ late = [r \in Relays |-> [ready |-> FALSE, at |-> "off"]]
    /\ wg = 0 /\ notifier = FALSE
    /\ sessions = 0 /\ keys = 0 /\ signals = 0 /\ async = 0

-----------------------------------------------------------------------------
(* The methods of loop.                                                    *)

\* Mutant: a request for a partial redraw takes back an earlier one for a full redraw.
Redraw_overwrite(full) ==
    /\ redrawFull' = full /\ wanted' = (wanted \/ full)
    /\ redrawCh' = TRUE

\* Redraw(full) under redrawMutex: never blocks.
Redraw(full) ==
    /\ redrawFull' = (redrawFull \/ full) /\ wanted' = (wanted \/ full)
    /\ redrawCh' = TRUE

\* Mutant: the event is sent twice.
Input_twice(ev) ==
    /\ Len(inputCh) < InputChSize
    /\ inputCh' = inputCh \o <<ev, ev>>

\* Input(ev): blocks while the buffer is full.
Input(ev) ==
    /\ Len(inputCh) < InputChSize
    /\ inputCh' = Append(inputCh, ev)

\* Return(r): no effect when a return is already pending.
Return(r) == returnCh' = IF returnCh = NoEvent THEN r ELSE returnCh

HasReturned == returnCh # NoEvent

-----------------------------------------------------------------------------
(* ReadCode up to the call of loop.Run: the goroutines start one after the  *)
(* other, each counted by wg, and may run before the next one starts.      *)

\* BeforeReadline.
ReadCode ==
    /\ pc = "idle" /\ sessions < MaxSessions
    /\ sessions' = sessions + 1
    /\ pc' = "setup"
    /\ UNCHANGED <<event, flag, result, loopVars, notes, readVars, sigVars, late, wg, notifier, keys, signals, async>>

\* TTY.Setup fails: ReadCode returns the error, and the shell falls back to another editor.
SetupFails ==
    /\ pc = "setup" /\ pc' = "reset"
    /\ result' = "error"
    /\ UNCHANGED <<event, flag, loopVars, notes, readVars, sigVars, late, wg, notifier, bounds>>

\* A new WaitGroup and a new reqRead with one token; then the reader.
StartReader ==
    /\ pc = "setup" /\ pc' = "startSignals"
    /\ wg' = 1
    /\ reqRead' = [tokens |-> 1, closed |-> FALSE]
    /\ reader' = "range"
    /\ UNCHANGED <<event, flag, result, loopVars, notes, rdEvent, sigVars, late, notifier, bounds>>

\* NotifySignals makes a new channel.
StartSigRelay ==
    /\ pc = "startSignals" /\ pc' = "startLate"
    /\ wg' = wg + 1
    /\ sigCh' = <<>> /\ sigOpen' = TRUE /\ sigRelay' = "range"
    /\ UNCHANGED <<event, flag, result, loopVars, notes, readVars, sigEvent, late, notifier, bounds>>

\* Mutant: a goroutine that relays late updates is not counted before it starts.
StartLateRelays_notCounted ==
    /\ pc = "startLate" /\ pc' = "extract"
    /\ late' = [r \in Relays |-> [late[r] EXCEPT !.at = "range"]]
    /\ UNCHANGED <<event, flag, result, loopVars, notes, readVars, sigVars, wg, notifier, bounds>>

\* The three calls of relayLateUpdates, then loop.Run.
StartLateRelays ==
    /\ pc = "startLate" /\ pc' = "extract"
    /\ wg' = wg + Cardinality(Relays)
    /\ late' = [r \in Relays |-> [late[r] EXCEPT !.at = "range"]]
    /\ UNCHANGED <<event, flag, result, loopVars, notes, readVars, sigVars, notifier, bounds>>

(* The loop of Run.                                                        *)

\* extractRedrawFull: the flag is read and reset under redrawMutex.
Extract ==
    /\ pc = "extract" /\ pc' = "draw"
    /\ flag' = redrawFull /\ redrawFull' = FALSE
    /\ UNCHANGED <<event, result, inputCh, redrawCh, wanted, returnCh, notes, readVars, sigVars, late, wg, notifier, bounds>>

\* redrawCb(flag), which takes and shows the notes.
Draw ==
    /\ pc = "draw" /\ pc' = "select"
    /\ notes' = 0 /\ flag' = FALSE /\ wanted' = (wanted /\ ~flag)
    /\ UNCHANGED <<event, result, inputCh, redrawCh, redrawFull, returnCh, readVars, sigVars, late, wg, notifier, bounds>>

\* An event is received, by the select or by the loop that consumes all events.
ReceiveInput ==
    /\ inputCh # <<>>
    /\ event' = Head(inputCh) /\ inputCh' = Tail(inputCh)
    /\ pc' = "handle"
    /\ UNCHANGED <<flag, result, redrawCh, redrawFull, wanted, returnCh, notes, readVars, sigVars, late, wg, notifier, bounds>>

\* The pending return is received; redrawCb(finalRedraw) shows the notes once more.
ReceiveReturn ==
    /\ HasReturned
    /\ returnCh' = NoEvent /\ result' = returnCh
    /\ notes' = 0
    /\ event' = NoEvent
    /\ pc' = "stopLate"
    /\ UNCHANGED <<flag, inputCh, redrawCh, redrawFull, wanted, readVars, sigVars, late, wg, notifier, bounds>>

\* The arm of the select that only starts another iteration.
ReceiveRedraw ==
    /\ redrawCh
    /\ redrawCh' = FALSE
    /\ pc' = "extract"
    /\ UNCHANGED <<event, flag, result, inputCh, redrawFull, wanted, returnCh, notes, readVars, sigVars, late, wg, notifier, bounds>>

\* Mutant: the return is only looked for after an event has been handled.
Select_noReturn ==
    /\ pc = "select"
    /\ \/ ReceiveInput
       \/ ReceiveRedraw

\* The select of Run: any ready arm.
Select ==
    /\ pc = "select"
    /\ \/ ReceiveInput
       \/ ReceiveReturn
       \/ ReceiveRedraw

\* After handleCb: a pending return ends Run, otherwise look for more input.
Poll ==
    /\ pc = "poll"
    /\ \/ ReceiveReturn
       \/ /\ ~HasReturned
          /\ pc' = "next" /\ event' = NoEvent
          /\ UNCHANGED <<flag, result, loopVars, notes, readVars, sigVars, late, wg, notifier, bounds>>

\* More input is handled at once; with none left the loop redraws.
ConsumeNext ==
    /\ pc = "next"
    /\ \/ ReceiveInput
       \/ /\ inputCh = <<>>
          /\ pc' = "extract"
          /\ UNCHANGED <<event, flag, result, loopVars, notes, readVars, sigVars, late, wg, notifier, bounds>>

-----------------------------------------------------------------------------
(* app.handle                                                              *)

\* SIGHUP commits EOF, SIGINT drops all state and so the notes, SIGWINCH
\* requests a full redraw.
HandleSignal ==
    /\ pc = "handle" /\ event \in Signals
    /\ \/ /\ event = "hup" /\ Return("eof")
          /\ UNCHANGED <<notes, redrawCh, redrawFull, wanted>>
       \/ /\ event = "int" /\ notes' = 0
          /\ UNCHANGED <<returnCh, redrawCh, redrawFull, wanted>>
       \/ /\ event = "winch" /\ Redraw(TRUE)
          /\ UNCHANGED <<notes, returnCh>>
    /\ pc' = "poll"
    /\ UNCHANGED <<event, flag, result, inputCh, readVars, sigVars, late, wg, notifier, bounds>>

\* The check of HasReturned that follows the handling of a terminal event:
\* another read is requested only if nothing has been committed.
AfterTermEvent == pc' = IF returnCh' = NoEvent THEN "push" ELSE "poll"

\* A terminal event reaches the active widget or the global bindings, which may
\* commit the code or EOF; an unbound key adds a note and requests a redraw.
HandleTermEvent ==
    /\ pc = "handle" /\ event \in TermEvents
    /\ \/ /\ \E r \in Returns : Return(r)
          /\ UNCHANGED <<notes, redrawCh, redrawFull, wanted>>
       \/ UNCHANGED <<returnCh, notes, redrawCh, redrawFull, wanted>>
       \/ /\ event = "key"
          /\ notes' = notes + 1 /\ Redraw(FALSE)
          /\ UNCHANGED returnCh
    /\ AfterTermEvent
    /\ UNCHANGED <<event, flag, result, inputCh, readVars, sigVars, late, wg, notifier, bounds>>

\* The send on reqRead, which blocks while the buffered token is not taken.
RequestRead ==
    /\ pc = "push" /\ reqRead.tokens = 0
    /\ reqRead' = [reqRead EXCEPT !.tokens = 1]
    /\ pc' = "poll"
    /\ UNCHANGED <<event, flag, result, loopVars, notes, reader, rdEvent, sigVars, late, wg, notifier, bounds>>

-----------------------------------------------------------------------------
(* The deferred calls of ReadCode, last registered first.                  *)

\* close(stopRelayLateUpdates): each relay leaves at its next select.
StopRelayLateUpdates ==
    /\ pc = "stopLate" /\ pc' = "stopSignals"
    /\ UNCHANGED <<event, flag, result, loopVars, notes, readVars, sigVars, late, wg, notifier, bounds>>

\* Mutant: sigCh is left open.
StopSignals_leaveOpen ==
    /\ pc = "stopSignals" /\ pc' = "closeReader"
    /\ UNCHANGED <<event, flag, result, loopVars, notes, readVars, sigVars, late, wg, notifier, bounds>>

\* TTY.StopSignals: no more signals, sigCh closed.
StopSignals ==
    /\ pc = "stopSignals" /\ pc' = "closeReader"
    /\ sigOpen' = FALSE
    /\ UNCHANGED <<event, flag, result, loopVars, notes, readVars, sigCh, sigRelay, sigEvent, late, wg, notifier, bounds>>

\* wg.Done, with which each of the goroutines ends.
Done == wg' = wg - 1

\* TTY.CloseReader.  A read in progress is aborted: ErrStopped ends the reader,
\* unless it is inside an escape sequence, which then ends as an event.  A reader
\* that has its token but has not begun to read may see the stop byte or miss it:
\* the field t.r is not synchronised.
CloseReader ==
    /\ pc = "closeReader" /\ pc' = "closeReqRead"
    /\ \/ /\ reader \in {"read", "enter"}
          /\ reader' = "off" /\ Done /\ UNCHANGED <<rdEvent, keys>>
       \/ /\ reader = "read" /\ keys < MaxKeys
          /\ reader' = "input" /\ rdEvent' = "key" /\ keys' = keys + 1
          /\ UNCHANGED wg
       \/ /\ reader # "read" /\ UNCHANGED <<reader, rdEvent, keys, wg>>
    /\ UNCHANGED <<event, flag, result, loopVars, notes, reqRead, sigVars, late, notifier, sessions, signals, async>>

\* close(reqRead): a buffered token can still be received.
CloseReqRead ==
    /\ pc = "closeReqRead" /\ pc' = "wait"
    /\ reqRead' = [reqRead EXCEPT !.closed = TRUE]
    /\ UNCHANGED <<event, flag, result, loopVars, notes, reader, rdEvent, sigVars, late, wg, notifier, bounds>>

\* wg.Wait.
WaitGoroutines ==
    /\ pc = "wait" /\ wg = 0
    /\ pc' = "reset"
    /\ UNCHANGED <<event, flag, result, loopVars, notes, readVars, sigVars, late, wg, notifier, bounds>>

\* restore, AfterReadline and resetAllStates; EOF ends the interactive loop of the shell,
\* and an error its use of this editor.
Reset ==
    /\ pc = "reset"
    /\ notes' = 0
    /\ pc' = IF result \in {"eof", "error"} THEN "over" ELSE "idle"
    /\ result' = NoEvent
    /\ UNCHANGED <<event, flag, loopVars, readVars, sigVars, late, wg, notifier, bounds>>
-----------------------------------------------------------------------------
(* The goroutine that relays terminal events: for range a.reqRead { ... }  *)

mainUnchanged == UNCHANGED <<mainVars, notes>>

ReaderTakeToken ==
    /\ reader = "range" /\ reqRead.tokens = 1
    /\ reqRead' = [reqRead EXCEPT !.tokens = 0]
    /\ reader' = "enter"
    /\ mainUnchanged /\ UNCHANGED <<loopVars, rdEvent, sigVars, late, wg, notifier, bounds>>

ReaderLeave ==
    /\ reader = "range" /\ reqRead.tokens = 0 /\ reqRead.closed
    /\ reader' = "off" /\ Done
    /\ mainUnchanged /\ UNCHANGED <<loopVars, reqRead, rdEvent, sigVars, late, notifier, bounds>>

\* aTTY.ReadEvent: from here on CloseReader finds a read in progress.
ReaderBeginRead ==
    /\ reader = "enter" /\ reader' = "read"
    /\ mainUnchanged /\ UNCHANGED <<loopVars, reqRead, rdEvent, sigVars, late, wg, notifier, bounds>>

\* The terminal delivers an event, or the read fails with a recoverable or
\* with a fatal error; each is passed on as an event.
ReaderGotEvent ==
    /\ reader = "read" /\ keys < MaxKeys
    /\ keys' = keys + 1
    /\ rdEvent' \in TermEvents
    /\ reader' = "input"
    /\ mainUnchanged /\ UNCHANGED <<loopVars, reqRead, sigVars, late, wg, notifier, sessions, signals, async>>

ReaderInput ==
    /\ reader = "input" /\ Input(rdEvent)
    /\ IF rdEvent = "fatal" THEN reader' = "off" /\ Done ELSE reader' = "range" /\ UNCHANGED wg
    /\ rdEvent' = NoEvent
    /\ mainUnchanged /\ UNCHANGED <<redrawCh, redrawFull, wanted, returnCh, reqRead, sigVars, late, notifier, bounds>>

Reader == ReaderTakeToken \/ ReaderLeave \/ ReaderBeginRead \/ ReaderInput

-----------------------------------------------------------------------------
(* The goroutine that relays signals: for sig := range sigCh { Input(sig) } *)

\* The runtime delivers a signal to sigCh (its buffer of 256 is never the limit here).
SignalArrives ==
    /\ sigOpen /\ signals < MaxSignals
    /\ signals' = signals + 1
    /\ \E s \in Signals : sigCh' = Append(sigCh, s)
    /\ mainUnchanged /\ UNCHANGED <<loopVars, readVars, sigOpen, sigRelay, sigEvent, late, wg, notifier, sessions, keys, async>>

SigRelayTake ==
    /\ sigRelay = "range" /\ sigCh # <<>>
    /\ sigEvent' = Head(sigCh) /\ sigCh' = Tail(sigCh)
    /\ sigRelay' = "input"
    /\ mainUnchanged /\ UNCHANGED <<loopVars, readVars, sigOpen, late, wg, notifier, bounds>>

SigRelayInput ==
    /\ sigRelay = "input" /\ Input(sigEvent)
    /\ sigEvent' = NoEvent /\ sigRelay' = "range"
    /\ mainUnchanged /\ UNCHANGED <<redrawCh, redrawFull, wanted, returnCh, readVars, sigCh, sigOpen, late, wg, notifier, bounds>>

SigRelayLeave ==
    /\ sigRelay = "range" /\ sigCh = <<>> /\ ~sigOpen
    /\ sigRelay' = "off" /\ Done
    /\ mainUnchanged /\ UNCHANGED <<loopVars, readVars, sigCh, sigOpen, sigEvent, late, notifier, bounds>>

SigRelay == SigRelayTake \/ SigRelayInput \/ SigRelayLeave

-----------------------------------------------------------------------------
(* The goroutines that relay late updates: select between the source's     *)
(* channel and stopRelayLateUpdates.                                       *)

LateTake(r) ==
    /\ late[r].at = "range" /\ late[r].ready
    /\ late' = [late EXCEPT ![r] = [ready |-> FALSE, at |-> "redraw"]]
    /\ mainUnchanged /\ UNCHANGED <<loopVars, readVars, sigVars, wg, notifier, bounds>>

LateRedraw(r) ==
    /\ late[r].at = "redraw" /\ Redraw(FALSE)
    /\ late' = [late EXCEPT ![r].at = "range"]
    /\ mainUnchanged /\ UNCHANGED <<inputCh, returnCh, readVars, sigVars, wg, notifier, bounds>>

LateLeave(r) ==
    /\ late[r].at = "range" /\ pc \in Teardown \ {"stopLate"}
    /\ late' = [late EXCEPT ![r].at = "off"] /\ Done
    /\ mainUnchanged /\ UNCHANGED <<loopVars, readVars, sigVars, notifier, bounds>>

LateRelay(r) == LateTake(r) \/ LateRedraw(r) \/ LateLeave(r)

-----------------------------------------------------------------------------
(* Other goroutines of the shell, inside and between sessions.             *)

AsyncCall == async < MaxAsync /\ async' = async + 1

\* A prompt or the highlighter has a late update.
LateUpdate(r) ==
    /\ AsyncCall /\ ~late[r].ready
    /\ late' = [late EXCEPT ![r].ready = TRUE]
    /\ mainUnchanged /\ UNCHANGED <<loopVars, readVars, sigVars, wg, notifier, sessions, keys, signals>>

AsyncRedraw(full) ==
    /\ AsyncCall /\ Redraw(full)
    /\ mainUnchanged /\ UNCHANGED <<inputCh, returnCh, readVars, sigVars, late, wg, notifier, sessions, keys, signals>>

\* CommitCode or CommitEOF called outside the handler of an event.
CommitCode ==
    /\ AsyncCall
    /\ \E r \in Returns : Return(r)
    /\ mainUnchanged /\ UNCHANGED <<inputCh, redrawCh, redrawFull, wanted, readVars, sigVars, late, wg, notifier, sessions, keys, signals>>

\* Notify, first half: the note is appended under StateMutex ...
NotifyAppend ==
    /\ AsyncCall /\ ~notifier
    /\ notes' = notes + 1 /\ notifier' = TRUE
    /\ UNCHANGED <<mainVars, loopVars, readVars, sigVars, late, wg, sessions, keys, signals>>

\* Mutant: no redraw is requested for the note.
NotifyRedraw_forgotten ==
    /\ notifier /\ notifier' = FALSE
    /\ mainUnchanged /\ UNCHANGED <<loopVars, readVars, sigVars, late, wg, bounds>>

\* ... second half: then a redraw is requested.
NotifyRedraw ==
    /\ notifier /\ Redraw(FALSE)
    /\ notifier' = FALSE
    /\ mainUnchanged /\ UNCHANGED <<inputCh, returnCh, readVars, sigVars, late, wg, bounds>>

-----------------------------------------------------------------------------
Main ==
    \/ StartReader \/ StartSigRelay \/ StartLateRelays
    \/ Extract \/ Draw \/ Select \/ HandleSignal \/ HandleTermEvent \/ RequestRead
    \/ Poll \/ ConsumeNext
    \/ StopRelayLateUpdates \/ StopSignals \/ CloseReader \/ CloseReqRead
    \/ WaitGoroutines \/ Reset

Environment ==
    \/ ReadCode \/ SetupFails \/ ReaderGotEvent \/ SignalArrives
    \/ \E r \in Relays : LateUpdate(r)
    \/ \E full \in BOOLEAN : AsyncRedraw(full)
    \/ CommitCode \/ NotifyAppend

Next ==
    \/ Main \/ Reader \/ SigRelay \/ NotifyRedraw
    \/ \E r \in Relays : LateRelay(r)
    \/ Environment

Spec == Init /\ [][Next]_vars

\* Every goroutine that can run eventually does; the user, the terminal and the
\* operating system owe nothing.
Fairness ==
    /\ WF_vars(Main) /\ WF_vars(Reader) /\ WF_vars(SigRelay) /\ WF_vars(NotifyRedraw)
    /\ \A r \in Relays : WF_vars(LateRelay(r))

FairSpec == Spec /\ Fairness

-----------------------------------------------------------------------------
Running == {"extract", "draw", "select", "handle", "push", "poll", "next"}

\* A full redraw that was requested (SIGWINCH, RedrawFull) is never forgotten, whatever
\* other requests come before, between or after extracting the flag and drawing: the loop
\* does not wait for events with a full redraw due and nothing queued to wake it.
FullRedrawNotLost == pc = "select" /\ wanted => redrawCh

\* A note is never left unseen: while the loop waits and notes are pending, either a
\* redraw is queued or the goroutine inside Notify is about to queue it.
NotesNotLost == pc = "select" /\ notes > 0 => redrawCh \/ notifier

\* Neither kind of request is lost: what SIGWINCH, RedrawFull and Notify ask for is drawn
\* before the loop goes to sleep, or something is on its way that will wake it.
RequestsNotLost == FullRedrawNotLost /\ NotesNotLost

\* wg.Wait does its job: once ReadCode has restored the terminal, and until it starts them
\* again, no goroutine is left that could read the terminal or feed the loop, whatever way
\* each of them ends (a fatal error, an aborted read, a closed channel) and in whichever
\* order: every one that was started has been counted once and has counted itself off once.
\* Nor does the counter ever get below 0, which would end the shell.
NoGoroutineLeft ==
    /\ wg >= 0
    /\ pc \in {"reset", "idle", "over", "setup"} =>
         reader = "off" /\ sigRelay = "off" /\ \A r \in Relays : late[r].at = "off"

\* Run "runs the event loop, until the Return method is called" (comment on Run).
ReturnEndsRun == (HasReturned /\ pc \in Running) ~> pc \in Teardown

\* Only one thing can keep Run from noticing that Return was called: its handler blocked
\* on reqRead, which still holds a token (as the run EditorLoop_stuck shows it can).
ReturnNoticedUnlessBlocked ==
    (HasReturned /\ pc \in Running) ~> (pc \in Teardown \/ (pc = "push" /\ reqRead.tokens = 1))

\* Only two things can hold up ReadCode after Run has returned, when nobody empties
\* inputCh any more: a terminal read that began too late for CloseReader to abort it,
\* and an inputCh so full that a relay is stuck in Input.
TeardownWaitsOnlyForTerminal ==
    pc \in Teardown ~> (\/ pc \in {"idle", "over"}
                        \/ reader = "read"
                        \/ Len(inputCh) = InputChSize)
=============================================================================
