------------------------------- MODULE Prompt -------------------------------
(***************************************************************************)
(* The asynchronous prompt (pkg/cli/prompt/prompt.go): a goroutine that    *)
(* computes the prompt on request, shows the old content marked as stale   *)
(* when the computation takes long, and announces each change on a channel *)
(* that the editor relays to its event loop while a read is active.        *)
(* The content of a prompt is the directory it was computed in.            *)
(***************************************************************************)
EXTENDS Integers, FiniteSets

CONSTANTS
    Dirs,         \* working directories
    Home,         \* the one the shell starts in
    Eagerness,    \* the value of Config.Eagerness
    MaxTriggers,  \* bound: calls of Trigger
    MaxCd         \* bound: changes of directory

ASSUME PromptAssumption ==
    Home \in Dirs /\ Eagerness \in Nat /\ MaxTriggers \in Nat /\ MaxCd \in Nat

Unknown == "???>"   \* unknownContent, and the lastWd of a new prompt
Contents == Dirs \cup {Unknown}

VARIABLES
    updateReq, ch,  \* the two channels of capacity 1
    last,           \* Prompt.last: content and whether StaleTransform was applied
    lastWd,         \* Prompt.lastWd
    pc, content,    \* the goroutine running loop, and its local variable
    compute, value, \* the goroutine computing the prompt, and what it found
    active, relay,  \* whether a read is active; the relay between receive and Redraw
    promptShown,          \* what the latest redraw showed
    wd,             \* the process's working directory
    requested,      \* history: an update was queued since the directory last changed
    triggers, cds

loopVars == <<pc, content, last>>
promptVars == <<updateReq, ch, lastWd, loopVars, compute, value, active, relay, promptShown, wd,
          requested, triggers, cds>>

Text == [of : Contents, stale : BOOLEAN]
Fresh(c) == [of |-> c, stale |-> FALSE]
StaleTransform(c) == [of |-> c, stale |-> TRUE]

PromptTypeOK ==
    /\ updateReq \in BOOLEAN /\ ch \in BOOLEAN
    /\ last \in Text /\ promptShown \in Text /\ content \in Contents /\ lastWd \in Contents
    /\ pc \in {"receive", "select", "sendStale", "await", "again", "sendAgain", "requeue", "sendFresh"}
    /\ compute \in {"idle", "running", "ready"} /\ value \in Contents
    /\ compute # "idle" <=> pc \in {"select", "sendStale", "await"}
    /\ active \in BOOLEAN /\ relay \in BOOLEAN /\ wd \in Dirs /\ requested \in BOOLEAN
    /\ triggers \in 0..MaxTriggers /\ cds \in 0..MaxCd

PromptInit ==
    /\ updateReq = FALSE /\ ch = FALSE
    /\ last = Fresh(Unknown) /\ promptShown = Fresh(Unknown)
    /\ pc = "receive" /\ content = Unknown /\ lastWd = Unknown
    /\ compute = "idle" /\ value = Unknown
    /\ active = FALSE /\ relay = FALSE
    /\ wd = Home /\ requested = FALSE /\ triggers = 0 /\ cds = 0

-----------------------------------------------------------------------------
(* loop                                                                    *)

env == <<lastWd, active, relay, promptShown, wd, requested, triggers, cds>>

\* A request is received and a goroutine is started to compute the prompt.
Receive ==
    /\ pc = "receive" /\ updateReq
    /\ updateReq' = FALSE
    /\ compute' = "running" /\ pc' = "select"
    /\ UNCHANGED <<ch, last, content, value, env>>

\* The computation was faster than the threshold ...
InTime ==
    /\ pc = "select" /\ compute = "ready"
    /\ compute' = "idle" /\ content' = value
    /\ last' = Fresh(value) /\ pc' = "sendFresh"
    /\ UNCHANGED <<updateReq, ch, value, env>>

\* Mutant: the loop does not wait for a computation that takes long.
Timeout_dontAwait ==
    /\ pc = "select"
    /\ last' = StaleTransform(content) /\ pc' = "sendFresh"
    /\ UNCHANGED <<updateReq, ch, content, compute, value, env>>

\* ... or it was not: the previous content is shown as stale.
Timeout ==
    /\ pc = "select"
    /\ last' = StaleTransform(content) /\ pc' = "sendStale"
    /\ UNCHANGED <<updateReq, ch, content, compute, value, env>>

\* content = <-ch
Await ==
    /\ pc = "await" /\ compute = "ready"
    /\ compute' = "idle" /\ content' = value /\ pc' = "again"
    /\ UNCHANGED <<updateReq, ch, last, value, env>>

\* Mutant: the request that was received is not put back.
Again_dropRequest ==
    /\ pc = "again"
    /\ updateReq' = FALSE
    /\ last' = (IF updateReq THEN StaleTransform(content) ELSE Fresh(content))
    /\ pc' = "sendFresh"
    /\ UNCHANGED <<ch, content, compute, value, env>>

\* Another request has come meanwhile: keep the prompt stale and put the request back.
Again ==
    /\ pc = "again"
    /\ IF updateReq
         THEN updateReq' = FALSE /\ last' = StaleTransform(content) /\ pc' = "sendAgain"
         ELSE UNCHANGED updateReq /\ last' = Fresh(content) /\ pc' = "sendFresh"
    /\ UNCHANGED <<ch, content, compute, value, env>>

\* The second half of update: p.ch <- struct{}{} blocks until the editor has received the
\* previous notification.
SendNotice ==
    /\ pc \in {"sendStale", "sendAgain", "sendFresh"} /\ ~ch
    /\ ch' = TRUE
    /\ pc' = CASE pc = "sendStale" -> "await" [] pc = "sendAgain" -> "requeue"
               [] OTHER -> "receive"
    /\ UNCHANGED <<updateReq, last, content, compute, value, env>>

\* queueUpdate at the end of the branch for another request.
Requeue ==
    /\ pc = "requeue" /\ pc' = "receive"
    /\ updateReq' = TRUE
    /\ UNCHANGED <<ch, last, content, compute, value, env>>

\* Config.Compute, in its own goroutine.
Compute ==
    /\ compute = "running" /\ compute' = "ready"
    /\ value' = wd
    /\ UNCHANGED <<updateReq, ch, loopVars, env>>

-----------------------------------------------------------------------------
(* Trigger, called by the editor.                                          *)

\* shouldUpdate compares with the directory it saw last.
ShouldUpdate == Eagerness >= 10 \/ (Eagerness >= 5 /\ wd # lastWd)

\* queueUpdate never blocks: a request already queued serves this one too.
Trigger(force) ==
    /\ active /\ triggers < MaxTriggers
    /\ triggers' = triggers + 1
    /\ updateReq' = (updateReq \/ force \/ ShouldUpdate)
    /\ requested' = (requested \/ force \/ ShouldUpdate)
    /\ lastWd' = IF ~force /\ Eagerness \in 5..9 THEN wd ELSE lastWd
    /\ UNCHANGED <<ch, loopVars, compute, value, active, relay, promptShown, wd, cds>>

\* A command or a key binding changes the directory.
Chdir ==
    /\ cds < MaxCd /\ cds' = cds + 1
    /\ wd' \in Dirs \ {wd} /\ requested' = FALSE
    /\ UNCHANGED <<updateReq, ch, lastWd, loopVars, compute, value, active, relay, promptShown, triggers>>

\* ReadCode begins with a forced trigger; between two reads nothing receives from ch.
BeginRead ==
    /\ ~active /\ active' = TRUE
    /\ triggers < MaxTriggers
    /\ triggers' = triggers + 1 /\ requested' = TRUE
    /\ updateReq' = TRUE
    /\ UNCHANGED <<ch, lastWd, loopVars, compute, value, relay, promptShown, wd, cds>>

EndRead ==
    /\ active /\ ~relay
    /\ active' = FALSE
    /\ UNCHANGED <<updateReq, ch, lastWd, loopVars, compute, value, relay, promptShown, wd, requested, triggers, cds>>

\* The editor's relay receives a notification, and the redraw it requests calls Get.
RelayReceive ==
    /\ active /\ ch /\ ~relay
    /\ ch' = FALSE /\ relay' = TRUE
    /\ UNCHANGED <<updateReq, lastWd, loopVars, compute, value, active, promptShown, wd, requested, triggers, cds>>

RelayRedraw ==
    /\ relay /\ relay' = FALSE
    /\ promptShown' = last
    /\ UNCHANGED <<updateReq, ch, lastWd, loopVars, compute, value, active, wd, requested, triggers, cds>>

PromptLoop == Receive \/ InTime \/ Timeout \/ Await \/ Again \/ SendNotice \/ Requeue

PromptNext ==
    \/ PromptLoop \/ Compute
    \/ \E force \in BOOLEAN : Trigger(force)
    \/ Chdir \/ BeginRead \/ EndRead \/ RelayReceive \/ RelayRedraw

PromptSpec == PromptInit /\ [][PromptNext]_promptVars

\* The goroutines make progress and Compute returns; nothing obliges the user.
PromptFairSpec ==
    /\ PromptSpec
    /\ WF_promptVars(PromptLoop) /\ WF_promptVars(Compute) /\ WF_promptVars(RelayReceive) /\ WF_promptVars(RelayRedraw)

-----------------------------------------------------------------------------
\* No update request is lost, whatever comes while the prompt is being computed: when the
\* loop has nothing left to do, the prompt is that of the directory in which an update was
\* last queued, and is not marked stale.  (Not every change of directory queues one: a
\* forced update does not set lastWd, so that a change back to the directory lastWd holds
\* goes unnoticed at eagerness 5.)
PromptFollowsDirectory ==
    pc = "receive" /\ ~updateReq /\ requested => last = Fresh(wd)

\* A change of the prompt is never missed by the editor: when everything is quiet the
\* screen shows the latest content.
ShownIsLast ==
    pc = "receive" /\ ~ch /\ ~relay => promptShown = last

\* While a read stays active, the prompt on the screen ends up fresh.
ScreenIsFresh == active /\ requested => promptShown = Fresh(wd)
=============================================================================
