------------------------------ MODULE HistWalk ------------------------------
(***************************************************************************)
(* Walking through the command history: the cursor that leaves out         *)
(* duplicates (pkg/cli/histutil/dedup_cursor.go) over the hybrid cursor,   *)
(* and the mode that drives it (pkg/cli/modes/histwalk.go).  Each call of  *)
(* the hybrid cursor is a step, since other sessions change the database   *)
(* between two calls.                                                      *)
(***************************************************************************)
EXTENDS HistCursor, SequencesExt

VARIABLES
    mode,      \* "off", "starting" (in NewHistwalk), "prev" (in Prev), or "on"
    current, stack,   \* the fields of dedupCursor; current is -1 or an index from 0
    shown,     \* the text of the pending code
    reported,  \* the error the last walk returned
    deleted    \* whether a command has been deleted since the walk began

walkVars == <<mode, current, stack, shown, reported>>
allVars == <<vars, walkVars, deleted>>

occ == {stack[i] : i \in 1..Len(stack)}

WalkTypeOK ==
    /\ TypeOK
    /\ mode \in {"off", "starting", "prev", "on"}
    /\ stack \in Seq(Texts) /\ current \in -1..Len(stack)
    /\ shown \in Texts \cup {NoText}
    /\ reported \in {"nil", "end", "db"} /\ deleted \in BOOLEAN

WalkInit ==
    /\ Init
    /\ mode = "off" /\ current = 0 /\ stack = <<>> /\ shown = NoText /\ reported = "nil"
    /\ deleted = FALSE

\* NewHistwalk: a new cursor, and Prev.
Start(p) ==
    /\ mode = "off" /\ mode' = "starting"
    /\ Open(p)
    /\ current' = 0 /\ stack' = <<>> /\ shown' = NoText /\ reported' = "nil" /\ deleted' = FALSE

\* Mutant: a command is shown again if it was shown before the last one.
Seen_lastOnly(t) == stack # <<>> /\ Last(stack) = t

\* c.occ[cmd.Text]
Seen(t) == t \in occ

\* Mutant: a failed call ends the history.
AfterPrev_errorIsEnd(err, newCurrent, newStack) ==
    /\ stack' = newStack /\ reported' = IF err = "nil" THEN err ELSE "end"
    /\ mode' = IF mode = "starting" /\ err # "nil" THEN "off" ELSE "on"
    /\ current' = IF mode = "prev" /\ err = "end" THEN newCurrent - 1 ELSE newCurrent
    /\ shown' = IF err = "nil" THEN newStack[newCurrent + 1] ELSE shown

\* The end of Prev: NewHistwalk fails on an error; walk undoes an ErrEndOfHistory with
\* Next, and shows the command otherwise.
AfterPrev(err, newCurrent, newStack) ==
    /\ stack' = newStack /\ reported' = err
    /\ mode' = IF mode = "starting" /\ err # "nil" THEN "off" ELSE "on"
    /\ current' = IF mode = "prev" /\ err = "end" THEN newCurrent - 1 ELSE newCurrent
    /\ shown' = IF err = "nil" THEN newStack[newCurrent + 1] ELSE shown

\* One iteration of the loop in dedupCursor.Prev.
PrevStep(fails) ==
    /\ mode \in {"starting", "prev"}
    /\ Prev(fails)
    /\ LET err == GetErr(cursor')
           text == GetText(cursor')
       IN \/ err # "nil" /\ AfterPrev(err, Len(stack), stack)
          \/ err = "nil" /\ ~Seen(text) /\ AfterPrev(err, Len(stack), Append(stack, text))
          \/ err = "nil" /\ Seen(text) /\ UNCHANGED walkVars
    /\ UNCHANGED deleted

\* histwalk.Prev: within the stack at once, otherwise by the loop.
WalkPrev ==
    /\ mode = "on"
    /\ IF current < Len(stack) - 1 THEN AfterPrev("nil", current + 1, stack)
                                   ELSE mode' = "prev" /\ UNCHANGED <<current, stack, shown, reported>>
    /\ UNCHANGED <<vars, deleted>>

\* Mutant: the end of the history is not undone.
WalkNext_noUndo ==
    /\ mode = "on"
    /\ LET down == IF current >= 0 THEN current - 1 ELSE current IN
         IF down < 0
         THEN reported' = "end" /\ current' = down /\ UNCHANGED shown
         ELSE current' = down /\ reported' = "nil" /\ shown' = stack[down + 1]
    /\ UNCHANGED <<vars, mode, stack, deleted>>

\* histwalk.Next: over the edge it is undone with Prev, which stays within the stack.
WalkNext ==
    /\ mode = "on"
    /\ LET down == IF current >= 0 THEN current - 1 ELSE current IN
         IF down < 0
         THEN reported' = "end" /\ current' = down + 1 /\ UNCHANGED shown
         ELSE current' = down /\ reported' = "nil" /\ shown' = stack[down + 1]
    /\ UNCHANGED <<vars, mode, stack, deleted>>

\* Accept, or a key the mode does not handle: the mode is left.
Leave ==
    /\ mode = "on" /\ mode' = "off"
    /\ UNCHANGED <<vars, current, stack, shown, reported, deleted>>

\* Other sessions at any time; this one between two key presses.
Elsewhere ==
    \/ \E t \in Texts : AddOther(t) /\ UNCHANGED <<walkVars, deleted>>
    \/ \E t \in Texts : mode \in {"off", "on"} /\ AddOwn(t) /\ UNCHANGED <<walkVars, deleted>>
    \/ \E q \in 1..MaxSeq : Delete(q) /\ deleted' = TRUE /\ UNCHANGED walkVars
    \/ mode \in {"off", "on"} /\ FastForward /\ UNCHANGED <<walkVars, deleted>>

WalkNextState ==
    \/ Elsewhere
    \/ \E p \in Searches : Start(p)
    \/ \E fails \in BOOLEAN : PrevStep(fails)
    \/ WalkPrev \/ WalkNext \/ Leave

WalkSpec == WalkInit /\ [][WalkNextState]_allVars

\* The editor's goroutine goes on with a walk it has begun; every call returns.
FairWalkSpec == WalkSpec /\ WF_allVars(\E fails \in BOOLEAN : PrevStep(fails))

-----------------------------------------------------------------------------
\* The texts st are those of the commands v from the number n on, newest first, each once.
NewestFirstFrom(v, n, st) ==
    /\ {st[i] : i \in 1..Len(st)} = {v[q] : q \in {p \in DOMAIN v : p >= n}}
    /\ \A i, j \in 1..Len(st) : i < j =>
         /\ st[i] # st[j]
         /\ \E p \in DOMAIN v : v[p] = st[i] /\ \A q \in DOMAIN v : v[q] = st[j] => q < p

\* As long as no command is deleted, the walk offers exactly the commands it should, in
\* order and each once, whatever is added meanwhile, and however many calls of the
\* database fail on the way: a failed call is retried by the next Prev.
WalkIsFaithful ==
    mode # "off" /\ ~deleted =>
      \E n \in -1..cursor.upper + Len(cursor.cmds) + 1 : NewestFirstFrom(Commands(cursor), n, stack)

\* Prev, also the one that begins the walk, reports the end of the history only when all
\* commands have been offered: not because a call has failed, nor because other sessions
\* have added commands meanwhile.
EndIsTheEnd ==
    [][(mode \in {"starting", "prev"} /\ mode' # mode /\ reported' = "end" /\ ~deleted)
         => occ = {Commands(cursor)[q] : q \in Places(cursor)}]_allVars

\* The pending code is the command the cursor is at; if the cursor is at a failed call,
\* it is still the last command that was found.
ShownIsCurrent ==
    mode = "on" => /\ current >= 0
                   /\ shown = IF current < Len(stack) THEN stack[current + 1] ELSE Last(stack)

\* The walk offers what it should and shows what it is at.
WalkIsExact == WalkIsFaithful /\ ShownIsCurrent

\* A walk ends: Prev skips finitely many duplicates, even while other sessions go on
\* adding commands and others are deleted.
PrevBusy == mode \in {"starting", "prev"}
=============================================================================
