------------------------------ MODULE HistView ------------------------------
(***************************************************************************)
(* What a history cursor promises (the interface Cursor of                 *)
(* pkg/cli/histutil/store.go): it moves along a list of commands, and      *)
(* while it is in use nothing is added to the list.                        *)
(***************************************************************************)
EXTENDS Integers, FiniteSets

CONSTANT Texts

VARIABLES
    view,     \* the commands the cursor moves along, by numbers that increase with time
    before,   \* the numbers of the commands before the cursor
    on,       \* whether it is on the next command after them; otherwise it is in between,
              \* or over the edge
    got       \* what Get returns: a command, the end of the history or another error

viewVars == <<view, before, on, got>>

Oldest(S) == {q \in S : \A r \in S : q <= r}
Newest(S) == {q \in S : \A r \in S : q >= r}

Init == view = <<>> /\ before = {} /\ on = FALSE /\ got = <<"end">>

\* "The cursor is initially placed just after the last command in the store."
Open ==
    /\ IsFiniteSet(DOMAIN view') /\ DOMAIN view' \subseteq Nat /\ \A q \in DOMAIN view' : view'[q] \in Texts
    /\ before' = DOMAIN view' /\ on' = FALSE /\ got' = <<"end">>

\* "Prev moves the cursor to the previous command."
Prev ==
    /\ \/ \E q \in Newest(before) : before' = before \ {q} /\ on' = TRUE /\ got' = <<"nil", view[q]>>
       \/ before = {} /\ before' = {} /\ on' = FALSE /\ got' = <<"end">>
    /\ UNCHANGED view

\* "Next moves the cursor to the next command": past the one it is on.
Next ==
    /\ before' = before \cup (IF on THEN Oldest(DOMAIN view \ before) ELSE {})
    /\ \/ \E q \in Oldest(DOMAIN view \ before') : on' = TRUE /\ got' = <<"nil", view[q]>>
       \/ DOMAIN view = before' /\ on' = FALSE /\ got' = <<"end">>
    /\ UNCHANGED view

\* A call fails: the cursor stays, if perhaps off the command it was on.
Fail == on' \in {on, FALSE} /\ got' = <<"db">> /\ UNCHANGED <<view, before>>

\* A command is deleted; the cursor stays between the ones it was between.
Delete(q) ==
    /\ view' = [r \in DOMAIN view \ {q} |-> view[r]]
    /\ before' = before \ {q}
    /\ on' = (on /\ q \notin Oldest(DOMAIN view \ before))
    /\ UNCHANGED got

Step == Open \/ Prev \/ Next \/ Fail \/ \E q \in DOMAIN view : Delete(q)

Spec == Init /\ [][Step]_viewVars
=============================================================================
