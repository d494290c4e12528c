------------------------------ MODULE MCDaemon ------------------------------
(* What the behaviours of Daemon start with.                               *)
EXTENDS Daemon

\* An outdated daemon runs and time limits may expire, or no daemon runs yet, one process
\* may crash or one call fail, and the time limits suffice.
MCScenarios == {[outdated |-> TRUE, timely |-> FALSE, faults |-> 0],
                [outdated |-> FALSE, timely |-> TRUE, faults |-> 1]}
=============================================================================
