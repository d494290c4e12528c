------------------------------ MODULE MCForms ------------------------------
(* What runs the forms of a code chunk: a chunk of three pipelines, one    *)
(* form with redirections, a call of peach, or a port and what reads it.   *)
EXTENDS Pipeline, Redir, Peach, Ports

VARIABLE part   \* the one a behaviour is about; the others stay as they begin

\* A process in front of an endless writer in front of a builtin, then run-parallel in
\* front of a builtin, in the background, then a builtin alone.
MCChunk == << [bg |-> FALSE, forms |-> <<"external", "loop", "builtin">>],
              [bg |-> TRUE, forms |-> <<"parallel", "builtin">>],
              [bg |-> FALSE, forms |-> <<"builtin">>] >>

allVars == <<part, vars, redirVars, peachVars, portVars>>

MCInit ==
    /\ part \in {"chunk", "redirections", "peach", "ports"}
    /\ Init /\ RedirInit /\ PeachInit /\ PortsInit
    /\ part # "redirections" => ~inputIsPipe /\ ~outputIsPipe
    /\ part # "ports" => stage = "all"

ChunkStep(A) == part = "chunk" /\ A /\ UNCHANGED <<part, redirVars, peachVars, portVars>>
RedirectionsStep(A) == part = "redirections" /\ A /\ UNCHANGED <<part, vars, peachVars, portVars>>
PeachStep(A) == part = "peach" /\ A /\ UNCHANGED <<part, vars, redirVars, portVars>>
PortsStep(A) == part = "ports" /\ A /\ UNCHANGED <<part, vars, redirVars, peachVars>>

MCNext ==
    ChunkStep(Next) \/ RedirectionsStep(RedirNext) \/ PeachStep(PeachNext) \/ PortsStep(PortsNext)

MCSpec == MCInit /\ [][MCNext]_allVars

\* The fairness of Pipeline and of Peach, and that every goroutine at a port goes on.
MCFairSpec ==
    /\ MCSpec
    /\ WF_allVars(ChunkStep(Main))
    /\ \A f \in Forms : WF_allVars(ChunkStep(FormStep(f)))
    /\ \A p \in DOMAIN Chunk : WF_allVars(ChunkStep(BgJobDone(p)))
    /\ WF_allVars(PeachStep(~panicked /\ PeachMain))
    /\ \A i \in Items : WF_allVars(PeachStep(~panicked /\ Worker(i)))
    /\ WF_allVars(PortsStep(~portPanic /\ WriterStep)) /\ WF_allVars(PortsStep(~portPanic /\ BgPut))
    /\ WF_allVars(PortsStep(~portPanic /\ ValueReader))
    /\ WF_allVars(PortsStep(~portPanic /\ ByteReader))
    /\ WF_allVars(PortsStep(~portPanic /\ StageStep))

\* The types of the variables of pipelines, redirections and peach.
TypesOK == TypeOK /\ RedirTypeOK /\ PeachTypeOK

\* A chunk ends, with its endless writer and its background jobs, peach returns, and so do
\* both sides of a port unless one band is abandoned, whatever the forms and functions throw
\* and in whatever order.
FormsEnd ==
    <>[](/\ part = "chunk" => ChunkEnded
         /\ part = "peach" => PeachReturned
         /\ part = "ports" => PortsEnd)
=============================================================================
