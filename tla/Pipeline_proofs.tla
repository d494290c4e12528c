-------------------------- MODULE Pipeline_proofs --------------------------
(***************************************************************************)
(* Proofs about Pipeline, for every chunk, every buffer size, with pipe    *)
(* creation failing and interrupts coming at any moment.                   *)
(***************************************************************************)
EXTENDS Pipeline, TLAPS

\* Where the goroutine that runs the chunk is, it is at a pipeline of the chunk.
AtPipeline == pc \in {"check", "spawn", "wait"} => cur \in DOMAIN Chunk

\* The order of the four steps by which a form says that it has gone: each step
\* finds the ones before it done.
GoneInOrder ==
    \A f \in Forms : InputIsPipe(f) =>
        /\ form[f] = "sendStop" => sendError[InputOf(f)] = "gone"
        /\ form[f] = "closeIn" => readerGone[InputOf(f)]

\* What a form can have thrown.
ExceptionHasCause ==
    \A f \in Forms :
        /\ form[f] = "killed" => OutputIsPipe(f) /\ ~readOpen[f]
        /\ Kind(f) # "parallel" => exc[f] \in {"ok", "fail", "gone"}
        /\ exc[f] = "fail" => f \in own
        /\ exc[f] = "gone" => OutputIsPipe(f)

\* The cleanup states that only a form with an input pipe passes through.
CleanupHasInput ==
    \A f \in Forms : form[f] \in {"sendError", "sendStop", "readerGone", "closeIn"} => InputIsPipe(f)

BackChannel == GoneInOrder /\ CleanupHasInput /\ StopCarriesError /\ BrokenPipeIsFlagged

-----------------------------------------------------------------------------
\* The shape of the chunk, in the terms the proofs use.
LEMMA ChunkShape ==
    /\ Len(Chunk) \in Nat /\ DOMAIN Chunk = 1..Len(Chunk)
    /\ \A p \in DOMAIN Chunk :
         /\ Len(Chunk[p].forms) \in Nat
         /\ DOMAIN Chunk[p].forms = 1..Len(Chunk[p].forms)
<1> DEFINE R == [bg : BOOLEAN, forms : Seq(Kinds)]
<1>1. Chunk \in Seq(R)
  BY PipelineAssumption
<1>2. \A r \in R : r.forms \in Seq(Kinds)
  OBVIOUS
<1> HIDE DEF R
<1>3. \A p \in DOMAIN Chunk : Chunk[p] \in R
  BY <1>1
<1>4. \A s \in Seq(Kinds) : Len(s) \in Nat /\ DOMAIN s = 1..Len(s)
  OBVIOUS
<1> QED
  BY <1>1, <1>2, <1>3, <1>4

\* A form is a pair of a pipeline and a position in it.
LEMMA FormPairs ==
    ASSUME NEW f \in Forms
    PROVE  /\ f = <<f[1], f[2]>>
           /\ f[1] \in DOMAIN Chunk
           /\ f[2] \in DOMAIN Chunk[f[1]].forms
           /\ f[2] \in 1..Len(Chunk[f[1]].forms)
<1>1. PICK p \in DOMAIN Chunk : f \in {p} \X DOMAIN Chunk[p].forms
  BY DEF Forms
<1>2. f = <<f[1], f[2]>> /\ f[1] = p /\ f[2] \in DOMAIN Chunk[p].forms
  BY <1>1
<1>3. DOMAIN Chunk[p].forms = 1..Len(Chunk[p].forms)
  BY ChunkShape
<1> QED
  BY <1>2, <1>3

\* A form's input pipe is the output pipe of the form before it.
LEMMA InputOfForm ==
    ASSUME NEW f \in Forms, InputIsPipe(f)
    PROVE  InputOf(f) \in Forms
<1>1. DOMAIN Chunk[f[1]].forms = 1..Len(Chunk[f[1]].forms) /\ Len(Chunk[f[1]].forms) \in Nat
  BY FormPairs, ChunkShape
<1>2. f[2] - 1 \in 1..Len(Chunk[f[1]].forms)
  BY <1>1, FormPairs DEF InputIsPipe
<1>3. f[2] - 1 \in DOMAIN Chunk[f[1]].forms
  BY <1>1, <1>2
<1> QED
  BY <1>3, FormPairs DEF Forms, InputOf

-----------------------------------------------------------------------------
\* Every action of Pipeline keeps its variables within their types.
THEOREM PipelineTypeCorrect == Spec => [](TypeOK /\ AtPipeline)
<1>1. Init => TypeOK /\ AtPipeline
  <2> SUFFICES ASSUME Init PROVE TypeOK /\ AtPipeline
    OBVIOUS
  <2>1. ControlType /\ AtPipeline
    <3>1. Chunk # <<>> => 1 \in DOMAIN Chunk
      BY PipelineAssumption
    <3>2. pc \in {"check", "after"} /\ (pc = "check" => Chunk # <<>>)
      BY DEF Init
    <3>3. cur = 1 /\ 1 \in 1..Len(Chunk) + 1
      BY ChunkShape DEF Init
    <3>4. spawned = 0 /\ bgWaiting = {} /\ numBgJobs = 0 /\ canceled = FALSE /\ result = "running"
      BY DEF Init
    <3>5. AtPipeline
      BY <3>1, <3>2, <3>3, Zenon DEF AtPipeline
    <3>6. cur \in 1..Len(Chunk) + 1
      BY <3>3, Zenon
    <3>7. pc \in {"check", "spawn", "wait", "after", "end"}
      BY <3>2, Zenon
    <3>8. spawned \in Nat /\ numBgJobs \in Int
      BY <3>4
    <3>9. bgWaiting \subseteq DOMAIN Chunk
      BY <3>4, Zenon
    <3>10. canceled \in BOOLEAN
      BY <3>4, Zenon
    <3>11. result \in {"running", "ok", "fail", "interrupted", "pipefail"}
      BY <3>4, Zenon
    <3>12. ControlType
      BY <3>6, <3>7, <3>8, <3>9, <3>10, <3>11, Zenon DEF ControlType
    <3> QED
      BY <3>5, <3>12
  <2>2. FormType
    BY DEF Init, FormType, FormStates, Excs
  <2>3. CounterType
    BY DEF Init, CounterType
  <2>4. BackChannelType
    BY DEF Init, BackChannelType
  <2> QED
    BY <2>1, <2>2, <2>3, <2>4 DEF TypeOK
<1>2. TypeOK /\ AtPipeline /\ [Next]_vars => TypeOK' /\ AtPipeline'
  <2> SUFFICES ASSUME TypeOK, AtPipeline, [Next]_vars
               PROVE  TypeOK' /\ AtPipeline'
    OBVIOUS
  <2> USE DEF TypeOK
  <2>1. CASE Start
    <3>1. ControlType' /\ AtPipeline'
      BY <2>1 DEF Start, ControlType, AtPipeline
    <3> QED
      BY <2>1, <3>1 DEF Start, formVars, pipeVars, FormType, CounterType, BackChannelType
  <2>2. CASE SpawnForm
    <3>1. ControlType' /\ AtPipeline'
      BY <2>2, ChunkShape DEF SpawnForm, NextPipeline, ControlType, AtPipeline
    <3>2. FormType'
      BY <2>2 DEF SpawnForm, FormType, FormStates
    <3> QED
      BY <2>2, <3>1, <3>2 DEF SpawnForm, pipeVars, CounterType, BackChannelType
  <2>3. CASE PipeFails
    <3>1. ControlType' /\ AtPipeline'
      BY <2>3 DEF PipeFails, ControlType, AtPipeline
    <3> QED
      BY <2>3, <3>1 DEF PipeFails, formVars, pipeVars, FormType, CounterType, BackChannelType
  <2>4. CASE WaitForms
    <3>1. ControlType' /\ AtPipeline'
      BY <2>4, ChunkShape DEF WaitForms, NextPipeline, ControlType, AtPipeline
    <3> QED
      BY <2>4, <3>1 DEF WaitForms, formVars, pipeVars, FormType, CounterType, BackChannelType
  <2>5. CASE AfterChunk
    <3>1. ControlType' /\ AtPipeline'
      BY <2>5 DEF AfterChunk, ControlType, AtPipeline
    <3> QED
      BY <2>5, <3>1 DEF AfterChunk, formVars, pipeVars, FormType, CounterType, BackChannelType
  <2>6. CASE Interrupt
    <3>1. ControlType' /\ AtPipeline'
      BY <2>6 DEF Interrupt, mainVars, ControlType, AtPipeline
    <3> QED
      BY <2>6, <3>1 DEF Interrupt, formVars, pipeVars, FormType, CounterType, BackChannelType
  <2>7. ASSUME NEW p \in DOMAIN Chunk, BgJobDone(p) PROVE TypeOK' /\ AtPipeline'
    <3>1. ControlType' /\ AtPipeline'
      BY <2>7 DEF BgJobDone, mainVars, ControlType, AtPipeline
    <3> QED
      BY <2>7, <3>1 DEF BgJobDone, formVars, pipeVars, FormType, CounterType, BackChannelType
  <2>8. ASSUME NEW f \in Forms, FormStep(f) PROVE TypeOK' /\ AtPipeline'
    <3>1. ControlType' /\ AtPipeline'
      <4>1. UNCHANGED <<mainVars, bgWaiting, numBgJobs, canceled>>
        BY <2>8 DEF FormStep, Put, PutStopped, WriteBytes, WriteBroken, Reap, Read, Finish,
             Record, StoreSendError, CloseSendStop, StoreReaderGone, CloseIn, CloseOut,
             formsOnly, cleanup
      <4> QED
        BY <4>1 DEF mainVars, ControlType, AtPipeline
    <3>2. FormType'
      BY <2>8 DEF FormStep, Put, PutStopped, WriteBytes, WriteBroken, Reap, Read, Finish,
           Record, StoreSendError, CloseSendStop, StoreReaderGone, CloseIn, CloseOut,
           Return, formsOnly, cleanup, FormType, FormStates, Excs
    <3>3. BackChannelType'
      BY <2>8 DEF FormStep, Put, PutStopped, WriteBytes, WriteBroken, Reap, Read, Finish,
           Record, StoreSendError, CloseSendStop, StoreReaderGone, CloseIn, CloseOut,
           pipeVars, BackChannelType
    <3>4. CounterType'
      <4>1. CASE Put(f)
        BY <4>1 DEF Put, Work, CounterType
      <4>2. CASE PutStopped(f)
        BY <4>2 DEF PutStopped, pipeVars, CounterType
      <4>3. CASE WriteBytes(f)
        BY <4>3 DEF WriteBytes, Work, CounterType
      <4>4. CASE Read(f)
        <5>1. InputOf(f) \in Forms
          BY <4>4, InputOfForm DEF Read
        <5>2. vals' \in [Forms -> Nat] /\ bytes' \in [Forms -> Nat]
          BY <4>4, <5>1 DEF Read, CounterType
        <5> QED
          BY <4>4, <5>2 DEF Read, Work, CounterType
      <4>5. CASE UNCHANGED <<gone, work, vals, bytes>>
        BY <4>5 DEF CounterType
      <4> QED
        BY <2>8, <4>1, <4>2, <4>3, <4>4, <4>5
        DEF FormStep, WriteBroken, Reap, Finish, Record, StoreSendError, CloseSendStop,
            StoreReaderGone, CloseIn, CloseOut, cleanup, pipeVars
    <3> QED
      BY <3>1, <3>2, <3>3, <3>4
  <2>9. CASE UNCHANGED vars
    BY <2>9 DEF vars, mainVars, formVars, pipeVars, ControlType, AtPipeline, FormType,
         CounterType, BackChannelType
  <2> QED
    BY <2>1, <2>2, <2>3, <2>4, <2>5, <2>6, <2>7, <2>8, <2>9 DEF Next, Main
<1> QED
  BY <1>1, <1>2, PTL DEF Spec

-----------------------------------------------------------------------------
\* The order of the back channel: whoever finds sendStop closed finds the error stored,
\* and a byte pipe is broken only after its readerGone flag has been set.
THEOREM BackChannelSound == Spec => [](StopCarriesError /\ BrokenPipeIsFlagged)
<1>1. Init => BackChannel
  BY DEF Init, BackChannel, GoneInOrder, CleanupHasInput, StopCarriesError, BrokenPipeIsFlagged
<1>2. TypeOK /\ BackChannel /\ [Next]_vars => BackChannel'
  <2> SUFFICES ASSUME TypeOK, BackChannel, [Next]_vars PROVE BackChannel'
    OBVIOUS
  <2> USE DEF TypeOK, FormType, BackChannelType, BackChannel, GoneInOrder, CleanupHasInput,
              StopCarriesError, BrokenPipeIsFlagged
  <2>1. CASE UNCHANGED <<form, pipeVars>>
    BY <2>1 DEF pipeVars
  <2>2. CASE SpawnForm
    BY <2>2 DEF SpawnForm, pipeVars
  <2>3. ASSUME NEW f \in Forms, FormStep(f) PROVE BackChannel'
    <3>1. CASE Put(f) \/ WriteBytes(f) \/ Read(f)
      BY <3>1 DEF Put, WriteBytes, Read
    <3>2. CASE PutStopped(f) \/ WriteBroken(f) \/ Reap(f) \/ Finish(f)
      BY <3>2 DEF PutStopped, WriteBroken, Reap, Finish, Return, pipeVars
    <3>3. CASE Record(f)
      BY <3>3 DEF Record, pipeVars
    <3>4. CASE StoreSendError(f)
      BY <3>4, InputOfForm DEF StoreSendError
    <3>5. CASE CloseSendStop(f)
      BY <3>5, InputOfForm DEF CloseSendStop
    <3>6. CASE StoreReaderGone(f)
      BY <3>6, InputOfForm DEF StoreReaderGone
    <3>7. CASE CloseIn(f)
      BY <3>7, InputOfForm DEF CloseIn
    <3>8. CASE CloseOut(f)
      BY <3>8 DEF CloseOut
    <3> QED
      BY <2>3, <3>1, <3>2, <3>3, <3>4, <3>5, <3>6, <3>7, <3>8 DEF FormStep
  <2>4. CASE Start \/ PipeFails \/ WaitForms \/ AfterChunk \/ Interrupt
    BY <2>1, <2>4 DEF Start, PipeFails, WaitForms, AfterChunk, Interrupt, formVars
  <2>5. ASSUME NEW p \in DOMAIN Chunk, BgJobDone(p) PROVE BackChannel'
    BY <2>1, <2>5 DEF BgJobDone, formVars
  <2>6. CASE UNCHANGED vars
    BY <2>1, <2>6 DEF vars, formVars
  <2> QED
    BY <2>2, <2>3, <2>4, <2>5, <2>6 DEF Next, Main
<1>3. BackChannel => StopCarriesError /\ BrokenPipeIsFlagged
  BY DEF BackChannel
<1> QED
  BY <1>1, <1>2, <1>3, PipelineTypeCorrect, PTL DEF Spec

-----------------------------------------------------------------------------
\* A pipeline never throws because a later form ended first: what is recorded for a form
\* other than run-parallel is an exception of its own.
THEOREM NoFalseFailureTheorem == Spec => []NoFalseFailure
<1> DEFINE Inv == ExceptionHasCause /\ NoFalseFailure
<1>1. Init => Inv
  BY DEF Init, ExceptionHasCause, NoFalseFailure
<1>2. TypeOK /\ BrokenPipeIsFlagged /\ Inv /\ [Next]_vars => Inv'
  <2> SUFFICES ASSUME TypeOK, BrokenPipeIsFlagged, Inv, [Next]_vars PROVE Inv'
    OBVIOUS
  <2> USE DEF TypeOK, FormType, BackChannelType, ExceptionHasCause, NoFalseFailure
  <2>1. CASE UNCHANGED <<form, exc, own, excs, readOpen>>
    BY <2>1
  <2>2. CASE SpawnForm
    BY <2>2 DEF SpawnForm, pipeVars
  <2>3. ASSUME NEW f \in Forms, FormStep(f) PROVE Inv'
    <3>1. CASE Put(f) \/ WriteBytes(f) \/ Read(f)
      BY <3>1, <2>1 DEF Put, WriteBytes, Read, formsOnly
    <3>2. CASE PutStopped(f)
      BY <3>2 DEF PutStopped, Return, formsOnly, pipeVars
    <3>3. CASE WriteBroken(f)
      BY <3>3 DEF WriteBroken, Return, formsOnly, pipeVars
    <3>4. CASE Reap(f)
      BY <3>4 DEF Reap, Return, formsOnly, pipeVars, BrokenPipeIsFlagged
    <3>5. CASE Finish(f)
      BY <3>5 DEF Finish, Return, formsOnly, pipeVars
    <3>6. CASE Record(f)
      BY <3>6 DEF Record, Suppressed, cleanup, pipeVars
    <3>7. CASE StoreSendError(f) \/ CloseSendStop(f) \/ StoreReaderGone(f) \/ CloseOut(f)
      BY <3>7 DEF StoreSendError, CloseSendStop, StoreReaderGone, CloseOut, cleanup
    <3>8. CASE CloseIn(f)
      BY <3>8 DEF CloseIn, cleanup
    <3> QED
      BY <2>3, <3>1, <3>2, <3>3, <3>4, <3>5, <3>6, <3>7, <3>8 DEF FormStep
  <2>4. CASE Start \/ PipeFails \/ WaitForms \/ AfterChunk \/ Interrupt
    BY <2>1, <2>4 DEF Start, PipeFails, WaitForms, AfterChunk, Interrupt, formVars, pipeVars
  <2>5. ASSUME NEW p \in DOMAIN Chunk, BgJobDone(p) PROVE Inv'
    BY <2>1, <2>5 DEF BgJobDone, formVars, pipeVars
  <2>6. CASE UNCHANGED vars
    BY <2>1, <2>6 DEF vars, formVars, pipeVars
  <2> QED
    BY <2>2, <2>3, <2>4, <2>5, <2>6 DEF Next, Main
<1>3. Inv => NoFalseFailure
  OBVIOUS
<1> QED
  BY <1>1, <1>2, <1>3, PipelineTypeCorrect, BackChannelSound, PTL DEF Spec

-----------------------------------------------------------------------------
\* For every chunk, a form learns that its reader has gone, and is not reported as failed
\* because of it (the deferred part of pipelineOp.exec).
THEOREM ReaderGoneTheorem == Spec => []ReaderGoneIsNoFailure
<1>1. NoFalseFailure /\ StopCarriesError => ReaderGoneIsNoFailure
  BY DEF ReaderGoneIsNoFailure
<1> QED
  BY <1>1, NoFalseFailureTheorem, BackChannelSound, PTL

-----------------------------------------------------------------------------
(* What the chunk returns.                                                 *)

\* Until form.exec has returned a form has neither thrown nor recorded anything; after the
\* deferred function has looked at it, an exception of its own, and the composite one of
\* run-parallel, is recorded, and nothing else ever is.
Recorded ==
    \A f \in Forms :
        /\ form[f] \in {"none", "exec", "killed"} => exc[f] = "ok" /\ f \notin own
        /\ form[f] \in {"none", "exec", "killed", "record"} => excs[f] = "ok"
        /\ f \in own => exc[f] = "fail"
        /\ form[f] \notin {"none", "exec", "killed", "record"} /\ exc[f] \in {"fail", "composite"}
             => excs[f] = exc[f]
        /\ form[f] = "killed" => Kind(f) = "external"
        /\ Kind(f) = "parallel" => exc[f] \in {"ok", "composite"}
        /\ excs[f] \in {"ok", exc[f]}

\* The forms ahead of where the chunk is have not been started.
AheadNotStarted ==
    \A f \in Forms :
        (f[1] > cur \/ (f[1] = cur /\ pc = "check") \/ (f[1] = cur /\ pc = "spawn" /\ f[2] > spawned))
            => form[f] = "none"

\* The foreground forms of the pipelines behind are done and have recorded nothing; when the
\* chunk ends in the middle, those of the pipeline where it ends are done or were never begun.
BehindIsDone ==
    \A f \in Forms :
        /\ Foreground(f) /\ f[1] < cur => form[f] = "done" /\ excs[f] = "ok"
        /\ Foreground(f) /\ f[1] = cur /\ pc = "end" => result = "pipefail" \/ form[f] \in {"none", "done"}

\* What decides the result.
ResultHasCause ==
    /\ pc # "end" => result = "running"
    /\ pc = "after" \/ result = "ok" => cur = Len(Chunk) + 1
    /\ pc = "wait" => Chunk[cur].bg = FALSE
    /\ result = "fail" => \E f \in Forms : Foreground(f) /\ (f \in own \/ exc[f] = "composite")
    /\ InterruptNotSwallowed

\* A pipeline is run in the background or is not.
LEMMA BgOrNot == \A p \in DOMAIN Chunk : Chunk[p].bg \in BOOLEAN
<1> DEFINE R == [bg : BOOLEAN, forms : Seq(Kinds)]
<1>1. Chunk \in Seq(R)
  BY PipelineAssumption
<1>2. \A r \in R : r.bg \in BOOLEAN
  BY Zenon
<1> HIDE DEF R
<1>3. \A p \in DOMAIN Chunk : Chunk[p] \in R
  BY <1>1
<1> QED
  BY <1>2, <1>3, Zenon

\* Nothing but the loop over the forms starts one, and it starts them in order.
LEMMA AheadAlways == Spec => []AheadNotStarted
<1>1. Init => AheadNotStarted
  BY DEF Init, AheadNotStarted
<1>2. TypeOK /\ AtPipeline /\ AheadNotStarted /\ [Next]_vars => AheadNotStarted'
  <2> SUFFICES ASSUME TypeOK, AtPipeline, AheadNotStarted, [Next]_vars, NEW g \in Forms,
                      (g[1] > cur \/ (g[1] = cur /\ pc = "check") \/ (g[1] = cur /\ pc = "spawn" /\ g[2] > spawned))'
               PROVE  form'[g] = "none"
    BY DEF AheadNotStarted
  <2>0. g[1] \in Nat /\ g[2] \in Nat /\ g = <<g[1], g[2]>> /\ g[2] > 0
    BY FormPairs, ChunkShape
  <2>a. cur \in Nat /\ spawned \in Nat /\ Len(Chunk) \in Nat /\ form \in [Forms -> FormStates]
    BY ChunkShape DEF TypeOK, ControlType, FormType
  <2>1. CASE Start
    <3>1. UNCHANGED <<cur, form>> /\ pc = "check" /\ pc' \in {"end", "spawn"}
      BY <2>1 DEF Start, formVars
    <3> QED
      BY <3>1, <2>0, <2>a DEF AheadNotStarted
  <2>2. CASE SpawnForm
    <3>1. /\ form' = [form EXCEPT ![<<cur, spawned + 1>>] = "exec"] /\ pc = "spawn"
          /\ \/ UNCHANGED <<cur, pc>> /\ spawned' = spawned + 1
             \/ cur' = cur + 1 /\ pc' \in {"after", "check"}
             \/ pc' = "wait" /\ cur' = cur
      BY <2>2 DEF SpawnForm, NextPipeline
    <3>2. g # <<cur, spawned + 1>> /\ form[g] = "none"
      BY <3>1, <2>0, <2>a DEF AheadNotStarted
    <3> QED
      BY <3>1, <3>2, <2>a
  <2>3. CASE PipeFails \/ AfterChunk
    <3>1. UNCHANGED <<cur, form>> /\ pc' = "end"
      BY <2>3 DEF PipeFails, AfterChunk, formVars
    <3> QED
      BY <3>1 DEF AheadNotStarted
  <2>4. CASE WaitForms
    <3>1. form' = form /\ (cur' = cur + 1 \/ (cur' = cur /\ pc' = "end"))
      BY <2>4 DEF WaitForms, NextPipeline, formVars
    <3>2. g[1] > cur
      BY <3>1, <2>0, <2>a
    <3> QED
      BY <3>1, <3>2 DEF AheadNotStarted
  <2>5. ASSUME UNCHANGED <<cur, pc, spawned>>, form[g] = "none" => form'[g] = "none"
        PROVE  form'[g] = "none"
    BY <2>5 DEF AheadNotStarted
  <2>6. ASSUME NEW f \in Forms, FormStep(f) PROVE form'[g] = "none"
    <3>1. UNCHANGED <<cur, pc, spawned>>
      BY <2>6 DEF FormStep, Put, PutStopped, WriteBytes, WriteBroken, Reap, Read, Finish,
           Record, StoreSendError, CloseSendStop, StoreReaderGone, CloseIn, CloseOut,
           formsOnly, cleanup, mainVars
    <3>2. form[f] # "none" /\ (g # f => form'[g] = form[g])
      BY <2>6, <2>a DEF FormStep, Put, PutStopped, WriteBytes, WriteBroken, Reap, Read, Finish,
           Record, StoreSendError, CloseSendStop, StoreReaderGone, CloseIn, CloseOut, Return
    <3> QED
      BY <3>1, <3>2, <2>5
  <2>7. CASE Interrupt \/ (\E p \in DOMAIN Chunk : BgJobDone(p)) \/ UNCHANGED vars
    BY <2>7, <2>5 DEF Interrupt, BgJobDone, vars, mainVars, formVars
  <2> QED
    BY <2>1, <2>2, <2>3, <2>4, <2>6, <2>7 DEF Next, Main
<1> QED
  BY <1>1, <1>2, PipelineTypeCorrect, PTL DEF Spec

\* The record of what a form has thrown is exact in every state.
LEMMA RecordedAlways == Spec => []Recorded
<1>1. Init => Recorded
  BY DEF Init, Recorded
<1>2. TypeOK /\ AheadNotStarted /\ Recorded /\ [Next]_vars => Recorded'
  <2> SUFFICES ASSUME TypeOK, AheadNotStarted, Recorded, [Next]_vars PROVE Recorded'
    OBVIOUS
  <2> USE DEF TypeOK, FormType, FormStates, Excs, Recorded
  <2>1. CASE UNCHANGED <<form, exc, own, excs>>
    BY <2>1
  <2>2. CASE SpawnForm
    <3>1. form' = [form EXCEPT ![<<cur, spawned + 1>>] = "exec"] /\ pc = "spawn" /\ UNCHANGED <<exc, own, excs>>
      BY <2>2 DEF SpawnForm
    <3>2. <<cur, spawned + 1>> \in Forms => form[<<cur, spawned + 1>>] = "none"
      BY <3>1 DEF AheadNotStarted, ControlType
    <3> QED
      BY <3>1, <3>2
  <2>3. ASSUME NEW f \in Forms, FormStep(f) PROVE Recorded'
    <3>1. CASE Put(f) \/ WriteBytes(f) \/ Read(f)
      BY <3>1, <2>1 DEF Put, WriteBytes, Read, formsOnly
    <3>2. CASE PutStopped(f)
      BY <3>2 DEF PutStopped, Return, formsOnly
    <3>3. CASE WriteBroken(f)
      BY <3>3 DEF WriteBroken, Return, formsOnly
    <3>4. CASE Reap(f)
      BY <3>4 DEF Reap, Return, formsOnly
    <3>5. CASE Finish(f)
      BY <3>5 DEF Finish, Return, formsOnly
    <3>6. CASE Record(f)
      BY <3>6 DEF Record, Suppressed, cleanup
    <3>7. CASE StoreSendError(f) \/ CloseSendStop(f) \/ StoreReaderGone(f) \/ CloseIn(f) \/ CloseOut(f)
      BY <3>7 DEF StoreSendError, CloseSendStop, StoreReaderGone, CloseIn, CloseOut, cleanup
    <3> QED
      BY <2>3, <3>1, <3>2, <3>3, <3>4, <3>5, <3>6, <3>7 DEF FormStep
  <2>4. CASE Start \/ PipeFails \/ WaitForms \/ AfterChunk \/ Interrupt
    BY <2>1, <2>4 DEF Start, PipeFails, WaitForms, AfterChunk, Interrupt, formVars
  <2>5. ASSUME NEW p \in DOMAIN Chunk, BgJobDone(p) PROVE Recorded'
    BY <2>1, <2>5 DEF BgJobDone, formVars
  <2>6. CASE UNCHANGED vars
    BY <2>1, <2>6 DEF vars, formVars
  <2> QED
    BY <2>2, <2>3, <2>4, <2>5, <2>6 DEF Next, Main
<1> QED
  BY <1>1, <1>2, PipelineTypeCorrect, AheadAlways, PTL DEF Spec

\* A step of a form moves that form alone, from a state in which it is started and not done,
\* and leaves the exceptions of the forms that are done as they are.
LEMMA FormStepIsLocal ==
    ASSUME TypeOK, Recorded, NEW f \in Forms, FormStep(f)
    PROVE  /\ form[f] \notin {"none", "done"}
           /\ \A g \in Forms \ {f} : form'[g] = form[g] /\ excs'[g] = excs[g] /\ exc'[g] = exc[g]
           /\ exc[f] = "composite" => exc'[f] = "composite"
           /\ own \subseteq own'
           /\ UNCHANGED <<mainVars, canceled>>
<1> USE DEF TypeOK, FormType, FormStates, Excs, Recorded
<1>1. CASE Put(f) \/ WriteBytes(f) \/ Read(f)
  BY <1>1 DEF Put, WriteBytes, Read, formsOnly
<1>2. CASE PutStopped(f)
  BY <1>2 DEF PutStopped, Return, formsOnly
<1>3. CASE WriteBroken(f) \/ Reap(f) \/ Finish(f)
  BY <1>3 DEF WriteBroken, Reap, Finish, Return, formsOnly
<1>4. CASE Record(f)
  BY <1>4 DEF Record, cleanup
<1>5. CASE StoreSendError(f) \/ CloseSendStop(f) \/ StoreReaderGone(f) \/ CloseIn(f) \/ CloseOut(f)
  BY <1>5 DEF StoreSendError, CloseSendStop, StoreReaderGone, CloseIn, CloseOut, cleanup
<1> QED
  BY <1>1, <1>2, <1>3, <1>4, <1>5 DEF FormStep

\* For every chunk: exec returns only when the foreground forms have ended (or os.Pipe has
\* failed), with the result that they and the interrupt make, whatever the background jobs do.
THEOREM ChunkTheorem == Spec => []ChunkIsFaithful
<1> DEFINE Inv == BehindIsDone /\ ResultHasCause
<1>1. Init => Inv
  <2> SUFFICES ASSUME Init PROVE Inv
    OBVIOUS
  <2>1. \A f \in Forms : f[1] \in 1..Len(Chunk)
    BY FormPairs, ChunkShape
  <2>2. BehindIsDone
    BY <2>1, ChunkShape DEF Init, BehindIsDone
  <2>3. ResultHasCause
    BY ChunkShape DEF Init, ResultHasCause, InterruptNotSwallowed
  <2> QED
    BY <2>2, <2>3
<1>2. TypeOK /\ AtPipeline /\ AheadNotStarted /\ Recorded /\ NoFalseFailure /\ Inv /\ [Next]_vars => Inv'
  <2> SUFFICES ASSUME TypeOK, AtPipeline, AheadNotStarted, Recorded, NoFalseFailure, Inv, [Next]_vars PROVE Inv'
    OBVIOUS
  <2>0. \A f \in Forms : f[1] \in 1..Len(Chunk) /\ f[1] \in Nat
    BY FormPairs, ChunkShape
  <2>a. cur \in 1..Len(Chunk) + 1 /\ cur \in Nat /\ Len(Chunk) \in Nat
    BY ChunkShape DEF TypeOK, ControlType
  <2>1. CASE Start
    <3>1. UNCHANGED <<cur, form, exc, own, excs, canceled>> /\ pc = "check"
      BY <2>1 DEF Start, formVars
    <3>2. \/ pc' = "end" /\ result' = "interrupted"
          \/ pc' = "spawn" /\ result' = result
      BY <2>1 DEF Start
    <3>3. BehindIsDone'
      BY <3>1, <3>2, <2>0, <2>a DEF BehindIsDone, AheadNotStarted
    <3>4. ResultHasCause'
      BY <3>1, <3>2 DEF ResultHasCause, InterruptNotSwallowed
    <3> QED
      BY <3>3, <3>4
  <2>2. CASE SpawnForm
    <3>1. /\ UNCHANGED <<exc, own, excs, canceled, result>> /\ pc = "spawn"
          /\ form' = [form EXCEPT ![<<cur, spawned + 1>>] = "exec"]
          /\ \/ UNCHANGED <<cur, pc>>
             \/ Chunk[cur].bg /\ NextPipeline
             \/ ~Chunk[cur].bg /\ pc' = "wait" /\ cur' = cur
      BY <2>2 DEF SpawnForm
    <3>2. \A f \in Forms : f[1] # cur => form'[f] = form[f]
      BY <3>1 DEF TypeOK, FormType
    <3>3. BehindIsDone'
      <4> SUFFICES ASSUME NEW f \in Forms
                   PROVE  /\ Foreground(f) /\ f[1] < cur' => form'[f] = "done" /\ excs'[f] = "ok"
                          /\ pc' # "end"
        BY DEF BehindIsDone
      <4>1. CASE UNCHANGED <<cur, pc>> \/ (pc' = "wait" /\ cur' = cur)
        BY <4>1, <3>1, <3>2, <2>0, <2>a DEF BehindIsDone
      <4>2. CASE Chunk[cur].bg /\ NextPipeline
        BY <4>2, <3>1, <3>2, <2>0, <2>a DEF BehindIsDone, NextPipeline, Foreground
      <4> QED
        BY <3>1, <4>1, <4>2
    <3>4. ResultHasCause'
      <4>1. cur \in DOMAIN Chunk
        BY <3>1 DEF AtPipeline
      <4>2. pc' # "end" /\ result' = "running"
        BY <3>1 DEF ResultHasCause, NextPipeline
      <4>3. pc' = "after" => cur' = Len(Chunk) + 1
        BY <3>1, <4>1, <2>a DEF NextPipeline
      <4>4. pc' = "wait" => Chunk[cur'].bg = FALSE
        <5>1. CASE pc' = "wait"
          <6>1. ~Chunk[cur].bg /\ cur' = cur
            BY <5>1, <3>1 DEF NextPipeline
          <6>2. Chunk[cur].bg \in BOOLEAN
            BY <4>1, BgOrNot, Zenon
          <6> QED
            BY <6>1, <6>2
        <5> QED
          BY <5>1
      <4> QED
        BY <4>2, <4>3, <4>4 DEF ResultHasCause, InterruptNotSwallowed
    <3> QED
      BY <3>3, <3>4
  <2>3. CASE PipeFails
    <3>1. UNCHANGED <<cur, form, exc, own, excs, canceled>> /\ pc = "spawn" /\ pc' = "end" /\ result' = "pipefail"
      BY <2>3 DEF PipeFails, formVars
    <3>3. BehindIsDone'
      BY <3>1, <2>0, <2>a DEF BehindIsDone
    <3>4. ResultHasCause'
      BY <3>1 DEF ResultHasCause, InterruptNotSwallowed
    <3> QED
      BY <3>3, <3>4
  <2>4. CASE WaitForms
    <3>1. /\ UNCHANGED <<form, exc, own, excs, canceled>> /\ pc = "wait"
          /\ \A f \in Forms : f[1] = cur => form[f] = "done"
          /\ cur \in DOMAIN Chunk /\ Chunk[cur].bg = FALSE
      BY <2>4 DEF WaitForms, formVars, AllFormsDone, FormsOf, AtPipeline, ResultHasCause
    <3>2. CASE PipelineOK(cur)
      <4>1. /\ cur' = cur + 1 /\ pc' = (IF cur = Len(Chunk) THEN "after" ELSE "check")
            /\ result' = result
            /\ \A f \in Forms : f[1] = cur => excs[f] = "ok"
        BY <2>4, <3>2 DEF WaitForms, PipelineOK, FormsOf, NextPipeline
      <4>2. BehindIsDone'
        BY <3>1, <4>1, <2>0, <2>a DEF BehindIsDone
      <4>3. ResultHasCause'
        BY <3>1, <4>1, <2>a DEF ResultHasCause, InterruptNotSwallowed
      <4> QED
        BY <4>2, <4>3
    <3>3. CASE ~PipelineOK(cur)
      <4>1. pc' = "end" /\ result' = "fail" /\ cur' = cur
        BY <2>4, <3>3 DEF WaitForms
      <4>2. PICK f \in Forms : f[1] = cur /\ excs[f] # "ok"
        BY <3>3 DEF PipelineOK, FormsOf
      <4>3. Foreground(f)
        BY <3>1, <4>2 DEF Foreground
      <4>4. f \in own \/ exc[f] = "composite"
        BY <4>2 DEF NoFalseFailure, Recorded
      <4>5. BehindIsDone'
        BY <3>1, <4>1, <2>0, <2>a DEF BehindIsDone
      <4>6. ResultHasCause'
        BY <3>1, <4>1, <4>3, <4>4 DEF ResultHasCause, InterruptNotSwallowed
      <4> QED
        BY <4>5, <4>6
    <3> QED
      BY <3>2, <3>3
  <2>5. CASE AfterChunk
    <3>1. /\ UNCHANGED <<cur, form, exc, own, excs, canceled>> /\ pc = "after" /\ pc' = "end"
          /\ result' = IF canceled THEN "interrupted" ELSE "ok"
      BY <2>5 DEF AfterChunk, formVars
    <3>2. cur = Len(Chunk) + 1
      BY <3>1 DEF ResultHasCause
    <3>3. BehindIsDone'
      BY <3>1, <3>2, <2>0, <2>a DEF BehindIsDone
    <3>4. ResultHasCause'
      BY <3>1, <3>2 DEF ResultHasCause, InterruptNotSwallowed
    <3> QED
      BY <3>3, <3>4
  <2>6. CASE Interrupt
    <3>1. UNCHANGED <<cur, pc, result, form, exc, own, excs>> /\ pc # "end"
      BY <2>6 DEF Interrupt, mainVars, formVars
    <3>2. BehindIsDone'
      BY <3>1 DEF BehindIsDone
    <3>3. ResultHasCause'
      BY <3>1 DEF ResultHasCause, InterruptNotSwallowed
    <3> QED
      BY <3>2, <3>3
  <2>7. ASSUME NEW f \in Forms, FormStep(f) PROVE Inv'
    <3>1. BehindIsDone'
      BY <2>7, FormStepIsLocal DEF BehindIsDone, mainVars
    <3>2. ResultHasCause'
      BY <2>7, FormStepIsLocal DEF ResultHasCause, InterruptNotSwallowed, mainVars
    <3> QED
      BY <3>1, <3>2
  <2>8. ASSUME NEW p \in DOMAIN Chunk, BgJobDone(p) PROVE Inv'
    <3>1. UNCHANGED <<cur, pc, result, form, exc, own, excs, canceled>>
      BY <2>8 DEF BgJobDone, mainVars, formVars
    <3> QED
      BY <3>1 DEF BehindIsDone, ResultHasCause, InterruptNotSwallowed
  <2>9. CASE UNCHANGED vars
    BY <2>9 DEF vars, mainVars, formVars, BehindIsDone, ResultHasCause, InterruptNotSwallowed
  <2> QED
    BY <2>1, <2>2, <2>3, <2>4, <2>5, <2>6, <2>7, <2>8, <2>9 DEF Next, Main
<1>3. TypeOK /\ AheadNotStarted /\ Recorded /\ Inv => ChunkIsFaithful
  <2> SUFFICES ASSUME TypeOK, AheadNotStarted, Recorded, Inv PROVE ChunkIsFaithful
    OBVIOUS
  <2>0. \A f \in Forms : f[1] \in 1..Len(Chunk) /\ f[1] \in Nat
    BY FormPairs, ChunkShape
  <2>1. cur \in Nat /\ Len(Chunk) \in Nat
    BY ChunkShape DEF TypeOK, ControlType
  <2>2. TerminatesWithForms
    BY <2>0, <2>1 DEF AheadNotStarted, BehindIsDone, TerminatesWithForms, Started
  <2>3. result = "ok" => \A f \in Forms : Foreground(f) => form[f] = "done" /\ f \notin own
    BY <2>0, <2>1 DEF BehindIsDone, ResultHasCause, Recorded
  <2> QED
    BY <2>2, <2>3 DEF ResultHasCause, ChunkIsFaithful, ResultFaithful
<1> QED
  BY <1>1, <1>2, <1>3, PipelineTypeCorrect, AheadAlways, RecordedAlways, NoFalseFailureTheorem, PTL DEF Spec
=============================================================================
