------------------------------ MODULE Pipeline ------------------------------
(***************************************************************************)
(* How a code chunk runs its pipelines (pkg/eval/compile_effect.go,        *)
(* chunkOp.exec and pipelineOp.exec), the ports that join the forms        *)
(* (pkg/eval/port.go), and what an external command killed by SIGPIPE      *)
(* turns into (pkg/eval/external_cmd.go).                                  *)
(*                                                                         *)
(* A form is named <<p, i>>, form i of pipeline p.  Its output pipe bears  *)
(* the same name: a byte pipe and a value channel, with the back channel   *)
(* through which the reading form announces that it has gone.              *)
(***************************************************************************)
EXTENDS Integers, Sequences, FiniteSets

CONSTANTS
    Chunk,        \* the pipelines: a sequence of [bg, forms], forms a sequence of kinds
    BufSize,      \* capacity of a value channel (pipelineChanBufferSize) and of a byte pipe
    MaxWork,      \* bound: values a form that ends by itself writes or reads
    PipeMayFail,  \* whether os.Pipe may fail
    MayInterrupt  \* whether the context of the evaluation may be cancelled

\* builtin: a command that reads and writes values and bytes, and ends by itself;
\* loop: one that puts values until that fails; external: a process that writes bytes
\* until it is killed or ends; parallel: run-parallel with two functions that loop.
Kinds == {"builtin", "loop", "external", "parallel"}

ASSUME PipelineAssumption ==
    /\ Chunk \in Seq([bg : BOOLEAN, forms : Seq(Kinds)])
    /\ \A p \in DOMAIN Chunk : Chunk[p].forms # <<>>
    /\ BufSize \in Nat \ {0} /\ MaxWork \in Nat
    /\ PipeMayFail \in BOOLEAN /\ MayInterrupt \in BOOLEAN

Forms == UNION {{p} \X DOMAIN Chunk[p].forms : p \in DOMAIN Chunk}
FormsOf(p) == {f \in Forms : f[1] = p}
Kind(f) == Chunk[f[1]].forms[f[2]]
InputIsPipe(f) == f[2] > 1
OutputIsPipe(f) == f[2] < Len(Chunk[f[1]].forms)
InputOf(f) == <<f[1], f[2] - 1>>     \* the pipe form f reads from

VARIABLES
    cur, pc,     \* the pipeline chunkOp.exec is at, and where it is in it
    spawned,     \* how many forms of the current pipeline have been started
    form,        \* where each form's goroutine is
    exc,         \* the exception form.exec returned, per form
    excs,        \* the slice excs of pipelineOp.exec
    own,         \* forms that threw an exception of their own
    gone,        \* how many functions of a parallel form have met a gone reader
    work,        \* values each form has written or read
    vals, bytes, \* values and bytes buffered in the output pipe of each form
    sendError, sendStop, readerGone,    \* the back channel of that pipe
    readOpen, writeOpen,                \* whether its two files are open
    bgWaiting,   \* background pipelines whose waiting goroutine has not finished
    numBgJobs,   \* Evaler.numBgJobs
    canceled,    \* fm.Canceled()
    result       \* what chunkOp.exec returned

mainVars == <<cur, pc, spawned, result>>
formVars == <<form, exc, own, gone, work>>
pipeVars == <<vals, bytes, sendError, sendStop, readerGone, readOpen, writeOpen>>
vars == <<mainVars, formVars, excs, pipeVars, bgWaiting, numBgJobs, canceled>>

FormStates == {"none", "exec", "killed", "record", "sendError", "sendStop",
               "readerGone", "closeIn", "closeOut", "done"}
Excs == {"ok", "fail", "gone", "sigpipe", "composite"}
ControlType ==
    /\ cur \in 1..Len(Chunk) + 1
    /\ pc \in {"check", "spawn", "wait", "after", "end"}
    /\ spawned \in Nat
    /\ bgWaiting \subseteq DOMAIN Chunk
    /\ numBgJobs \in Int
    /\ canceled \in BOOLEAN
    /\ result \in {"running", "ok", "fail", "interrupted", "pipefail"}

FormType ==
    /\ form \in [Forms -> FormStates]
    /\ exc \in [Forms -> Excs] /\ excs \in [Forms -> Excs]
    /\ own \subseteq Forms

CounterType ==
    /\ gone \in [Forms -> 0..2] /\ work \in [Forms -> Nat]
    /\ vals \in [Forms -> Nat] /\ bytes \in [Forms -> Nat]

BackChannelType ==
    /\ sendError \in [Forms -> {"nil", "gone"}]
    /\ sendStop \in [Forms -> BOOLEAN] /\ readerGone \in [Forms -> BOOLEAN]
    /\ readOpen \in [Forms -> BOOLEAN] /\ writeOpen \in [Forms -> BOOLEAN]

TypeOK == ControlType /\ FormType /\ CounterType /\ BackChannelType

Init ==
    /\ cur = 1 /\ pc = IF Chunk = <<>> THEN "after" ELSE "check"
    /\ spawned = 0
    /\ form = [f \in Forms |-> "none"]
    /\ exc = [f \in Forms |-> "ok"] /\ excs = [f \in Forms |-> "ok"]
    /\ own = {} /\ gone = [f \in Forms |-> 0] /\ work = [f \in Forms |-> 0]
    /\ vals = [f \in Forms |-> 0] /\ bytes = [f \in Forms |-> 0]
    /\ sendError = [f \in Forms |-> "nil"]
    /\ sendStop = [f \in Forms |-> FALSE] /\ readerGone = [f \in Forms |-> FALSE]
    /\ readOpen = [f \in Forms |-> TRUE] /\ writeOpen = [f \in Forms |-> TRUE]
    /\ bgWaiting = {} /\ numBgJobs = 0
    /\ canceled = FALSE /\ result = "running"

-----------------------------------------------------------------------------
(* chunkOp.exec and pipelineOp.exec, on the goroutine that runs the chunk. *)

\* The start of pipelineOp.exec: check for an interrupt, count a background job.
Start ==
    /\ pc = "check"
    /\ IF canceled
         THEN /\ pc' = "end" /\ result' = "interrupted"
              /\ UNCHANGED <<spawned, numBgJobs>>
         ELSE /\ pc' = "spawn" /\ spawned' = 0
              /\ numBgJobs' = IF Chunk[cur].bg THEN numBgJobs + 1 ELSE numBgJobs
              /\ UNCHANGED result
    /\ UNCHANGED <<cur, formVars, excs, pipeVars, bgWaiting, canceled>>

\* Return from a pipeline without an exception: go on with the next one.
NextPipeline ==
    /\ cur' = cur + 1
    /\ pc' = IF cur = Len(Chunk) THEN "after" ELSE "check"

\* One iteration of the loop over the forms.  A form other than the last of a
\* foreground pipeline gets a goroutine; after the last one a foreground pipeline
\* waits, a background one leaves a goroutine waiting in its place.
SpawnForm ==
    /\ pc = "spawn"
    /\ LET f == <<cur, spawned + 1>> IN
         /\ spawned' = spawned + 1
         /\ form' = [form EXCEPT ![f] = "exec"]
         /\ IF OutputIsPipe(f) THEN UNCHANGED <<cur, pc, bgWaiting>>
            ELSE IF Chunk[cur].bg THEN NextPipeline /\ bgWaiting' = bgWaiting \cup {cur}
            ELSE pc' = "wait" /\ UNCHANGED <<cur, bgWaiting>>
    /\ UNCHANGED <<exc, own, gone, work, excs, pipeVars, numBgJobs, canceled, result>>

\* os.Pipe fails: exec returns at once.
PipeFails ==
    /\ PipeMayFail
    /\ pc = "spawn" /\ OutputIsPipe(<<cur, spawned + 1>>)
    /\ pc' = "end" /\ result' = "pipefail"
    /\ UNCHANGED <<cur, spawned, formVars, excs, pipeVars, bgWaiting, numBgJobs, canceled>>

\* Mutant: exec returns when the last form, run inline, has finished.
AllFormsDone_lastOnly(p) == form[<<p, Len(Chunk[p].forms)>>] = "done"

\* What wg.Wait waits for.
AllFormsDone(p) == \A f \in FormsOf(p) : form[f] = "done"

\* MakePipelineError over the recorded exceptions, of which only being empty matters here.
PipelineOK(p) == \A f \in FormsOf(p) : excs[f] = "ok"

WaitForms ==
    /\ pc = "wait" /\ AllFormsDone(cur)
    /\ IF PipelineOK(cur)
         THEN NextPipeline /\ UNCHANGED result
         ELSE pc' = "end" /\ result' = "fail" /\ UNCHANGED cur
    /\ UNCHANGED <<spawned, formVars, excs, pipeVars, bgWaiting, numBgJobs, canceled>>

\* Mutant: no check after the last pipeline.
AfterChunk_noCheck ==
    /\ pc = "after" /\ pc' = "end"
    /\ result' = "ok"
    /\ UNCHANGED <<cur, spawned, formVars, excs, pipeVars, bgWaiting, numBgJobs, canceled>>

\* The end of chunkOp.exec.
AfterChunk ==
    /\ pc = "after" /\ pc' = "end"
    /\ result' = IF canceled THEN "interrupted" ELSE "ok"
    /\ UNCHANGED <<cur, spawned, formVars, excs, pipeVars, bgWaiting, numBgJobs, canceled>>

\* The goroutine that waits for a background pipeline.
BgJobDone(p) ==
    /\ p \in bgWaiting /\ AllFormsDone(p)
    /\ bgWaiting' = bgWaiting \ {p}
    /\ numBgJobs' = numBgJobs - 1
    /\ UNCHANGED <<mainVars, formVars, excs, pipeVars, canceled>>

Interrupt ==
    /\ MayInterrupt /\ ~canceled /\ pc # "end"
    /\ canceled' = TRUE
    /\ UNCHANGED <<mainVars, formVars, excs, pipeVars, bgWaiting, numBgJobs>>
-----------------------------------------------------------------------------
(* What a running form does with its ports.                                *)

formsOnly == UNCHANGED <<mainVars, excs, bgWaiting, numBgJobs, canceled>>

\* form.exec returns the exception e.
Return(f, e) ==
    /\ form' = [form EXCEPT ![f] = "record"]
    /\ exc' = [exc EXCEPT ![f] = e]

\* A form that ends by itself does a bounded amount of work.
Work(f) ==
    IF Kind(f) \in {"loop", "parallel"} THEN UNCHANGED work
    ELSE work[f] < MaxWork /\ work' = [work EXCEPT ![f] = @ + 1]

\* valueOutput.Put, the arm that sends on the channel.
Put(f) ==
    /\ form[f] = "exec" /\ OutputIsPipe(f) /\ Kind(f) # "external"
    /\ vals[f] < BufSize
    /\ vals' = [vals EXCEPT ![f] = @ + 1]
    /\ UNCHANGED <<bytes, sendError, sendStop, readerGone, readOpen, writeOpen>>
    /\ Work(f)
    /\ formsOnly /\ UNCHANGED <<form, exc, own, gone>>

\* valueOutput.Put, the arm that receives from sendStop: the error is *sendError, and
\* the command that called Put fails with it (with a nil error it would go on, not
\* knowing that its value is lost: see StopCarriesError).  The functions of run-parallel fail one
\* by one, and two exceptions make one composite exception.
PutStopped(f) ==
    /\ form[f] = "exec" /\ OutputIsPipe(f) /\ Kind(f) # "external"
    /\ sendStop[f] /\ sendError[f] = "gone"
    /\ \/ /\ Kind(f) # "parallel" /\ Return(f, "gone") /\ UNCHANGED gone
       \/ /\ Kind(f) = "parallel" /\ gone[f] = 0
          /\ gone' = [gone EXCEPT ![f] = 1] /\ UNCHANGED <<form, exc>>
       \/ /\ Kind(f) = "parallel" /\ gone[f] = 1
          /\ gone' = [gone EXCEPT ![f] = 2] /\ Return(f, "composite")
    /\ formsOnly /\ UNCHANGED <<own, work, pipeVars>>

\* Writing bytes while the reading end is open.
WriteBytes(f) ==
    /\ form[f] = "exec" /\ OutputIsPipe(f) /\ Kind(f) \in {"builtin", "external"}
    /\ readOpen[f] /\ bytes[f] < BufSize
    /\ bytes' = [bytes EXCEPT ![f] = @ + 1]
    /\ UNCHANGED <<vals, sendError, sendStop, readerGone, readOpen, writeOpen>>
    /\ Work(f)
    /\ formsOnly /\ UNCHANGED <<form, exc, own, gone>>

\* Writing bytes after it was closed: EPIPE becomes ReaderGone in byteOutput, an
\* external process is killed.
WriteBroken(f) ==
    /\ form[f] = "exec" /\ OutputIsPipe(f) /\ Kind(f) \in {"builtin", "external"}
    /\ ~readOpen[f]
    /\ IF Kind(f) = "external"
         THEN form' = [form EXCEPT ![f] = "killed"] /\ UNCHANGED exc
         ELSE Return(f, "gone")
    /\ formsOnly /\ UNCHANGED <<own, gone, work, pipeVars>>

\* externalCmd.Call after Wait: killed by SIGPIPE counts as ReaderGone if the flag is set.
Reap(f) ==
    /\ form[f] = "killed"
    /\ Return(f, IF readerGone[f] THEN "gone" ELSE "sigpipe")
    /\ formsOnly /\ UNCHANGED <<own, gone, work, pipeVars>>

\* Mutant: a read from an empty pipe does not wait.
Read_dontWait(f) ==
    /\ form[f] = "exec" /\ InputIsPipe(f) /\ Kind(f) \in {"builtin", "external"}
    /\ bytes' = [bytes EXCEPT ![InputOf(f)] = @ - 1]
    /\ UNCHANGED <<vals, sendError, sendStop, readerGone, readOpen, writeOpen>>
    /\ Work(f)
    /\ formsOnly /\ UNCHANGED <<form, exc, own, gone>>

\* Reading a value or bytes from the previous form.
Read(f) ==
    /\ form[f] = "exec" /\ InputIsPipe(f) /\ Kind(f) \in {"builtin", "external"}
    /\ LET in == InputOf(f) IN
         \/ /\ vals[in] > 0 /\ Kind(f) # "external" /\ vals' = [vals EXCEPT ![in] = @ - 1]
            /\ UNCHANGED <<bytes, sendError, sendStop, readerGone, readOpen, writeOpen>>
         \/ /\ bytes[in] > 0 /\ bytes' = [bytes EXCEPT ![in] = @ - 1]
            /\ UNCHANGED <<vals, sendError, sendStop, readerGone, readOpen, writeOpen>>
    /\ Work(f)
    /\ formsOnly /\ UNCHANGED <<form, exc, own, gone>>

\* The form ends by itself, with or without an exception of its own.
Finish(f) ==
    /\ form[f] = "exec" /\ Kind(f) \in {"builtin", "external"}
    /\ \/ Return(f, "ok") /\ UNCHANGED own
       \/ Return(f, "fail") /\ own' = own \cup {f}
    /\ formsOnly /\ UNCHANGED <<gone, work, pipeVars>>

-----------------------------------------------------------------------------
(* The rest of the function that runs a form, after form.exec.             *)

cleanup == UNCHANGED <<mainVars, exc, own, gone, work, bgWaiting, numBgJobs, canceled>>

\* An exception that only says that the next form has gone is not recorded.
Suppressed(f) == OutputIsPipe(f) /\ exc[f] = "gone"

Record(f) ==
    /\ form[f] = "record"
    /\ excs' = IF exc[f] # "ok" /\ ~Suppressed(f) THEN [excs EXCEPT ![f] = exc[f]] ELSE excs
    /\ form' = [form EXCEPT ![f] = IF InputIsPipe(f) THEN "sendError" ELSE "closeOut"]
    /\ cleanup /\ UNCHANGED pipeVars

\* Mutant: the error is stored after sendStop has been closed.
StoreSendError_late(f) ==
    /\ form[f] = "sendError"
    /\ \/ /\ ~sendStop[InputOf(f)]
          /\ sendStop' = [sendStop EXCEPT ![InputOf(f)] = TRUE] /\ UNCHANGED form
          /\ UNCHANGED <<vals, bytes, sendError, readerGone, readOpen, writeOpen>>
       \/ /\ sendStop[InputOf(f)]
          /\ sendError' = [sendError EXCEPT ![InputOf(f)] = "gone"]
          /\ UNCHANGED <<vals, bytes, sendStop, readerGone, readOpen, writeOpen>>
          /\ form' = [form EXCEPT ![f] = "sendStop"]
    /\ cleanup /\ UNCHANGED excs

\* *input.sendError = errs.ReaderGone{}
StoreSendError(f) ==
    /\ form[f] = "sendError"
    /\ sendError' = [sendError EXCEPT ![InputOf(f)] = "gone"]
    /\ UNCHANGED <<vals, bytes, sendStop, readerGone, readOpen, writeOpen>>
    /\ form' = [form EXCEPT ![f] = "sendStop"]
    /\ cleanup /\ UNCHANGED excs

\* Mutant: the writing form is never told to stop.
CloseSendStop_forgotten(f) ==
    /\ form[f] = "sendStop"
    /\ form' = [form EXCEPT ![f] = "readerGone"]
    /\ cleanup /\ UNCHANGED <<excs, pipeVars>>

\* close(input.sendStop)
CloseSendStop(f) ==
    /\ form[f] = "sendStop"
    /\ sendStop' = [sendStop EXCEPT ![InputOf(f)] = TRUE]
    /\ UNCHANGED <<vals, bytes, sendError, readerGone, readOpen, writeOpen>>
    /\ form' = [form EXCEPT ![f] = "readerGone"]
    /\ cleanup /\ UNCHANGED excs

\* Mutant: the file is closed before the flag is set.
StoreReaderGone_afterClose(f) ==
    /\ form[f] = "readerGone"
    /\ \/ /\ readOpen[InputOf(f)]
          /\ readOpen' = [readOpen EXCEPT ![InputOf(f)] = FALSE] /\ UNCHANGED form
          /\ UNCHANGED <<vals, bytes, sendError, sendStop, readerGone, writeOpen>>
       \/ /\ ~readOpen[InputOf(f)]
          /\ readerGone' = [readerGone EXCEPT ![InputOf(f)] = TRUE]
          /\ UNCHANGED <<vals, bytes, sendError, sendStop, readOpen, writeOpen>>
          /\ form' = [form EXCEPT ![f] = "closeIn"]
    /\ cleanup /\ UNCHANGED excs

\* input.readerGone.Store(true)
StoreReaderGone(f) ==
    /\ form[f] = "readerGone"
    /\ readerGone' = [readerGone EXCEPT ![InputOf(f)] = TRUE]
    /\ UNCHANGED <<vals, bytes, sendError, sendStop, readOpen, writeOpen>>
    /\ form' = [form EXCEPT ![f] = "closeIn"]
    /\ cleanup /\ UNCHANGED excs

\* fop.close for port 0: the reading end of the byte pipe.
CloseIn(f) ==
    /\ form[f] = "closeIn"
    /\ readOpen' = [readOpen EXCEPT ![InputOf(f)] = FALSE]
    /\ UNCHANGED <<vals, bytes, sendError, sendStop, readerGone, writeOpen>>
    /\ form' = [form EXCEPT ![f] = "closeOut"]
    /\ cleanup /\ UNCHANGED excs

\* fop.close for port 1, if it is a pipe: its writing end and its channel; wg.Done.
CloseOut(f) ==
    /\ form[f] = "closeOut"
    /\ writeOpen' = IF OutputIsPipe(f) THEN [writeOpen EXCEPT ![f] = FALSE] ELSE writeOpen
    /\ UNCHANGED <<vals, bytes, sendError, sendStop, readerGone, readOpen>>
    /\ form' = [form EXCEPT ![f] = "done"]
    /\ cleanup /\ UNCHANGED excs

-----------------------------------------------------------------------------
Main == Start \/ SpawnForm \/ PipeFails \/ WaitForms \/ AfterChunk

FormStep(f) ==
    \/ Put(f) \/ PutStopped(f) \/ WriteBytes(f) \/ WriteBroken(f)
    \/ Reap(f) \/ Read(f) \/ Finish(f)
    \/ Record(f) \/ StoreSendError(f) \/ CloseSendStop(f) \/ StoreReaderGone(f)
    \/ CloseIn(f) \/ CloseOut(f)

Next ==
    \/ Main \/ Interrupt
    \/ \E f \in Forms : FormStep(f)
    \/ \E p \in DOMAIN Chunk : BgJobDone(p)

Spec == Init /\ [][Next]_vars

\* Every goroutine, and every process a form waits for, makes progress: a form that
\* is not endless is assumed to end when it has done its bounded work.
Fairness ==
    /\ WF_vars(Main)
    /\ \A f \in Forms : WF_vars(FormStep(f))
    /\ \A p \in DOMAIN Chunk : WF_vars(BgJobDone(p))

FairSpec == Spec /\ Fairness

-----------------------------------------------------------------------------
\* A pipeline throws only what its forms threw themselves.  What a form throws because
\* the next one has ended (ReaderGone from Put, EPIPE, or a process killed by SIGPIPE)
\* is suppressed, whatever the order in which the two forms end.  This does not extend to
\* run-parallel: isReaderGone does not look into the composite exception it makes when
\* both functions meet a gone reader.
NoFalseFailure == \A f \in Forms : Kind(f) # "parallel" /\ excs[f] # "ok" => f \in own

\* A Put that is told to stop finds the reason: sendStop is never seen closed while
\* *sendError is nil, which would drop the value and report success.
StopCarriesError == \A f \in Forms : sendStop[f] => sendError[f] = "gone"

\* The end of a reader reaches the form that writes to it as what it is: neither mistaken
\* for a failure of the writer nor dropped without a word.
ReaderGoneIsNoFailure == NoFalseFailure /\ StopCarriesError

\* Elvish closes the reading end of a byte pipe only after setting readerGone, which
\* is what makes the test in externalCmd.Call reliable.
BrokenPipeIsFlagged == \A f \in Forms : ~readOpen[f] => readerGone[f]

Foreground(f) == ~Chunk[f[1]].bg
Started(f) == form[f] # "none"

\* "A pipeline runs all of its command in parallel, and terminates when all of the
\* commands have terminated" (language.md): exec never returns while a form of a
\* foreground pipeline it started is still running, unless os.Pipe has failed for a later
\* form, when it returns at once.
TerminatesWithForms ==
    \A f \in Forms : Foreground(f) /\ Started(f) /\ (pc = "end" \/ cur > f[1])
                        => form[f] = "done" \/ (result = "pipefail" /\ f[1] = cur)

\* "Exceptions thrown from the background pipeline do not affect the code chunk", those
\* of a foreground form always do: the chunk succeeds only if all foreground forms ran
\* and none failed, and fails only if one of them did (or is a run-parallel whose functions
\* have all met a gone reader, see NoFalseFailure).
ResultFaithful ==
    /\ result = "ok" => \A f \in Forms : Foreground(f) => form[f] = "done" /\ f \notin own
    /\ result = "fail" => \E f \in Forms : Foreground(f) /\ (f \in own \/ exc[f] = "composite")

\* An interrupt that comes before the chunk has ended is never swallowed.
InterruptNotSwallowed == canceled => result # "ok"

\* What chunkOp.exec returns, and when, is decided by the foreground forms and the
\* interrupt alone, in whatever order the forms, the background jobs and the interrupt come.
ChunkIsFaithful == TerminatesWithForms /\ ResultFaithful /\ InterruptNotSwallowed

\* The chunk always ends, an endless writer with it once its reader has gone, and
\* $num-bg-jobs is zero once the background jobs have ended (the job of a pipeline for
\* which os.Pipe failed stays counted).
ChunkEnded ==
    pc = "end" /\ numBgJobs = IF result = "pipefail" /\ Chunk[cur].bg THEN 1 ELSE 0
=============================================================================
