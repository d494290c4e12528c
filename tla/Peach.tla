-------------------------------- MODULE Peach --------------------------------
(***************************************************************************)
(* The builtin peach (pkg/eval/builtin_fn_flow.go): call a function on     *)
(* every input, in parallel, at most NumWorkers at a time.  The inputs are *)
(* numbered 1..NumInputs in the order the callback of Inputs gets them.    *)
(***************************************************************************)
EXTENDS Integers, FiniteSets

CONSTANTS
    NumInputs,    \* bound: how many inputs there are
    NumWorkers    \* the option &num-workers, here always limited

ASSUME PeachAssumption ==
    /\ NumInputs \in Nat /\ NumWorkers \in Nat \ {0}

VARIABLES
    peachPc, next,     \* the goroutine that iterates over the inputs, and its input
    worker,       \* where the goroutine of each input is
    outcome,      \* how the call for each input ended
    broken,       \* the atomic flag
    errMuHolder,  \* who holds errMu (0: nobody)
    errors,       \* the inputs whose exceptions err combines
    sema,         \* tokens held, as the semaphore counts them
    panicked,     \* the semaphore has panicked
    peachCanceled,     \* the context
    late          \* history: the inputs whose goroutine was started with broken set

peachVars == <<peachPc, next, worker, outcome, broken, errMuHolder, errors, sema, panicked,
               peachCanceled, late>>

Items == 1..NumInputs
Outcomes == {"none", "ok", "continue", "break", "exception"}
WorkerStates == {"none", "call", "store", "break", "done", "release", "exit"}

PeachTypeOK ==
    /\ peachPc \in {"check", "acquire", "spawn", "wait", "returned"}
    /\ next \in 1..NumInputs + 1
    /\ worker \in [Items -> WorkerStates]
    /\ outcome \in [Items -> Outcomes]
    /\ broken \in BOOLEAN /\ errMuHolder \in 0..NumInputs
    /\ errors \subseteq Items
    /\ sema \in Int /\ panicked \in BOOLEAN /\ peachCanceled \in BOOLEAN
    /\ late \subseteq Items

PeachInit ==
    /\ peachPc = "check" /\ next = 1
    /\ worker = [i \in Items |-> "none"] /\ outcome = [i \in Items |-> "none"]
    /\ broken = FALSE /\ errMuHolder = 0 /\ errors = {}
    /\ sema = 0 /\ panicked = FALSE /\ peachCanceled = FALSE /\ late = {}

-----------------------------------------------------------------------------
(* The callback of inputs, once per input.                                 *)

\* Mutant: the flag is not looked at.
CheckBroken_never ==
    /\ peachPc = "check" /\ next <= NumInputs
    /\ peachPc' = "acquire" /\ UNCHANGED next
    /\ UNCHANGED <<worker, outcome, broken, errMuHolder, errors, sema, panicked, peachCanceled, late>>

\* After a break or an exception the remaining inputs are consumed and dropped.
CheckBroken ==
    /\ peachPc = "check" /\ next <= NumInputs
    /\ IF broken THEN next' = next + 1 /\ UNCHANGED peachPc ELSE peachPc' = "acquire" /\ UNCHANGED next
    /\ UNCHANGED <<worker, outcome, broken, errMuHolder, errors, sema, panicked, peachCanceled, late>>

\* Mutant: one worker too many.
Available_offByOne == sema <= NumWorkers

Available == sema < NumWorkers

\* workerSema.Acquire(ctx, 1): it waits for a token, and fails without one when the
\* context is done.  Its error is ignored.
Acquire ==
    /\ peachPc = "acquire" /\ peachPc' = "spawn"
    /\ \/ ~peachCanceled /\ Available /\ sema' = sema + 1
       \/ peachCanceled /\ UNCHANGED sema
    /\ UNCHANGED <<next, worker, outcome, broken, errMuHolder, errors, panicked, peachCanceled, late>>

\* wg.Add(1) and the go statement.
Spawn ==
    /\ peachPc = "spawn" /\ peachPc' = "check"
    /\ worker' = [worker EXCEPT ![next] = "call"]
    /\ next' = next + 1
    /\ late' = IF broken THEN late \cup {next} ELSE late
    /\ UNCHANGED <<outcome, broken, errMuHolder, errors, sema, panicked, peachCanceled>>

\* Goroutines that have been added to the wait group and have not called Done.
Pending == {i \in Items : worker[i] \in {"call", "store", "break", "done"}}

\* The inputs are exhausted: wg.Wait, then return err.
WaitAndReturn ==
    /\ peachPc = "check" /\ next > NumInputs
    /\ Pending = {}
    /\ peachPc' = "returned"
    /\ UNCHANGED <<next, worker, outcome, broken, errMuHolder, errors, sema, panicked, peachCanceled, late>>

-----------------------------------------------------------------------------
(* The goroutine of input i.                                               *)

\* f.Call returns; break, continue and other exceptions part ways here.
Call(i) ==
    /\ worker[i] = "call"
    /\ \E o \in Outcomes \ {"none"} :
         /\ outcome' = [outcome EXCEPT ![i] = o]
         /\ worker' = [worker EXCEPT ![i] =
              CASE o = "break" -> "break"
                [] o = "exception" -> "store"
                [] OTHER -> "done"]
    /\ UNCHANGED <<peachPc, next, broken, errMuHolder, errors, sema, panicked, peachCanceled, late>>

\* Mutant: two goroutines combine their exceptions with the same old value of err.
Store_lost(i) ==
    /\ worker[i] = "store"
    /\ errors' = {i}
    /\ worker' = [worker EXCEPT ![i] = "break"]
    /\ UNCHANGED <<peachPc, next, outcome, broken, errMuHolder, sema, panicked, peachCanceled, late>>

\* err = errutil.Multi(err, ex) under errMu, which is held until the goroutine exits.
Store(i) ==
    /\ worker[i] = "store" /\ errMuHolder = 0
    /\ errMuHolder' = i
    /\ errors' = errors \cup {i}
    /\ worker' = [worker EXCEPT ![i] = "break"]
    /\ UNCHANGED <<peachPc, next, outcome, broken, sema, panicked, peachCanceled, late>>

SetBroken(i) ==
    /\ worker[i] = "break"
    /\ broken' = TRUE
    /\ worker' = [worker EXCEPT ![i] = "done"]
    /\ UNCHANGED <<peachPc, next, outcome, errMuHolder, errors, sema, panicked, peachCanceled, late>>

\* wg.Done comes before the token is given back.
Done(i) ==
    /\ worker[i] = "done"
    /\ worker' = [worker EXCEPT ![i] = "release"]
    /\ UNCHANGED <<peachPc, next, outcome, broken, errMuHolder, errors, sema, panicked, peachCanceled, late>>

\* Mutant: errMu stays locked.
Release_keepLock(i) ==
    /\ worker[i] = "release"
    /\ sema' = sema - 1
    /\ panicked' = (panicked \/ sema <= 0)
    /\ worker' = [worker EXCEPT ![i] = "exit"]
    /\ UNCHANGED <<peachPc, next, outcome, broken, errMuHolder, errors, peachCanceled, late>>

\* workerSema.Release(1), which panics when more is released than held; then the
\* deferred errMu.Unlock.
Release(i) ==
    /\ worker[i] = "release"
    /\ sema' = sema - 1
    /\ panicked' = (panicked \/ sema <= 0)
    /\ errMuHolder' = IF errMuHolder = i THEN 0 ELSE errMuHolder
    /\ worker' = [worker EXCEPT ![i] = "exit"]
    /\ UNCHANGED <<peachPc, next, outcome, broken, errors, peachCanceled, late>>

\* The frame's context is cancelled.
PeachInterrupt ==
    /\ ~peachCanceled /\ peachPc # "returned"
    /\ peachCanceled' = TRUE
    /\ UNCHANGED <<peachPc, next, worker, outcome, broken, errMuHolder, errors, sema, panicked, late>>

PeachMain == CheckBroken \/ Acquire \/ Spawn \/ WaitAndReturn
Worker(i) == Call(i) \/ Store(i) \/ SetBroken(i) \/ Done(i) \/ Release(i)

PeachNext == ~panicked /\ (PeachMain \/ PeachInterrupt \/ \E i \in Items : Worker(i))

PeachSpec == PeachInit /\ [][PeachNext]_peachVars

\* Functions passed to peach are assumed to return.
PeachFairSpec ==
    /\ PeachSpec
    /\ WF_peachVars(~panicked /\ PeachMain)
    /\ \A i \in Items : WF_peachVars(~panicked /\ Worker(i))

-----------------------------------------------------------------------------
Running == {i \in Items : worker[i] = "call"}

\* "The &num-workers option restricts the number of functions that may run in parallel":
\* it does until an interrupt, after which the failing Acquire is not noticed.  Until then
\* the semaphore sees no more releases than acquisitions either (it would panic and take
\* the shell down).
WorkerBound == ~peachCanceled => Cardinality(Running) <= NumWorkers /\ ~panicked

\* Once a function has thrown break or another exception and the flag is up, only the one
\* call that had passed the check (and was waiting for its token) can still start.
AtMostOneAfterBreak == Cardinality(late) <= 1

\* How many calls there may be, at once and after a break.
CallsAreBounded == WorkerBound /\ AtMostOneAfterBreak

\* No exception is lost: peach returns the combination of all that were thrown, after
\* every function has returned.
AllExceptionsReturned ==
    peachPc = "returned" => /\ Running = {}
                       /\ errors = {i \in Items : outcome[i] = "exception"}

\* peach returns, unless the semaphore panics (only after an interrupt: see WorkerBound).
PeachReturned == peachPc = "returned" \/ panicked
=============================================================================
