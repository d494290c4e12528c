---------------------------- MODULE Peach_proofs ----------------------------
(***************************************************************************)
(* Theorems about Peach, for any number of inputs and of workers.          *)
(***************************************************************************)
EXTENDS Peach, FiniteSetTheorems, TLAPS

-----------------------------------------------------------------------------
(* Type correctness.                                                       *)

\* The callback of Inputs is between its check and the go statement only with an input
\* that has no goroutine yet.
SpawnedSoFar ==
    /\ peachPc \in {"acquire", "spawn"} => next <= NumInputs
    /\ \A i \in Items : worker[i] # "none" => i < next

\* PeachTypeOK is inductive together with SpawnedSoFar, which gives Spawn an input to start.
THEOREM PeachTypeCorrect == PeachSpec => [](PeachTypeOK /\ SpawnedSoFar)
<1>1. PeachInit => PeachTypeOK /\ SpawnedSoFar
  <2>1. PeachInit => PeachTypeOK
    <3>1. 1 \in 1..NumInputs + 1 /\ 0 \in 0..NumInputs /\ 0 \in Int
      BY PeachAssumption
    <3> QED
      BY <3>1, Zenon DEF PeachInit, PeachTypeOK, Outcomes, WorkerStates
  <2>2. PeachInit => SpawnedSoFar
    BY DEF PeachInit, SpawnedSoFar
  <2> QED
    BY <2>1, <2>2
<1>2. PeachTypeOK /\ SpawnedSoFar /\ [PeachNext]_peachVars => (PeachTypeOK /\ SpawnedSoFar)'
  <2> SUFFICES ASSUME PeachTypeOK, SpawnedSoFar, [PeachNext]_peachVars
               PROVE  PeachTypeOK' /\ SpawnedSoFar'
    OBVIOUS
  <2> USE PeachAssumption DEF PeachTypeOK, SpawnedSoFar, Items
  <2>1. CASE CheckBroken
    BY <2>1 DEF CheckBroken
  <2>2. CASE Acquire
    BY <2>2 DEF Acquire
  <2>3. CASE Spawn
    BY <2>3 DEF Spawn, WorkerStates
  <2>4. CASE WaitAndReturn
    BY <2>4 DEF WaitAndReturn
  <2>5. CASE PeachInterrupt
    BY <2>5 DEF PeachInterrupt
  <2>6. ASSUME NEW i \in Items, Call(i)
        PROVE  PeachTypeOK' /\ SpawnedSoFar'
    BY <2>6 DEF Call, Outcomes, WorkerStates
  <2>7. ASSUME NEW i \in Items, Store(i)
        PROVE  PeachTypeOK' /\ SpawnedSoFar'
    BY <2>7 DEF Store, WorkerStates
  <2>8. ASSUME NEW i \in Items, SetBroken(i)
        PROVE  PeachTypeOK' /\ SpawnedSoFar'
    BY <2>8 DEF SetBroken, WorkerStates
  <2>9. ASSUME NEW i \in Items, Done(i)
        PROVE  PeachTypeOK' /\ SpawnedSoFar'
    BY <2>9 DEF Done, WorkerStates
  <2>10. ASSUME NEW i \in Items, Release(i)
         PROVE  PeachTypeOK' /\ SpawnedSoFar'
    <3>1. panicked' \in BOOLEAN
      BY <2>10 DEF Release
    <3> QED
      BY <2>10, <3>1 DEF Release, WorkerStates
  <2>11. CASE UNCHANGED peachVars
    BY <2>11 DEF peachVars
  <2> QED
    BY <2>1, <2>2, <2>3, <2>4, <2>5, <2>6, <2>7, <2>8, <2>9, <2>10, <2>11
       DEF PeachNext, PeachMain, Worker
<1> QED
  BY <1>1, <1>2, PTL DEF PeachSpec

-----------------------------------------------------------------------------
(* No exception is lost.                                                   *)

\* err combines exactly the exceptions of the goroutines that are past the store, and a
\* peach that has returned has no goroutine before wg.Done.
ErrorsSoFar ==
    /\ \A i \in Items : worker[i] \in {"none", "call"} => outcome[i] = "none"
    /\ \A i \in Items : worker[i] = "store" => outcome[i] = "exception"
    /\ \A i \in Items :
         i \in errors <=> outcome[i] = "exception" /\ worker[i] # "store"
    /\ peachPc = "returned" => Pending = {}

\* peach returns the combination of all exceptions, after every function has returned,
\* for any number of inputs and workers and with interrupts.
THEOREM ExceptionsTheorem == PeachSpec => []AllExceptionsReturned
<1>1. PeachInit => ErrorsSoFar
  BY DEF PeachInit, ErrorsSoFar, Items
<1>2. PeachTypeOK /\ SpawnedSoFar /\ ErrorsSoFar /\ [PeachNext]_peachVars => ErrorsSoFar'
  <2> SUFFICES ASSUME PeachTypeOK, SpawnedSoFar, ErrorsSoFar, [PeachNext]_peachVars
               PROVE  ErrorsSoFar'
    OBVIOUS
  <2> USE DEF PeachTypeOK, SpawnedSoFar, ErrorsSoFar, Items, Pending
  <2>1. CASE CheckBroken
    BY <2>1 DEF CheckBroken
  <2>2. CASE Acquire
    BY <2>2 DEF Acquire
  <2>3. CASE Spawn
    <3>1. worker[next] = "none"
      BY <2>3, PeachAssumption DEF Spawn
    <3> QED
      BY <2>3, <3>1, PeachAssumption DEF Spawn
  <2>4. CASE WaitAndReturn
    BY <2>4 DEF WaitAndReturn
  <2>5. CASE PeachInterrupt
    BY <2>5 DEF PeachInterrupt
  <2>6. ASSUME NEW i \in Items, Call(i)
        PROVE  ErrorsSoFar'
    BY <2>6 DEF Call, Outcomes
  <2>7. ASSUME NEW i \in Items, Store(i)
        PROVE  ErrorsSoFar'
    BY <2>7 DEF Store
  <2>8. ASSUME NEW i \in Items, SetBroken(i)
        PROVE  ErrorsSoFar'
    BY <2>8 DEF SetBroken
  <2>9. ASSUME NEW i \in Items, Done(i)
        PROVE  ErrorsSoFar'
    BY <2>9 DEF Done
  <2>10. ASSUME NEW i \in Items, Release(i)
         PROVE  ErrorsSoFar'
    BY <2>10 DEF Release
  <2>11. CASE UNCHANGED peachVars
    BY <2>11 DEF peachVars
  <2> QED
    BY <2>1, <2>2, <2>3, <2>4, <2>5, <2>6, <2>7, <2>8, <2>9, <2>10, <2>11
       DEF PeachNext, PeachMain, Worker
<1>3. PeachTypeOK /\ ErrorsSoFar => AllExceptionsReturned
  BY DEF PeachTypeOK, ErrorsSoFar, AllExceptionsReturned, Running, Pending, Items
<1> QED
  BY <1>1, <1>2, <1>3, PeachTypeCorrect, PTL DEF PeachSpec

-----------------------------------------------------------------------------
(* What starts after a break.                                              *)

\* Once a call has started with the flag up, the callback finds the flag up at every
\* later check, and so starts nothing more.
LateIsLast ==
    /\ late # {} => broken /\ peachPc \in {"check", "returned"}
    /\ \E i : late \subseteq {i}

\* At most one function is called after the flag is up, for any number of workers.
THEOREM BreakTheorem == PeachSpec => []AtMostOneAfterBreak
<1>1. PeachInit => LateIsLast
  BY DEF PeachInit, LateIsLast
<1>2. PeachTypeOK /\ LateIsLast /\ [PeachNext]_peachVars => LateIsLast'
  <2> SUFFICES ASSUME PeachTypeOK, LateIsLast, [PeachNext]_peachVars
               PROVE  LateIsLast'
    OBVIOUS
  <2> USE DEF LateIsLast
  <2>1. CASE CheckBroken
    BY <2>1 DEF CheckBroken
  <2>2. CASE Acquire
    BY <2>2 DEF Acquire
  <2>3. CASE Spawn
    BY <2>3 DEF Spawn
  <2>4. CASE WaitAndReturn
    BY <2>4 DEF WaitAndReturn
  <2>5. CASE PeachInterrupt
    BY <2>5 DEF PeachInterrupt
  <2>6. ASSUME NEW i \in Items, Worker(i)
        PROVE  LateIsLast'
    BY <2>6 DEF Worker, Call, Store, SetBroken, Done, Release
  <2>7. CASE UNCHANGED peachVars
    BY <2>7 DEF peachVars
  <2> QED
    BY <2>1, <2>2, <2>3, <2>4, <2>5, <2>6, <2>7 DEF PeachNext, PeachMain
<1>3. LateIsLast => AtMostOneAfterBreak
  <2> SUFFICES ASSUME LateIsLast PROVE Cardinality(late) <= 1
    BY DEF AtMostOneAfterBreak
  <2>1. PICK i : late \subseteq {i}
    BY DEF LateIsLast
  <2>2. IsFiniteSet({i}) /\ Cardinality({i}) = 1
    BY FS_Singleton
  <2> QED
    BY <2>1, <2>2, FS_Subset
<1> QED
  BY <1>1, <1>2, <1>3, PeachTypeCorrect, PTL DEF PeachSpec

-----------------------------------------------------------------------------
(* The bound on workers.                                                   *)

\* The goroutines that will still release a token, and the one about to be started.
Holding == {i \in Items : worker[i] \in {"call", "store", "break", "done", "release"}}
Acquired == IF peachPc = "spawn" THEN 1 ELSE 0

\* Until an interrupt the semaphore counts exactly these, and has not panicked.
SemaCounts ==
    ~peachCanceled => /\ sema = Cardinality(Holding) + Acquired
                 /\ sema <= NumWorkers
                 /\ ~panicked

\* The goroutines with a token can be counted.
LEMMA HoldingFinite ==
    ASSUME PeachTypeOK
    PROVE  IsFiniteSet(Holding) /\ Cardinality(Holding) \in Nat
<1>1. IsFiniteSet(Items)
  BY PeachAssumption, FS_Interval DEF Items
<1>2. Holding \subseteq Items
  BY DEF Holding
<1> QED
  BY <1>1, <1>2, FS_Subset, FS_CardinalityType

\* Until an interrupt, no more than NumWorkers functions run and the semaphore does not
\* panic, for any number of inputs and workers.
THEOREM WorkerBoundTheorem == PeachSpec => []WorkerBound
<1>1. PeachInit => SemaCounts
  <2> SUFFICES ASSUME PeachInit PROVE SemaCounts
    OBVIOUS
  <2>1. Holding = {}
    BY DEF PeachInit, Holding
  <2> QED
    BY <2>1, FS_EmptySet, PeachAssumption DEF PeachInit, SemaCounts, Acquired
<1>2. PeachTypeOK /\ SpawnedSoFar /\ SemaCounts /\ [PeachNext]_peachVars => SemaCounts'
  <2> SUFFICES ASSUME PeachTypeOK, SpawnedSoFar, SemaCounts, [PeachNext]_peachVars, ~peachCanceled'
               PROVE  SemaCounts'
    BY DEF SemaCounts
  <2>0. ~peachCanceled /\ IsFiniteSet(Holding) /\ Cardinality(Holding) \in Nat
    BY HoldingFinite DEF PeachTypeOK, PeachNext, PeachMain, Worker, CheckBroken, Acquire, Spawn, WaitAndReturn,
       PeachInterrupt, Call, Store, SetBroken, Done, Release, peachVars
  <2> USE <2>0 DEF SemaCounts, Acquired
  <2>1. CASE CheckBroken
    BY <2>1 DEF CheckBroken, Holding
  <2>2. CASE Acquire
    BY <2>2, PeachAssumption DEF Acquire, Holding, Available, PeachTypeOK
  <2>3. CASE Spawn
    <3>1. next \in Items /\ next \notin Holding
      BY <2>3, PeachAssumption DEF Spawn, Holding, SpawnedSoFar, PeachTypeOK, Items
    <3>2. Holding' = Holding \cup {next}
      BY <2>3, <3>1 DEF Spawn, Holding, PeachTypeOK
    <3>3. Cardinality(Holding') = Cardinality(Holding) + 1
      BY <3>1, <3>2, FS_AddElement
    <3> QED
      BY <2>3, <3>3 DEF Spawn
  <2>4. CASE WaitAndReturn
    BY <2>4 DEF WaitAndReturn, Holding
  <2>5. CASE PeachInterrupt
    BY <2>5 DEF PeachInterrupt
  <2>6. ASSUME NEW i \in Items, Call(i) \/ Store(i) \/ SetBroken(i) \/ Done(i)
        PROVE  SemaCounts'
    <3>1. Holding' = Holding
      BY <2>6 DEF Call, Store, SetBroken, Done, Holding, PeachTypeOK, Outcomes
    <3> QED
      BY <2>6, <3>1 DEF Call, Store, SetBroken, Done
  <2>7. ASSUME NEW i \in Items, Release(i)
        PROVE  SemaCounts'
    <3>1. i \in Holding /\ Holding' = Holding \ {i}
      BY <2>7 DEF Release, Holding, PeachTypeOK
    <3>2. Cardinality(Holding') = Cardinality(Holding) - 1
      BY <3>1, FS_RemoveElement
    <3>3. Cardinality(Holding) > 0
      BY <3>1, FS_EmptySet
    <3>4. sema > 0 /\ sema' = sema - 1
      BY <2>7, <3>3 DEF Release
    <3>5. ~panicked'
      BY <2>7, <3>4 DEF Release, PeachTypeOK
    <3> QED
      BY <2>7, <3>2, <3>4, <3>5, PeachAssumption DEF Release, PeachTypeOK
  <2>8. CASE UNCHANGED peachVars
    BY <2>8 DEF peachVars, Holding
  <2> QED
    BY <2>1, <2>2, <2>3, <2>4, <2>5, <2>6, <2>7, <2>8 DEF PeachNext, PeachMain, Worker
<1>3. PeachTypeOK /\ SemaCounts => WorkerBound
  <2> SUFFICES ASSUME PeachTypeOK, SemaCounts, ~peachCanceled
               PROVE  Cardinality(Running) <= NumWorkers /\ ~panicked
    BY DEF WorkerBound
  <2>1. Cardinality(Holding) <= NumWorkers
    BY HoldingFinite, PeachAssumption DEF SemaCounts, Acquired
  <2>2. Running \subseteq Holding
    BY DEF Running, Holding
  <2>3. Cardinality(Running) <= Cardinality(Holding) /\ Cardinality(Running) \in Nat
    BY <2>2, HoldingFinite, FS_Subset, FS_CardinalityType
  <2> QED
    BY <2>1, <2>3, HoldingFinite, PeachAssumption DEF SemaCounts
<1> QED
  BY <1>1, <1>2, <1>3, PeachTypeCorrect, PTL DEF PeachSpec

-----------------------------------------------------------------------------
\* peach keeps its bounds, for any number of inputs and workers: no more calls at once than
\* workers until an interrupt, and at most one that starts after a break.
THEOREM CallsTheorem == PeachSpec => []CallsAreBounded
<1>1. WorkerBound /\ AtMostOneAfterBreak => CallsAreBounded
  BY DEF CallsAreBounded
<1> QED
  BY <1>1, WorkerBoundTheorem, BreakTheorem, PTL
=============================================================================
