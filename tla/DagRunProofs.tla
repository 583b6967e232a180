---------------------------- MODULE DagRunProofs ----------------------------
(***************************************************************************)
(* Theorems for plans of any size: what the executor of InstallDag         *)
(* promises, that the loop of _validate_dag in DagRun decides which plans  *)
(* are valid, and that DagRun implements InstallDag, so that the promises  *)
(* hold of the whole.                                                      *)
(***************************************************************************)
EXTENDS DagRun, FiniteSetTheorems, FunctionTheorems, SequenceTheorems,
        WellFoundedInduction, TLAPS

\* The plan is a finite set of N steps.
LEMMA FiniteSteps ==
    /\ IsFiniteSet(Steps)
    /\ Cardinality(Steps) = N
    /\ \A S \in SUBSET Steps : IsFiniteSet(S) /\ Cardinality(S) \in 0..N
<1>1. IsFiniteSet(Steps) /\ Cardinality(Steps) = N
  BY FS_Interval, NAssumption DEF Steps
<1>2. ASSUME NEW S \in SUBSET Steps PROVE IsFiniteSet(S) /\ Cardinality(S) \in 0..N
  <2>1. IsFiniteSet(S) /\ Cardinality(S) <= Cardinality(Steps)
    BY <1>1, FS_Subset, Zenon
  <2>2. Cardinality(S) \in Nat
    BY <2>1, FS_CardinalityType
  <2> QED
    BY <1>1, <2>1, <2>2, NAssumption
<1> QED
  BY <1>1, <1>2

-----------------------------------------------------------------------------
\* The executor.

(***************************************************************************)
(* The inductive invariant                                                 *)
(***************************************************************************)

\* The executor works on a valid plan only.
OnValidPlan == pc \in {"pick", "batch"} => Valid(deps)

\* Between batches nothing runs and nothing has ended.
Idle == pc \in {"start", "pick"} => running = {} /\ status = "none"

\* "done" is the verdict of the final save only.
Ended == status = "done" => pc = "returned"

IInv ==
    /\ TypeOK
    /\ OnValidPlan
    /\ Idle
    /\ Ended
    /\ OnlyAfterDependencies
    /\ OnePerPackageManager
    /\ DoneMeansAllCompleted

(***************************************************************************)
(* What the choice of a batch guarantees                                   *)
(***************************************************************************)

\* A finite set without two elements holds a single value.
LEMMA AtMostOne ==
    ASSUME NEW S, IsFiniteSet(S), ~(Cardinality(S) > 1),
           NEW s \in S, NEW t \in S
    PROVE  s = t
<1> SUFFICES ASSUME s # t PROVE FALSE
  OBVIOUS
<1>1. IsFiniteSet({s}) /\ Cardinality({s}) = 1
  BY FS_Singleton
<1>2. IsFiniteSet({s} \cup {t}) /\ Cardinality({s} \cup {t}) = 2
  <2>1. t \notin {s}
    OBVIOUS
  <2>2. Cardinality({s} \cup {t}) = Cardinality({s}) + 1
    BY <1>1, <2>1, FS_AddElement, Zenon
  <2>3. IsFiniteSet({s} \cup {t})
    BY <1>1, FS_AddElement, Zenon
  <2>. QED BY <1>1, <2>2, <2>3
<1>3. {s} \cup {t} \in SUBSET S
  OBVIOUS
<1>4. Cardinality({s} \cup {t}) <= Cardinality(S)
  BY <1>3, FS_Subset
<1>5. Cardinality(S) \in Nat
  BY FS_CardinalityType
<1>. QED BY <1>2, <1>4, <1>5

\* A batch is ready, and its steps share no package manager.
LEMMA BatchLemma ==
    ASSUME TypeOK
    PROVE  /\ Batch \subseteq Ready(deps, completed)
           /\ \A s, t \in Batch : s # t => pm[s] = NoPM \/ pm[s] # pm[t]
<1>1. Runnable \subseteq Ready(deps, completed)
  BY DEF Runnable
<1>2. Runnable \in SUBSET Steps
  BY <1>1 DEF Ready
<1>3. CASE Cardinality(Runnable) > 1
  <2>1. Batch = EnforceParallelSafety(pm, Runnable)
    BY <1>3 DEF Batch
  <2>2. ASSUME NEW s \in Batch, NEW t \in Batch, s # t, pm[s] # NoPM,
               pm[s] = pm[t]
        PROVE  FALSE
    <3>1. s \in Runnable /\ t \in Runnable /\ s <= t /\ t <= s
      BY <2>1, <2>2 DEF EnforceParallelSafety
    <3>. QED BY <1>2, <2>2, <3>1 DEF Steps
  <2>. QED BY <1>1, <2>1, <2>2 DEF EnforceParallelSafety
<1>4. CASE ~(Cardinality(Runnable) > 1)
  <2>1. Batch = Runnable
    BY <1>4 DEF Batch
  <2>2. IsFiniteSet(Runnable)
    BY <1>2, FiniteSteps
  <2>3. \A s, t \in Batch : s = t
    BY <1>4, <2>1, <2>2, AtMostOne
  <2>. QED BY <1>1, <2>1, <2>3
<1>. QED BY <1>3, <1>4

\* With nothing left to run and nothing failed, a valid plan is complete.
LEMMA NothingLeft ==
    ASSUME TypeOK, Valid(deps), Runnable = {}, Skipped = {}
    PROVE  completed = Steps
<1> DEFINE S == Steps \ completed
<1>1. SUFFICES ASSUME S # {} PROVE FALSE
  BY DEF TypeOK
<1>2. PICK s \in S : deps[s] \cap S = {}
  BY <1>1 DEF Valid, Acyclic
<1>3. deps[s] \subseteq completed
  BY <1>2 DEF Valid, KnownRefs
<1>4. s \in Ready(deps, completed)
  BY <1>2, <1>3 DEF Ready
<1>. QED BY <1>4 DEF Runnable

\* The loop's guard turns false with no failure only when all is complete.
LEMMA CountedOut ==
    ASSUME TypeOK, ~LoopGuard, failed = {}
    PROVE  completed = Steps
<1>1. completed \in SUBSET Steps
  BY DEF TypeOK
<1>2. Cardinality(completed) \in Nat /\ Cardinality(failed) = 0
  BY <1>1, FiniteSteps, FS_EmptySet
<1>3. Cardinality(completed) >= N
  BY <1>2, NAssumption DEF LoopGuard
<1>4. Cardinality(completed) <= Cardinality(Steps)
  BY <1>1, FiniteSteps, FS_Subset
<1>5. Cardinality(completed) = Cardinality(Steps)
  BY <1>2, <1>3, <1>4, FiniteSteps, NAssumption
<1>. QED BY <1>1, <1>5, FiniteSteps, FS_Subset

(***************************************************************************)
(* The invariant is inductive                                              *)
(***************************************************************************)

\* Every plan the executor is given is well typed.
LEMMA PlanTypes == PlanDeps \subseteq [Steps -> SUBSET (Steps \cup {Unknown})]
<1> SUFFICES ASSUME NEW listed \in SUBSET Steps,
                    NEW d \in [Steps -> SUBSET (Steps \cup {Unknown})]
    PROVE AddImplicitDeps(listed, d) \in [Steps -> SUBSET (Steps \cup {Unknown})]
  BY DEF PlanDeps
<1>1. \A s \in Steps : s # 1 => s - 1 \in Steps
  BY NAssumption DEF Steps
<1>. QED BY <1>1 DEF AddImplicitDeps

\* The executor starts within the invariant.
LEMMA InitInv == Init => IInv
BY PlanTypes
DEF Init, IInv, TypeOK, OnValidPlan, Idle, Ended, OnlyAfterDependencies,
    OnePerPackageManager, DoneMeansAllCompleted

\* A step that returns leaves the batch; what it adds to completed was ready.
LEMMA FinishInv ==
    ASSUME IInv, NEW s \in running, pc = "batch", UNCHANGED plan,
           running' = running \ {s},
           completed' \in {completed, completed \cup {s}},
           pc' \in {"pick", "batch", "returned"},
           pc' = "pick" => running' = {} /\ status' = "none",
           status' # "done"
    PROVE  /\ OnValidPlan' /\ Idle' /\ Ended' /\ OnlyAfterDependencies'
           /\ OnePerPackageManager' /\ DoneMeansAllCompleted'
<1>1. OnValidPlan' /\ Idle' /\ Ended' /\ DoneMeansAllCompleted'
  BY DEF IInv, OnValidPlan, Idle, Ended, DoneMeansAllCompleted, plan
<1>2. OnlyAfterDependencies'
  BY DEF IInv, OnlyAfterDependencies, plan
<1>3. OnePerPackageManager'
  BY DEF IInv, OnePerPackageManager, plan
<1>. QED BY <1>1, <1>2, <1>3

\* Every action of the executor keeps the invariant.
LEMMA NextInv == IInv /\ [Next]_vars => IInv'
<1> SUFFICES ASSUME IInv, [Next]_vars PROVE IInv'
  OBVIOUS
<1>1. CASE Refuse
  BY <1>1
  DEF Refuse, IInv, TypeOK, plan, OnValidPlan, Idle, Ended,
      OnlyAfterDependencies, OnePerPackageManager, DoneMeansAllCompleted
<1>2. CASE Accept
  <2>1. running = {} /\ status = "none"
    BY <1>2 DEF Accept, IInv, Idle
  <2>. QED BY <1>2, <2>1
  DEF Accept, IInv, TypeOK, plan, OnValidPlan, Idle, Ended,
      OnlyAfterDependencies, OnePerPackageManager, DoneMeansAllCompleted
<1>3. CASE StartBatch
  <2>1. /\ Batch \subseteq Ready(deps, completed)
        /\ \A s, t \in Batch : s # t => pm[s] = NoPM \/ pm[s] # pm[t]
    BY BatchLemma DEF IInv
  <2>2. /\ running' = Batch /\ UNCHANGED <<plan, completed, status>>
        /\ pc = "pick" /\ pc' = "batch" /\ inline' \in BOOLEAN
        /\ failed' = failed \cup Skipped
    BY <1>3 DEF StartBatch
  <2>3. TypeOK'
    BY <2>1, <2>2 DEF IInv, TypeOK, plan, Skipped, Ready
  <2>4. OnlyAfterDependencies'
    BY <2>1, <2>2 DEF IInv, OnlyAfterDependencies, plan, Ready
  <2>5. OnePerPackageManager'
    BY <2>1, <2>2 DEF OnePerPackageManager, plan
  <2>. QED BY <2>2, <2>3, <2>4, <2>5
       DEF IInv, OnValidPlan, Idle, Ended, DoneMeansAllCompleted, plan
<1>4. CASE SaveFinal
  <2>1. /\ UNCHANGED <<plan, completed, running, inline>>
        /\ pc = "pick" /\ pc' = "returned"
        /\ status' = IF failed' = {} THEN "done" ELSE "failed"
        /\ \/ ~LoopGuard /\ failed' = failed
           \/ LoopGuard /\ Runnable = {} /\ failed' = failed \cup Skipped
    BY <1>4 DEF SaveFinal
  <2>2. TypeOK'
    BY <2>1 DEF IInv, TypeOK, plan, Skipped, Ready
  <2>3. failed' = {} => completed = Steps
    <3>1. CASE ~LoopGuard /\ failed' = failed
      BY <3>1, CountedOut DEF IInv
    <3>2. CASE Runnable = {} /\ failed' = failed \cup Skipped
      BY <2>1, <3>2, NothingLeft DEF IInv, OnValidPlan
    <3>. QED BY <2>1, <3>1, <3>2
  <2>4. DoneMeansAllCompleted'
    BY <2>1, <2>3 DEF DoneMeansAllCompleted, plan
  <2>. QED BY <2>1, <2>2, <2>4
       DEF IInv, OnValidPlan, Idle, Ended, OnlyAfterDependencies,
           OnePerPackageManager, plan
<1>5. ASSUME NEW s \in Steps, FinishOk(s) PROVE IInv'
  <2>1. TypeOK'
    BY <1>5 DEF FinishOk, AfterBatch, IInv, TypeOK, plan
  <2>. QED BY <1>5, <2>1, FinishInv DEF FinishOk, AfterBatch, IInv
<1>6. ASSUME NEW s \in Steps, FinishFailed(s) PROVE IInv'
  <2>1. TypeOK'
    BY <1>6 DEF FinishFailed, AfterBatch, IInv, TypeOK, plan
  <2>. QED
    BY <1>6, <2>1, FinishInv DEF FinishFailed, AfterBatch, IInv
<1>7. ASSUME NEW s \in Steps, FinishRaised(s) PROVE IInv'
  <2>1. TypeOK'
    BY <1>7 DEF FinishRaised, AfterBatch, IInv, TypeOK, plan
  <2>. QED
    BY <1>7, <2>1, FinishInv DEF FinishRaised, AfterBatch, IInv
<1>8. ASSUME NEW s \in Steps, Drain(s) PROVE IInv'
  <2>1. TypeOK'
    BY <1>8 DEF Drain, AfterBatch, IInv, TypeOK, plan
  <2>. QED BY <1>8, <2>1, FinishInv DEF Drain, AfterBatch, IInv
<1>9. CASE UNCHANGED vars
  BY <1>9
  DEF vars, IInv, TypeOK, OnValidPlan, Idle, Ended, OnlyAfterDependencies,
      OnePerPackageManager, DoneMeansAllCompleted
<1>. QED
  BY <1>1, <1>2, <1>3, <1>4, <1>5, <1>6, <1>7, <1>8, <1>9 DEF Next, Fail

\* The inductive invariant holds in every reachable state of the executor.
THEOREM Invariance == Spec => []IInv
BY InitInv, NextInv, PTL DEF Spec

\* No step runs, or counts as completed, ahead of its dependencies.
THEOREM DependenciesFirst == Spec => []OnlyAfterDependencies
<1>1. IInv => OnlyAfterDependencies
  BY DEF IInv
<1>. QED BY <1>1, Invariance, PTL

\* Two steps that need one package manager's lock never run together.
THEOREM PackageManagersExclusive == Spec => []OnePerPackageManager
<1>1. IInv => OnePerPackageManager
  BY DEF IInv
<1>. QED BY <1>1, Invariance, PTL

\* A plan is saved as done only when every one of its steps has completed.
THEOREM DoneIsComplete == Spec => []DoneMeansAllCompleted
<1>1. IInv => DoneMeansAllCompleted
  BY DEF IInv
<1>. QED BY <1>1, Invariance, PTL

(***************************************************************************)
(* What is left when the loop ends                                         *)
(***************************************************************************)

\* When no step is counted twice and the guard is false, all are counted.
LEMMA AllCounted ==
    ASSUME TypeOK, ~LoopGuard, completed \cap failed = {}
    PROVE  completed \cup failed = Steps
<1>1. completed \in SUBSET Steps /\ failed \in SUBSET Steps
  BY DEF TypeOK
<1>2. /\ IsFiniteSet(completed) /\ Cardinality(completed) \in Nat
      /\ IsFiniteSet(failed) /\ Cardinality(failed) \in Nat
  BY <1>1, FiniteSteps
<1>3. Cardinality(completed \cup failed) = Cardinality(completed) + Cardinality(failed)
  <2>1. Cardinality(completed \cap failed) = 0
    <3>1. completed \cap failed = {}
      OBVIOUS
    <3> QED
      BY <3>1, FS_EmptySet
  <2>2. Cardinality(completed \cup failed)
          = Cardinality(completed) + Cardinality(failed) - Cardinality(completed \cap failed)
    BY <1>2, FS_Union, Zenon
  <2> QED
    BY <1>2, <2>1, <2>2
<1>4. completed \cup failed \in SUBSET Steps
  BY <1>1
<1>5. Cardinality(completed \cup failed) <= Cardinality(Steps)
  BY <1>4, FiniteSteps, FS_Subset
<1>6. Cardinality(completed \cup failed) = Cardinality(Steps)
  BY <1>2, <1>3, <1>5, FiniteSteps, NAssumption DEF LoopGuard
<1> QED
  BY <1>4, <1>6, FiniteSteps, FS_Subset

Left == OnlyBlockedStepsLeft /\ (status \in {"done", "failed"} => pc = "returned")

LEMMA LeftStep == IInv /\ Left /\ [Next]_vars => Left'
<1> SUFFICES ASSUME IInv, Left, [Next]_vars PROVE Left'
  OBVIOUS
<1>idle. pc \in {"start", "pick"} => status = "none"
  BY DEF IInv, Idle
<1>1. CASE Refuse \/ Accept \/ StartBatch
  <2>1. status' \in {"none", "invalid"}
    BY <1>1, <1>idle DEF Refuse, Accept, StartBatch
  <2> QED
    BY <2>1 DEF Left, OnlyBlockedStepsLeft
<1>2. CASE SaveFinal
  <2>1. /\ UNCHANGED <<plan, completed>> /\ pc' = "returned"
        /\ \/ ~LoopGuard /\ failed' = failed
           \/ Runnable = {} /\ failed' = failed \cup Skipped
    BY <1>2 DEF SaveFinal
  <2>2. CASE ~LoopGuard /\ failed' = failed
    <3>1. completed \cap failed = {} => completed \cup failed = Steps
      BY <2>2, AllCounted DEF IInv
    <3> QED
      BY <2>1, <2>2, <3>1 DEF Left, OnlyBlockedStepsLeft
  <2>3. CASE Runnable = {} /\ failed' = failed \cup Skipped
    <3>1. \A s \in Steps \ (completed \cup failed') : s \notin Ready(deps, completed)
      BY <2>3 DEF Runnable
    <3> QED
      BY <2>1, <3>1 DEF Left, OnlyBlockedStepsLeft, Ready, plan
  <2> QED
    BY <2>1, <2>2, <2>3
<1>3. ASSUME NEW s \in Steps, FinishOk(s) \/ FinishFailed(s) \/ FinishRaised(s) \/ Drain(s)
      PROVE  Left'
  <2>1. status' \in {"none", "paused", "raised"}
    BY <1>3 DEF FinishOk, FinishFailed, FinishRaised, Drain
  <2> QED
    BY <2>1 DEF Left, OnlyBlockedStepsLeft
<1>4. CASE UNCHANGED vars
  BY <1>4 DEF vars, Left, OnlyBlockedStepsLeft
<1> QED
  BY <1>1, <1>2, <1>3, <1>4 DEF Next, Fail

\* When the loop ends, no step is left that could run, unless one that failed
\* was repeated with success.
THEOREM OnlyBlockedLeft == Spec => []OnlyBlockedStepsLeft
<1>1. Init => Left
  BY DEF Init, Left, OnlyBlockedStepsLeft
<1>2. Left => OnlyBlockedStepsLeft
  BY DEF Left
<1> QED
  BY <1>1, <1>2, LeftStep, Invariance, PTL DEF Spec

-----------------------------------------------------------------------------
\* The validation.

(***************************************************************************)
(* A set in the order of the plan                                          *)
(***************************************************************************)

\* The position of a step among those of S.
Rank(S) == [s \in S |-> Cardinality({t \in S : t <= s})]

\* Later steps have higher ranks.
LEMMA RankGrows ==
    ASSUME NEW S \in SUBSET Steps, NEW s \in S, NEW t \in S, s < t
    PROVE  Rank(S)[s] < Rank(S)[t]
<1> DEFINE Below(u) == {v \in S : v <= u}
<1>1. Below(s) \in SUBSET Steps /\ Below(t) \in SUBSET Steps
  OBVIOUS
<1>2. t \in Int /\ s \in Int
  BY DEF Steps
<1>3. Below(s) \in SUBSET Below(t)
  <2>1. ASSUME NEW v \in S, v <= s PROVE v <= t
    <3>1. v \in Int
      BY DEF Steps
    <3> QED
      BY <1>2, <2>1, <3>1
  <2> QED
    BY <2>1
<1>4. Below(s) # Below(t)
  BY <1>2
<1>5. /\ IsFiniteSet(Below(t))
      /\ Cardinality(Below(s)) \in Nat /\ Cardinality(Below(t)) \in Nat
  BY <1>1, FiniteSteps
<1>6. Rank(S)[s] = Cardinality(Below(s)) /\ Rank(S)[t] = Cardinality(Below(t))
  BY DEF Rank
<1> HIDE DEF Below
<1>7. /\ Cardinality(Below(s)) <= Cardinality(Below(t))
      /\ Cardinality(Below(s)) # Cardinality(Below(t))
  BY <1>3, <1>4, <1>5, FS_Subset
<1> QED
  BY <1>5, <1>6, <1>7

\* Ranks number the steps of S from 1.
LEMMA RankBijective ==
    ASSUME NEW S \in SUBSET Steps
    PROVE  Rank(S) \in Bijection(S, 1..Cardinality(S))
<1> DEFINE n == Cardinality(S)
<1>1. IsFiniteSet(S) /\ n \in Nat
  BY FiniteSteps
<1>2. ASSUME NEW s \in S PROVE Rank(S)[s] \in 1..n
  <2> DEFINE Below == {v \in S : v <= s}
  <2>1. Below \in SUBSET S /\ s \in Below
    BY DEF Steps
  <2>2. IsFiniteSet(Below) /\ Cardinality(Below) <= n
    BY <1>1, <2>1, FS_Subset
  <2>3. Cardinality(Below) \in Nat /\ Cardinality(Below) # 0
    BY <2>1, <2>2, FS_CardinalityType, FS_EmptySet
  <2>4. Rank(S)[s] = Cardinality(Below)
    BY DEF Rank
  <2> QED
    BY <1>1, <2>2, <2>3, <2>4
<1>3. Rank(S) \in [S -> 1..n]
  BY <1>2 DEF Rank
<1>4. ASSUME NEW s \in S, NEW t \in S, Rank(S)[s] = Rank(S)[t] PROVE s = t
  <2>1. s \in Int /\ t \in Int /\ Rank(S)[s] \in Int
    BY <1>3 DEF Steps
  <2>2. ~(s < t) /\ ~(t < s)
    BY <1>4, <2>1, RankGrows
  <2> QED
    BY <2>1, <2>2
<1>5. Rank(S) \in Injection(S, 1..n)
  BY <1>3, <1>4, Fun_IsInj
<1>6. IsFiniteSet(1..n) /\ Cardinality(1..n) = n
  BY <1>1, FS_Interval
<1>7. Rank(S) \in Surjection(S, 1..n)
  BY <1>5, <1>6, FS_Injection
<1> QED
  BY <1>5, <1>7 DEF Bijection

\* InPlanOrder lists the steps of S, each once.
LEMMA Listing ==
    ASSUME NEW S \in SUBSET Steps
    PROVE  /\ InPlanOrder(S) \in Seq(S)
           /\ \A s \in S : \E i \in 1..Len(InPlanOrder(S)) : InPlanOrder(S)[i] = s
           /\ \A i, j \in 1..Len(InPlanOrder(S)) :
                  InPlanOrder(S)[i] = InPlanOrder(S)[j] => i = j
<1> DEFINE n == Cardinality(S)
           Increasing(q) == \A i, j \in 1..n : i < j => q[i] < q[j]
           inverse == [i \in 1..n |-> CHOOSE s \in S : Rank(S)[s] = i]
<1>1. IsFiniteSet(S) /\ n \in Nat
  BY FiniteSteps
<1>2. ASSUME NEW i \in 1..n PROVE inverse[i] \in S /\ Rank(S)[inverse[i]] = i
  <2>1. \E s \in S : Rank(S)[s] = i
    BY RankBijective DEF Bijection, Surjection
  <2> QED
    BY <2>1
<1>3. inverse \in [1..n -> S]
  BY <1>2
<1>4. Increasing(inverse)
  <2> SUFFICES ASSUME NEW i \in 1..n, NEW j \in 1..n, i < j
               PROVE  inverse[i] < inverse[j]
    OBVIOUS
  <2> HIDE DEF inverse
  <2>1. inverse[i] \in Int /\ inverse[j] \in Int
    <3>1. inverse[i] \in Steps /\ inverse[j] \in Steps
      BY <1>3
    <3> QED
      BY <3>1 DEF Steps
  <2>2. ~(inverse[j] < inverse[i])
    BY <1>2, RankGrows
  <2>3. inverse[i] # inverse[j]
    BY <1>2
  <2> QED
    BY <2>1, <2>2, <2>3
<1>5. PICK q \in [1..n -> S] : q = InPlanOrder(S) /\ Increasing(q)
  <2>1. \E q \in [1..n -> S] : Increasing(q)
    BY <1>3, <1>4
  <2> QED
    BY <2>1 DEF InPlanOrder
<1>6. q \in Seq(S) /\ Len(q) = n
  BY <1>1
<1>7. ASSUME NEW i \in 1..n, NEW j \in 1..n, q[i] = q[j] PROVE i = j
  <2>1. q[i] \in Int /\ q[j] \in Int
    <3>1. q[i] \in Steps /\ q[j] \in Steps
      OBVIOUS
    <3> QED
      BY <3>1 DEF Steps
  <2> QED
    BY <1>5, <1>7, <2>1
<1>8. q \in Injection(1..n, S)
  BY <1>7, Fun_IsInj
<1>9. Cardinality(1..n) = n
  BY <1>1, FS_Interval
<1>10. q \in Surjection(1..n, S)
  BY <1>1, <1>8, <1>9, FS_Injection
<1>11. \A s \in S : \E i \in 1..n : q[i] = s
  BY <1>10 DEF Surjection
<1> HIDE DEF n
<1> QED
  BY <1>5, <1>6, <1>7, <1>11

(***************************************************************************)
(* The inductive invariant                                                 *)
(***************************************************************************)

Queued(s) == \E i \in 1..Len(queue) : queue[i] = s

\* The queue holds each step that is free of dependencies and not yet done.
QueueExact ==
    /\ \A s \in Steps : Queued(s) <=> s \notin done /\ deps[s] \subseteq done
    /\ \A i, j \in 1..Len(queue) : queue[i] = queue[j] => i = j

\* Steps are done behind their dependencies, so no group of them waits for
\* itself.
Peeled ==
    /\ \A s \in done : deps[s] \subseteq done
    /\ \A S \in SUBSET done : S # {} => \E s \in S : deps[s] \cap S = {}

LoopInv ==
    /\ KnownRefs(deps)
    /\ \A s \in Steps : inDegree[s] = Cardinality(deps[s] \ done)
    /\ QueueExact
    /\ processed = Cardinality(done)
    /\ Peeled

ValidationInv ==
    /\ ValidationTypeOK
    /\ vpc = "check" => processed = 0 /\ done = {} /\ queue = << >>
    /\ vpc = "loop" => LoopInv
    /\ DecidesValid

LEMMA ValidationInit == DagInit => ValidationInv
<1> SUFFICES ASSUME DagInit PROVE ValidationInv
  OBVIOUS
<1>1. deps \in [Steps -> SUBSET (Steps \cup {Unknown})]
  <2>1. PICK listed \in SUBSET Steps, d \in [Steps -> SUBSET (Steps \cup {Unknown})] :
           deps = AddImplicitDeps(listed, d)
    BY DEF DagInit, Init, PlanDeps
  <2>2. ASSUME NEW s \in Steps, s # 1 PROVE s - 1 \in Steps
    BY <2>2, NAssumption DEF Steps
  <2> QED
    BY <2>1, <2>2 DEF AddImplicitDeps
<1>2. ValidationTypeOK
  <2>1. inDegree \in [Steps -> 0..N]
    BY NAssumption DEF DagInit, Init
  <2>2. queue \in Seq(Steps)
    BY EmptySeq DEF DagInit, Init
  <2> QED
    BY <1>1, <2>1, <2>2 DEF DagInit, Init, ValidationTypeOK
<1> QED
  BY <1>2 DEF DagInit, Init, ValidationInv, DecidesValid

(***************************************************************************)
(* The loop                                                                *)
(***************************************************************************)

\* The steps without dependencies come first.
LEMMA CountStep == ValidationInv /\ CountInDegrees /\ UNCHANGED deps => ValidationInv'
<1> SUFFICES ASSUME ValidationInv, CountInDegrees, UNCHANGED deps PROVE ValidationInv'
  OBVIOUS
<1> DEFINE free == {s \in Steps : deps[s] = {}}
<1>1. /\ deps' = deps /\ done' = {} /\ processed' = 0 /\ vpc' = "loop"
      /\ errors' = errors
      /\ inDegree' = [s \in Steps |-> Cardinality(deps[s])]
      /\ queue' = InPlanOrder(free)
      /\ KnownRefs(deps)
  BY DEF ValidationInv, CountInDegrees
<1>2. /\ queue' \in Seq(free)
      /\ \A s \in free : \E i \in 1..Len(queue') : queue'[i] = s
      /\ \A i, j \in 1..Len(queue') : queue'[i] = queue'[j] => i = j
  <2>1. free \in SUBSET Steps
    OBVIOUS
  <2> HIDE DEF free
  <2> QED
    BY <1>1, <2>1, Listing, Zenon
<1>3. queue' \in Seq(Steps)
  BY <1>2, SeqMonotonic
<1>4. ASSUME NEW s \in Steps PROVE Cardinality(deps[s]) \in 0..N
  BY <1>1, FiniteSteps DEF KnownRefs
<1>5. ValidationTypeOK'
  BY <1>1, <1>3, <1>4 DEF ValidationInv, ValidationTypeOK
<1>6. ASSUME NEW s \in Steps PROVE Queued(s)' <=> deps[s] \subseteq {}
  <2>1. ASSUME NEW i \in 1..Len(queue') PROVE queue'[i] \in free
    BY <1>2, ElementOfSeq, Zenon
  <2> QED
    BY <1>2, <2>1 DEF Queued
<1>7. QueueExact'
  BY <1>1, <1>2, <1>6 DEF QueueExact
<1>8. Peeled'
  <2>1. \A S \in SUBSET done' : S = {}
    BY <1>1
  <2> QED
    BY <1>1, <2>1 DEF Peeled
<1>9. ASSUME NEW s \in Steps PROVE inDegree'[s] = Cardinality(deps[s] \ {})
  <2>1. deps[s] \ {} = deps[s]
    OBVIOUS
  <2> QED
    BY <1>1, <2>1
<1>10. LoopInv'
  BY <1>1, <1>7, <1>8, <1>9, FS_EmptySet DEF LoopInv
<1> QED
  BY <1>1, <1>5, <1>10 DEF ValidationInv, DecidesValid

\* A round of the loop takes a free step, and frees those that waited for it
\* alone.
LEMMA ProcessStep == ValidationInv /\ Process /\ UNCHANGED deps => ValidationInv'
<1> SUFFICES ASSUME ValidationInv, Process, UNCHANGED deps PROVE ValidationInv'
  OBVIOUS
<1> DEFINE node == Head(queue)
           freed == {s \in Successors(node) : inDegree[s] = 1}
           tail == Tail(queue)
           new == InPlanOrder(freed)
<1>1. /\ deps' = deps /\ done' = done \cup {node} /\ processed' = processed + 1
      /\ vpc = "loop" /\ vpc' = "loop" /\ errors' = errors
      /\ inDegree' = [s \in Steps |->
              IF s \in Successors(node) THEN inDegree[s] - 1 ELSE inDegree[s]]
      /\ queue' = tail \o new
      /\ queue # << >>
  BY DEF Process
<1>2. /\ LoopInv /\ ValidationTypeOK
      /\ deps \in [Steps -> SUBSET Steps] /\ done \in SUBSET Steps
  BY <1>1 DEF ValidationInv, LoopInv, ValidationTypeOK, KnownRefs
<1>3. /\ node \in Steps /\ node = queue[1] /\ 1 \in 1..Len(queue)
      /\ tail \in Seq(Steps) /\ Len(tail) = Len(queue) - 1 /\ Len(queue) \in Nat
      /\ \A i \in 1..Len(tail) : tail[i] = queue[i + 1]
  BY <1>1, <1>2, HeadTailProperties, LenProperties, EmptySeq DEF ValidationTypeOK
<1>4. /\ freed \in SUBSET Steps
      /\ \A s \in Steps : s \in freed <=> node \in deps[s] /\ inDegree[s] = 1
  BY DEF Successors
<1>5. /\ new \in Seq(freed) /\ new \in Seq(Steps) /\ Len(new) \in Nat
      /\ \A s \in freed : \E i \in 1..Len(new) : new[i] = s
      /\ \A i, j \in 1..Len(new) : new[i] = new[j] => i = j
      /\ \A i \in 1..Len(new) : new[i] \in freed
  <2> HIDE DEF freed
  <2>1. /\ new \in Seq(freed)
        /\ \A s \in freed : \E i \in 1..Len(new) : new[i] = s
        /\ \A i, j \in 1..Len(new) : new[i] = new[j] => i = j
    BY <1>4, Listing, Zenon
  <2> HIDE DEF new
  <2>2. new \in Seq(Steps)
    BY <1>4, <2>1, SeqMonotonic
  <2> QED
    BY <2>1, <2>2, ElementOfSeq, LenProperties
<1> HIDE DEF node, freed, tail, new
<1>6. /\ queue' \in Seq(Steps) /\ Len(queue') = Len(tail) + Len(new)
      /\ \A i \in 1..Len(queue') :
            queue'[i] = IF i <= Len(tail) THEN tail[i] ELSE new[i - Len(tail)]
      /\ Len(tail) \in Nat
  <2>1. /\ tail \o new \in Seq(Steps) /\ Len(tail \o new) = Len(tail) + Len(new)
        /\ \A i \in 1..Len(tail) + Len(new) :
              (tail \o new)[i] = IF i <= Len(tail) THEN tail[i] ELSE new[i - Len(tail)]
    <3>1. tail \in Seq(Steps) /\ new \in Seq(Steps)
      BY <1>3, <1>5
    <3> QED
      BY <3>1, ConcatProperties
  <2>2. Len(tail) \in Nat
    BY <1>3, LenProperties
  <2> QED
    BY <1>1, <2>1, <2>2, Zenon
<1>7. node \notin done /\ deps[node] \subseteq done
  BY <1>2, <1>3 DEF LoopInv, QueueExact, Queued
<1>8. ASSUME NEW s \in Steps
      PROVE  /\ IsFiniteSet(deps[s] \ done) /\ Cardinality(deps[s] \ done) \in 0..N
             /\ deps[s] \ done' = (deps[s] \ done) \ {node}
             /\ Cardinality(deps[s] \ done') =
                   IF node \in deps[s] THEN inDegree[s] - 1 ELSE inDegree[s]
             /\ node \in deps[s] => Cardinality(deps[s] \ done) # 0
  <2>1. IsFiniteSet(deps[s] \ done) /\ Cardinality(deps[s] \ done) \in 0..N
    BY <1>2, FiniteSteps
  <2>2. deps[s] \ done' = (deps[s] \ done) \ {node}
    BY <1>1
  <2>3. Cardinality((deps[s] \ done) \ {node}) =
          IF node \in deps[s] \ done THEN Cardinality(deps[s] \ done) - 1
          ELSE Cardinality(deps[s] \ done)
    BY <2>1, FS_RemoveElement, Zenon
  <2>4. node \in deps[s] <=> node \in deps[s] \ done
    BY <1>7
  <2>5. inDegree[s] = Cardinality(deps[s] \ done)
    BY <1>2 DEF LoopInv
  <2>6. node \in deps[s] => Cardinality(deps[s] \ done) # 0
    BY <2>1, <2>4, FS_EmptySet
  <2> QED
    BY <2>1, <2>2, <2>3, <2>4, <2>5, <2>6
<1>9. ASSUME NEW s \in Steps
      PROVE  inDegree'[s] = Cardinality(deps[s] \ done') /\ inDegree'[s] \in 0..N
  <2>1. inDegree'[s] = IF node \in deps[s] THEN inDegree[s] - 1 ELSE inDegree[s]
    BY <1>1 DEF Successors
  <2>2. inDegree[s] = Cardinality(deps[s] \ done)
    BY <1>2 DEF LoopInv
  <2>3. inDegree'[s] = Cardinality(deps[s] \ done')
    BY <1>8, <2>1, Zenon
  <2>4. inDegree[s] \in 0..N /\ (node \in deps[s] => inDegree[s] # 0)
    BY <1>8, <2>2
  <2>5. inDegree'[s] \in 0..N
    BY <2>1, <2>4, NAssumption
  <2> QED
    BY <2>3, <2>5
<1>10. \A s \in Steps : s \in freed <=> node \in deps[s] /\ deps[s] \ done = {node}
  <2> SUFFICES ASSUME NEW s \in Steps, node \in deps[s]
               PROVE  inDegree[s] = 1 <=> deps[s] \ done = {node}
    BY <1>4
  <2>1. inDegree[s] = Cardinality(deps[s] \ done)
    BY <1>2 DEF LoopInv
  <2>2. Cardinality(deps[s] \ done) = 1 <=> \E x : deps[s] \ done = {x}
    BY <1>8, FS_Singleton, Zenon
  <2>3. node \in deps[s] \ done
    BY <1>7
  <2> QED
    BY <2>1, <2>2, <2>3
<1>11. \A s \in freed : s \in Steps /\ s \notin done' /\ deps[s] \subseteq done'
                          /\ ~(deps[s] \subseteq done)
  BY <1>1, <1>2, <1>4, <1>7, <1>10 DEF LoopInv, Peeled
<1>12. ASSUME NEW i \in 1..Len(tail)
       PROVE  /\ tail[i] \in Steps /\ tail[i] # node
              /\ tail[i] \notin done /\ deps[tail[i]] \subseteq done
  <2>1. i + 1 \in 1..Len(queue) /\ tail[i] = queue[i + 1] /\ i + 1 # 1
    BY <1>3
  <2>2. tail[i] \in Steps
    BY <1>3, ElementOfSeq
  <2>3. Queued(tail[i])
    BY <2>1 DEF Queued
  <2>4. queue[i + 1] # queue[1]
    BY <1>2, <1>3, <2>1 DEF LoopInv, QueueExact
  <2> QED
    BY <1>2, <1>3, <2>1, <2>2, <2>3, <2>4 DEF LoopInv, QueueExact
<1>13. ASSUME NEW s \in Steps
       PROVE  Queued(s)' <=> s \notin done' /\ deps[s] \subseteq done'
  <2>1. ASSUME NEW i \in 1..Len(queue')
        PROVE  queue'[i] \notin done' /\ deps[queue'[i]] \subseteq done'
    <3>1. CASE i <= Len(tail)
      <4>1. i \in 1..Len(tail) /\ queue'[i] = tail[i]
        BY <1>3, <1>6, <3>1
      <4> QED
        BY <1>1, <1>12, <4>1
    <3>2. CASE ~(i <= Len(tail))
      <4>1. i - Len(tail) \in 1..Len(new) /\ queue'[i] = new[i - Len(tail)]
        BY <1>3, <1>5, <1>6, <3>2
      <4> QED
        BY <1>5, <1>11, <4>1
    <3> QED
      BY <3>1, <3>2
  <2>2. ASSUME s \notin done', deps[s] \subseteq done' PROVE Queued(s)'
    <3>1. CASE s \in freed
      <4>1. PICK i \in 1..Len(new) : new[i] = s
        BY <1>5, <3>1
      <4>2. /\ i + Len(tail) \in 1..Len(queue') /\ ~(i + Len(tail) <= Len(tail))
            /\ i + Len(tail) - Len(tail) = i
        <5>1. Len(tail) \in Nat /\ Len(new) \in Nat /\ Len(queue') = Len(tail) + Len(new)
          BY <1>5, <1>6
        <5> QED
          BY <5>1
      <4>3. queue'[i + Len(tail)] = s
        BY <1>6, <4>1, <4>2
      <4> QED
        BY <4>2, <4>3 DEF Queued
    <3>2. CASE s \notin freed
      <4>1. s \notin done /\ s # node /\ deps[s] \subseteq done
        BY <1>1, <1>7, <1>10, <2>2, <3>2
      <4>2. PICK j \in 1..Len(queue) : queue[j] = s
        BY <1>2, <4>1 DEF LoopInv, QueueExact, Queued
      <4>3. j # 1 /\ j \in Int
        BY <1>3, <4>1, <4>2
      <4>4. j - 1 \in 1..Len(tail) /\ (j - 1) + 1 = j
        BY <1>3, <4>2, <4>3
      <4>5. tail[j - 1] = s
        BY <1>3, <4>2, <4>4
      <4>6. j - 1 \in 1..Len(queue') /\ queue'[j - 1] = s
        BY <1>3, <1>5, <1>6, <4>4, <4>5
      <4> QED
        BY <4>6 DEF Queued
    <3> QED
      BY <3>1, <3>2
  <2> QED
    BY <2>1, <2>2 DEF Queued
<1>14. ASSUME NEW i \in 1..Len(queue'), NEW j \in 1..Len(queue'), queue'[i] = queue'[j]
       PROVE  i = j
  <2> DEFINE Old(k) == k \in 1..Len(tail) /\ queue'[k] = tail[k]
             New(k) == k - Len(tail) \in 1..Len(new) /\ queue'[k] = new[k - Len(tail)]
  <2>1. ASSUME NEW k \in 1..Len(queue') PROVE Old(k) \/ New(k)
    BY <1>3, <1>5, <1>6
  <2>2. CASE Old(i) /\ Old(j)
    <3>1. /\ i + 1 \in 1..Len(queue) /\ j + 1 \in 1..Len(queue)
          /\ queue[i + 1] = queue[j + 1]
      <4>1. i \in 1..Len(tail) /\ j \in 1..Len(tail) /\ tail[i] = tail[j]
        BY <1>14, <2>2
      <4>2. \A k \in 1..Len(tail) : k + 1 \in 1..Len(queue) /\ tail[k] = queue[k + 1]
        BY <1>3
      <4> QED
        BY <4>1, <4>2
    <3>2. i + 1 = j + 1
      BY <1>2, <3>1 DEF LoopInv, QueueExact
    <3> QED
      BY <3>2
  <2>3. CASE New(i) /\ New(j)
    <3>1. i - Len(tail) = j - Len(tail)
      BY <1>5, <1>14, <2>3
    <3> QED
      BY <1>3, <3>1
  <2>4. ASSUME NEW k \in 1..Len(queue'), NEW l \in 1..Len(queue'), Old(k), New(l)
        PROVE  queue'[k] # queue'[l]
    <3>1. deps[queue'[k]] \subseteq done
      BY <1>12, <2>4
    <3>2. queue'[l] \in freed
      BY <1>5, <2>4
    <3> QED
      BY <1>11, <3>1, <3>2
  <2> HIDE DEF Old, New
  <2> QED
    BY <1>14, <2>1, <2>2, <2>3, <2>4
<1>15. QueueExact'
  BY <1>1, <1>13, <1>14 DEF QueueExact
<1>16. processed' = Cardinality(done')
  <2>1. IsFiniteSet(done) /\ Cardinality(done) \in 0..N
    BY <1>2, FiniteSteps
  <2>2. Cardinality(done \cup {node}) = Cardinality(done) + 1
    BY <1>7, <2>1, FS_AddElement, Zenon
  <2> QED
    BY <1>1, <1>2, <2>2 DEF LoopInv
<1>17. Peeled'
  <2>1. \A s \in done' : deps[s] \subseteq done'
    BY <1>1, <1>2, <1>7 DEF LoopInv, Peeled
  <2>2. ASSUME NEW S \in SUBSET done', S # {} PROVE \E s \in S : deps[s] \cap S = {}
    <3>1. CASE S \ {node} = {}
      <4>1. S = {node}
        BY <2>2, <3>1
      <4> QED
        BY <1>7, <4>1
    <3>2. CASE S \ {node} # {}
      <4>1. S \ {node} \in SUBSET done
        BY <1>1
      <4>2. PICK s \in S \ {node} : deps[s] \cap (S \ {node}) = {}
        BY <1>2, <3>2, <4>1 DEF LoopInv, Peeled
      <4>3. node \notin deps[s]
        BY <1>2, <1>7, <4>1 DEF LoopInv, Peeled
      <4> QED
        BY <4>2, <4>3
    <3> QED
      BY <3>1, <3>2
  <2> QED
    BY <1>1, <2>1, <2>2 DEF Peeled
<1>18. ValidationTypeOK'
  <2>1. inDegree' \in [Steps -> 0..N]
    <3>1. \A s \in Steps : inDegree'[s] \in 0..N
      BY <1>9
    <3> QED
      BY <1>1, <3>1
  <2>2. done' \subseteq Steps /\ processed' \in Nat
    BY <1>1, <1>2, <1>3 DEF ValidationTypeOK
  <2> QED
    BY <1>1, <1>2, <1>6, <2>1, <2>2 DEF ValidationTypeOK
<1>19. LoopInv'
  BY <1>1, <1>2, <1>9, <1>15, <1>16, <1>17 DEF LoopInv
<1> QED
  BY <1>1, <1>18, <1>19 DEF ValidationInv, DecidesValid

(***************************************************************************)
(* The verdict                                                             *)
(***************************************************************************)

\* An empty queue has done all steps or leaves a group that waits for itself.
LEMMA VerdictRight ==
    ASSUME ValidationTypeOK, LoopInv, queue = << >>
    PROVE  processed < N <=> ~Valid(deps)
<1>1. done \in SUBSET Steps /\ deps \in [Steps -> SUBSET Steps]
  BY DEF ValidationTypeOK, LoopInv, KnownRefs
<1>2. \A s \in Steps : ~(s \notin done /\ deps[s] \subseteq done)
  BY EmptySeq DEF LoopInv, QueueExact, Queued
<1>3. /\ IsFiniteSet(Steps) /\ Cardinality(Steps) = N
      /\ processed = Cardinality(done) /\ processed \in 0..N
  BY <1>1, FiniteSteps DEF LoopInv
<1>4. CASE done = Steps
  <2>1. ~(processed < N)
    BY <1>3, <1>4, NAssumption
  <2>2. \A S \in SUBSET Steps : S # {} => \E s \in S : deps[s] \cap S = {}
    BY <1>4 DEF LoopInv, Peeled
  <2>3. Valid(deps)
    <3>1. \A S \in (SUBSET Steps) \ {{}} : \E s \in S : deps[s] \cap S = {}
      BY <2>2, Zenon
    <3> QED
      BY <3>1, Zenon DEF LoopInv, Valid, Acyclic
  <2> QED
    BY <2>1, <2>3
<1>5. CASE done # Steps
  <2>1. processed < N
    <3>1. Cardinality(Steps) = Cardinality(done) => Steps = done
      BY <1>1, <1>3, FS_Subset, Zenon
    <3>2. processed # N
      BY <1>3, <1>5, <3>1
    <3> QED
      BY <1>3, <3>2, NAssumption
  <2>2. Steps \ done \in (SUBSET Steps) \ {{}}
    <3>1. Steps \ done # {} /\ Steps \ done \subseteq Steps
      BY <1>1, <1>5
    <3> QED
      BY <3>1, Zenon
  <2>3. \A s \in Steps \ done : deps[s] \cap (Steps \ done) # {}
    BY <1>1, <1>2
  <2>4. ~Acyclic(deps)
    BY <2>2, <2>3 DEF Acyclic
  <2> QED
    BY <2>1, <2>4 DEF Valid
<1> QED
  BY <1>4, <1>5

LEMMA ValidationStep == ValidationInv /\ [DagNext]_dagVars => ValidationInv'
<1> SUFFICES ASSUME ValidationInv, [DagNext]_dagVars PROVE ValidationInv'
  OBVIOUS
<1>1. CASE Validate
  <2>0. UNCHANGED deps
    BY <1>1 DEF Validate, executor, vars
  <2>1. CASE ReportUnknown
    BY <2>0, <2>1 DEF ReportUnknown, ValidationInv, ValidationTypeOK, DecidesValid, Valid
  <2>2. CASE CountInDegrees
    BY <2>0, <2>2, CountStep
  <2>3. CASE Process
    BY <2>0, <2>3, ProcessStep
  <2>4. CASE Report
    <3>1. ValidationTypeOK'
      BY <2>0, <2>4 DEF Report, ValidationInv, ValidationTypeOK
    <3>2. processed < N <=> ~Valid(deps)
      BY <2>4, VerdictRight DEF Report, ValidationInv
    <3>3. DecidesValid'
      BY <2>0, <2>4, <3>2 DEF Report, DecidesValid
    <3> QED
      BY <2>4, <3>1, <3>3 DEF Report, ValidationInv
  <2> QED
    BY <1>1, <2>1, <2>2, <2>3, <2>4 DEF Validate
<1>2. CASE Start \/ Execute \/ UNCHANGED dagVars
  <2>1. UNCHANGED <<deps, inDegree, queue, processed, done, vpc, errors>>
    BY <1>2 DEF Start, Execute, StartBatch, SaveFinal, Fail, FinishOk, FinishFailed,
       FinishRaised, Drain, plan, validation, dagVars, executor, vars
  <2> QED
    BY <2>1 DEF ValidationInv, ValidationTypeOK, LoopInv, QueueExact, Queued, Peeled, DecidesValid
<1> QED
  BY <1>1, <1>2 DEF DagNext

\* While the loop runs the degrees are exact and what is queued is free.
LEMMA DegreesInv == ValidationInv => DegreesExact
<1> SUFFICES ASSUME ValidationInv, vpc = "loop" PROVE DegreesExact
  BY DEF DegreesExact
<1>1. LoopInv /\ queue \in Seq(Steps)
  BY DEF ValidationInv, ValidationTypeOK
<1>2. ASSUME NEW i \in 1..Len(queue)
      PROVE  queue[i] \notin done /\ deps[queue[i]] \subseteq done
  <2>1. queue[i] \in Steps
    BY <1>1, ElementOfSeq
  <2> QED
    BY <1>1, <2>1 DEF LoopInv, QueueExact, Queued
<1> QED
  BY <1>1, <1>2 DEF LoopInv, DegreesExact

LEMMA ValidationAlways == DagSpec => []ValidationInv
BY ValidationInit, ValidationStep, PTL DEF DagSpec

\* While the loop of _validate_dag runs, its degrees are exact.
THEOREM DegreesCorrect == DagSpec => []DegreesExact
BY DegreesInv, ValidationAlways, PTL

\* _validate_dag accepts a plan exactly when its references are known and no
\* group of its steps waits for itself.
THEOREM VerdictCorrect == DagSpec => []DecidesValid
<1>1. ValidationInv => DecidesValid
  BY DEF ValidationInv
<1> QED
  BY <1>1, ValidationAlways, PTL

-----------------------------------------------------------------------------
(***************************************************************************)
(* The whole implements the executor                                       *)
(***************************************************************************)

LEMMA StepImplements == DecidesValid /\ [DagNext]_dagVars => [Next]_vars
<1> SUFFICES ASSUME DecidesValid, [DagNext]_dagVars PROVE [Next]_vars
  OBVIOUS
<1>1. CASE Validate
  BY <1>1 DEF Validate, executor
<1>2. CASE Start
  <2>1. errors <=> ~Valid(deps)
    BY <1>2 DEF Start, DecidesValid
  <2>2. Refuse \/ Accept
    BY <1>2, <2>1 DEF Start, Refuse, Accept
  <2> QED
    BY <2>2 DEF Next
<1>3. CASE Execute
  BY <1>3 DEF Execute, Next
<1>4. CASE UNCHANGED dagVars
  BY <1>4 DEF dagVars, executor
<1> QED
  BY <1>1, <1>2, <1>3, <1>4 DEF DagNext

\* execute_plan_dag with Kahn's loop inside behaves as the executor that asks
\* whether the plan is valid: what is proved of that one holds of the whole.
THEOREM Implementation == DagSpec => ImplementsExecutor
<1>1. DagInit => Init
  BY DEF DagInit
<1>2. DagSpec => Spec
  BY <1>1, StepImplements, VerdictCorrect, PTL DEF DagSpec, Spec
<1> QED
  BY <1>2 DEF ImplementsExecutor
(***************************************************************************)
(* Progress.  ReturnsOrKeepsFailing is checked by TLC; what it rests on,   *)
(* besides the scheduling, holds for plans of any size: no batch is empty, *)
(* and only failed steps can keep the executor from running out of work.   *)
(***************************************************************************)

\* What a batch leaves out yields to a step that it runs, of the same package
\* manager and earlier in the plan.
LEMMA LeftOutYields ==
    ASSUME TypeOK, NEW s \in Runnable \ Batch
    PROVE  \E t \in Batch : pm[s] # NoPM /\ pm[t] = pm[s] /\ t < s
<1>1. Batch = EnforceParallelSafety(pm, Runnable)
  BY DEF Batch
<1>2. Runnable \subseteq Nat
  BY NAssumption DEF Runnable, Ready, Steps
<1>3. pm[s] # NoPM
  BY <1>1 DEF EnforceParallelSafety
<1> DEFINE Rivals == {t \in Runnable : pm[t] = pm[s]}
<1>4. PICK m \in Rivals : \A t \in Rivals : ~(<<t, m>> \in OpToRel(<, Nat))
  <2>1. Rivals \subseteq Nat /\ s \in Rivals
    BY <1>2
  <2>. HIDE DEF Rivals
  <2>. QED BY <2>1, WFMin, NatLessThanWellFounded
<1>5. \A t \in Rivals : m <= t
  <2> SUFFICES ASSUME NEW t \in Rivals, t < m PROVE FALSE
    BY <1>2
  <2>1. <<t, m>> \in Nat \X Nat /\ <<t, m>>[1] < <<t, m>>[2]
    BY <1>2
  <2>2. <<t, m>> \in OpToRel(<, Nat)
    BY <2>1, Zenon DEF OpToRel
  <2>. QED BY <1>4, <2>2
<1>6. m \in Batch
  BY <1>1, <1>5 DEF EnforceParallelSafety
<1>7. m < s
  BY <1>2, <1>5, <1>6
<1>. QED BY <1>3, <1>6, <1>7

\* For a plan of any size: a step that could run is left out of the batch
\* only for an earlier one that holds the lock of its package manager
\* (dag.py:155-178), so that the pool is used as far as the locks allow.
THEOREM BatchIsMaximal ==
    Spec => [](\A s \in Runnable \ Batch :
                  \E t \in Batch : pm[s] # NoPM /\ pm[t] = pm[s] /\ t < s)
<1>1. IInv => \A s \in Runnable \ Batch :
                 \E t \in Batch : pm[s] # NoPM /\ pm[t] = pm[s] /\ t < s
  BY LeftOutYields DEF IInv
<1>. QED BY <1>1, Invariance, PTL

\* A batch under way has steps to wait for, none of them completed before.
Busy == running \cap completed = {} /\ (pc = "batch" => running # {})

\* Every action of the executor keeps a batch busy.
LEMMA BusyStep == IInv /\ Busy /\ [Next]_vars => Busy'
<1> SUFFICES ASSUME IInv, Busy, [Next]_vars PROVE Busy'
  OBVIOUS
<1>1. CASE Refuse \/ Accept \/ SaveFinal
  BY <1>1 DEF Refuse, Accept, SaveFinal, Busy
<1>2. CASE StartBatch
  <2>1. Batch # {}
    BY <1>2, LeftOutYields DEF IInv, StartBatch
  <2>2. Batch \cap completed = {}
    BY BatchLemma DEF IInv, Ready
  <2>. QED BY <1>2, <2>1, <2>2 DEF StartBatch, Busy
<1>3. ASSUME NEW s \in Steps, FinishOk(s) \/ FinishFailed(s) \/ FinishRaised(s) \/ Drain(s)
      PROVE  Busy'
  <2>1. /\ s \in running /\ running' = running \ {s} /\ pc = "batch"
        /\ completed' \in {completed, completed \cup {s}}
        /\ running = {s} => pc' # "batch"
    BY <1>3 DEF FinishOk, FinishFailed, FinishRaised, Drain, AfterBatch
  <2>. QED BY <2>1 DEF Busy
<1>4. CASE UNCHANGED vars
  BY <1>4 DEF vars, Busy
<1>. QED BY <1>1, <1>2, <1>3, <1>4 DEF Next, Fail

\* How much is left to do: the steps not completed, each with the longest
\* round of the loop it may take, and what is left of this round.
WorkLeft ==
    (N + 2) * (N - Cardinality(completed))
      + CASE pc = "start" -> N + 2
          [] pc = "pick" -> N + 1
          [] pc = "batch" -> Cardinality(running)
          [] pc = "returned" -> 0

\* One step more completed is one whole round less.
LEMMA RoundLess ==
    ASSUME NEW a \in Int, NEW b \in Int, a >= b + 1
    PROVE  (N + 2) * a >= (N + 2) * b + (N + 2)
<1>1. PICK d \in Nat : a = b + 1 + d
  <2>1. a - b - 1 \in Nat
    OBVIOUS
  <2>. QED BY <2>1
<1>2. (N + 2) * a = (N + 2) * b + (N + 2) + (N + 2) * d
  BY <1>1, NAssumption
<1>3. (N + 2) * d >= 0 /\ (N + 2) * b \in Int /\ (N + 2) * d \in Int
  BY NAssumption
<1>. QED BY <1>2, <1>3, NAssumption

\* The measure of the work is a natural number.
LEMMA WorkIsNatural == IInv => WorkLeft \in Nat
<1> SUFFICES ASSUME IInv PROVE WorkLeft \in Nat
  OBVIOUS
<1>1. Cardinality(completed) \in 0..N /\ Cardinality(running) \in 0..N
  BY FiniteSteps DEF IInv, TypeOK
<1>2. (N + 2) * (N - Cardinality(completed)) \in Nat
  BY <1>1, NAssumption
<1>. QED BY <1>1, <1>2, NAssumption DEF WorkLeft, IInv, TypeOK

\* A step that leaves the batch makes it smaller by one.
LEMMA OneLess ==
    ASSUME NEW S \in SUBSET Steps, NEW s \in S
    PROVE  Cardinality(S \ {s}) = Cardinality(S) - 1
<1>1. IsFiniteSet(S)
  BY FiniteSteps
<1>. QED BY <1>1, FS_RemoveElement

\* A step that is added makes the set larger by one.
LEMMA OneMore ==
    ASSUME NEW S \in SUBSET Steps, NEW s \in Steps \ S
    PROVE  Cardinality(S \cup {s}) = Cardinality(S) + 1
<1>1. IsFiniteSet(S)
  BY FiniteSteps
<1>. QED BY <1>1, FS_AddElement

\* Every step but a failure leaves less to do.
LEMMA WorkShrinks == IInv /\ Busy /\ IInv' /\ Next => Fail \/ WorkLeft' < WorkLeft
<1> SUFFICES ASSUME IInv, Busy, IInv', Next, ~Fail PROVE WorkLeft' < WorkLeft
  OBVIOUS
<1> DEFINE C == Cardinality(completed)
           R == Cardinality(running)
<1>0. C \in 0..N /\ R \in 0..N /\ C' \in 0..N /\ R' \in 0..N
  BY FiniteSteps DEF IInv, TypeOK
<1>m. /\ (N + 2) * (N - C) \in Int /\ (N + 2) * (N - C') \in Int
      /\ completed' = completed => (N + 2) * (N - C') = (N + 2) * (N - C)
  BY <1>0, NAssumption
<1>1. CASE Refuse \/ Accept \/ SaveFinal
  <2>1. /\ completed' = completed
        /\ \/ pc = "start" /\ pc' \in {"pick", "returned"}
           \/ pc = "pick" /\ pc' = "returned"
    BY <1>1 DEF Refuse, Accept, SaveFinal
  <2>. QED BY <1>m, <2>1, NAssumption DEF WorkLeft
<1>2. CASE StartBatch
  <2>1. completed' = completed /\ pc = "pick" /\ pc' = "batch"
    BY <1>2 DEF StartBatch
  <2>. QED BY <1>0, <1>m, <2>1, NAssumption DEF WorkLeft
<1>3. ASSUME NEW s \in Steps, FinishOk(s) PROVE WorkLeft' < WorkLeft
  <2>1. /\ s \in running /\ pc = "batch" /\ pc' \in {"batch", "pick", "returned"}
        /\ completed' = completed \cup {s}
    BY <1>3 DEF FinishOk, AfterBatch
  <2>2. s \in Steps \ completed /\ completed \in SUBSET Steps
    BY <2>1 DEF Busy, IInv, TypeOK
  <2>3. C' = C + 1
    BY <2>1, <2>2, OneMore
  <2>4. (N + 2) * (N - C) >= (N + 2) * (N - C') + (N + 2)
    BY <1>0, <2>3, RoundLess, NAssumption
  <2>5. R \geq 1
    <3>1. running \in SUBSET Steps
      BY DEF IInv, TypeOK
    <3>2. Cardinality(running \ {s}) = R - 1 /\ Cardinality(running \ {s}) \in 0..N
      BY <2>1, <3>1, OneLess, FiniteSteps
    <3>. QED BY <1>0, <3>2
  <2>. QED BY <1>0, <1>m, <2>1, <2>4, <2>5, NAssumption DEF WorkLeft
<1>4. ASSUME NEW s \in Steps, FinishRaised(s) \/ Drain(s) PROVE WorkLeft' < WorkLeft
  <2>1. /\ s \in running /\ pc = "batch" /\ completed' = completed
        /\ running' = running \ {s} /\ pc' \in {"batch", "returned"}
    BY <1>4 DEF FinishRaised, Drain, AfterBatch
  <2>2. R' = R - 1
    <3>1. running \in SUBSET Steps
      BY DEF IInv, TypeOK
    <3>. QED BY <2>1, <3>1, OneLess
  <2>. QED BY <1>0, <1>m, <2>1, <2>2, NAssumption DEF WorkLeft
<1>. QED BY <1>1, <1>2, <1>3, <1>4 DEF Next

\* For a plan of any size: every step of the executor but the failure of a
\* step brings it closer to its return (orchestrator.py:445-540).  A run in
\* which nothing fails has at most (N + 1)(N + 2) steps, and one that never
\* ends has infinitely many failures.
THEOREM OnlyFailuresRepeat ==
    Spec => [](WorkLeft \in Nat) /\ [][Fail \/ WorkLeft' < WorkLeft]_vars
<1>1. Init => Busy
  BY DEF Init, Busy
<1>2. IInv /\ Busy /\ IInv' /\ [Next]_vars => [Fail \/ WorkLeft' < WorkLeft]_vars
  BY WorkShrinks
<1>. QED BY <1>1, <1>2, BusyStep, WorkIsNatural, Invariance, PTL DEF Spec
=============================================================================
