-------------------------- MODULE SchedulerProofs --------------------------
(***************************************************************************)
(* The scheduler's safety properties for every batch and every limit.      *)
(* IndInv (module Scheduler) is shown inductive, one lemma per action;     *)
(* the properties the runs check on small batches follow from it.          *)
(***************************************************************************)
EXTENDS Scheduler, FiniteSetTheorems, TLAPS

\* The sets the counters count are finite.
LEMMA ActiveFinite ==
    ASSUME TypeOK
    PROVE  /\ IsFiniteSet(active)
           /\ \A p \in Problems : IsFiniteSet(ActiveIn(p))
           /\ \A r \in Roles : IsFiniteSet(ActiveAs(r))
<1>1. IsFiniteSet(active)
  BY JobsAreNumbers, FS_Subset DEF TypeOK
<1>2. ASSUME NEW p \in Problems PROVE IsFiniteSet(ActiveIn(p))
  BY <1>1, FS_Subset DEF ActiveIn
<1>3. ASSUME NEW r \in Roles PROVE IsFiniteSet(ActiveAs(r))
  BY <1>1, FS_Subset DEF ActiveAs
<1> QED BY <1>1, <1>2, <1>3

\* Every job of a batch has a problem and a role.
LEMMA JobTypes ==
    ASSUME TypeOK, NEW j \in Jobs
    PROVE  /\ ProblemOf(j) \in Problems
           /\ RoleOf(j) \in Roles
           /\ batch.job[j] \in JobRecord
           /\ batch.job \in [Jobs -> JobRecord]
           /\ batch.dependencies \in [Jobs -> SUBSET Nat]
<1>1. batch \in Batch
  BY BatchesAreBatches DEF TypeOK
<1>2. batch.job \in [Jobs -> JobRecord] /\ batch.dependencies \in [Jobs -> SUBSET Nat]
  BY <1>1 DEF Batch
<1>3. batch.job[j] \in JobRecord
  BY <1>2
<1> QED BY <1>2, <1>3 DEF JobRecord, ProblemOf, RoleOf

\* SortsBefore is total: two jobs that are not ordered are the same job.
LEMMA SortTotal ==
    ASSUME NEW b \in Batch, NEW i \in Jobs, NEW k \in Jobs,
           ~SortsBefore(b, i, k), ~SortsBefore(b, k, i)
    PROVE  i = k
<1>1. b.job[i].queuedAt \in Nat /\ b.job[k].queuedAt \in Nat
  BY DEF Batch, JobRecord
<1>2. \A p : PriorityOrder(p) \in Nat
  BY DEF PriorityOrder
<1>3. i \in Nat /\ k \in Nat
  BY JobsAreNumbers
<1> QED BY <1>1, <1>2, <1>3 DEF SortsBefore

\* The deduplication map sends a canonical job to itself.
LEMMA DeduplicationIdempotent ==
    ASSUME NEW b \in Batch, NEW m \in [Jobs -> Jobs], IsDeduplicationMap(b, m), NEW j \in Jobs
    PROVE  m[m[j]] = m[j]
<1> DEFINE c == m[j]
           d == m[m[j]]
<1>1. c \in Jobs /\ d \in Jobs
  OBVIOUS
<1>2. b.job[c].key = b.job[j].key /\ b.job[d].key = b.job[j].key
  BY <1>1 DEF IsDeduplicationMap
<1>3. ~SortsBefore(b, d, c)
  BY <1>1, <1>2 DEF IsDeduplicationMap
<1>4. ~SortsBefore(b, c, d)
  BY <1>1, <1>2 DEF IsDeduplicationMap
<1> HIDE DEF c, d
<1>5. c = d
  BY <1>1, <1>3, <1>4, SortTotal
<1> QED BY <1>5 DEF c, d

\* Steps that leave the tasks and the counters alone keep the limits.
LEMMA LimitsFramed ==
    ASSUME CountersExact, WithinLimits, UNCHANGED <<batch, active, counters>>
    PROVE  CountersExact' /\ WithinLimits'
BY DEF CountersExact, WithinLimits, ActiveIn, ActiveAs, ProblemOf, RoleOf, counters

\* With exact counters, the problems the code counts as active are those with
\* a running job.
LEMMA ActiveProblemsExact ==
    ASSUME TypeOK, CountersExact
    PROVE  ActiveProblems = {p \in Problems : ActiveIn(p) # {}}
<1>1. ASSUME NEW p \in Problems PROVE byProblem[p] > 0 <=> ActiveIn(p) # {}
  <2>1. IsFiniteSet(ActiveIn(p))
    BY ActiveFinite
  <2>2. Cardinality(ActiveIn(p)) \in Nat /\ (Cardinality(ActiveIn(p)) = 0 <=> ActiveIn(p) = {})
    BY <2>1, FS_CardinalityType, FS_EmptySet
  <2> QED BY <2>2 DEF CountersExact
<1> QED BY <1>1 DEF ActiveProblems

-----------------------------------------------------------------------------
(* Dispatch and Collect are the steps that move the counters. *)

\* Starting a worker for a job with capacity keeps the counters exact and the limits.
LEMMA DispatchLimits ==
    ASSUME IndInv, NEW j \in Jobs, Dispatch(j)
    PROVE  /\ CountersExact' /\ WithinLimits'
           /\ total' \in Nat /\ byProblem' \in [Problems -> Nat] /\ byRole' \in [Roles -> Nat]
<1> DEFINE p0 == ProblemOf(j)
           r0 == RoleOf(j)
<1>1. TypeOK /\ CountersExact /\ WithinLimits /\ Shape /\ NoJobLost
  BY DEF IndInv
<1>2. j \in pending /\ j \notin active
  <2>1. j \in pending
    BY <1>1 DEF Dispatch, NextReady, TypeOK
  <2>2. Looping /\ j \in CanonicalJobs
    BY <1>1, <2>1 DEF Dispatch, Looping, Shape
  <2> QED BY <1>1, <2>1, <2>2 DEF NoJobLost
<1>3. p0 \in Problems /\ r0 \in Roles
  BY <1>1, JobTypes
<1>4. active' = active \cup {j} /\ batch' = batch
  BY DEF Dispatch
<1>5. IsFiniteSet(active) /\ Cardinality(active') = Cardinality(active) + 1
  BY <1>1, <1>2, <1>4, ActiveFinite, FS_AddElement
<1>6. ASSUME NEW p \in Problems
      PROVE  Cardinality(ActiveIn(p)') = IF p = p0 THEN Cardinality(ActiveIn(p)) + 1 ELSE Cardinality(ActiveIn(p))
  <2>1. CASE p = p0
    <3>1. ActiveIn(p)' = ActiveIn(p) \cup {j} /\ j \notin ActiveIn(p)
      BY <1>2, <1>4, <2>1 DEF ActiveIn, ProblemOf
    <3> QED BY <1>1, <2>1, <3>1, ActiveFinite, FS_AddElement
  <2>2. CASE p # p0
    <3>1. ActiveIn(p)' = ActiveIn(p)
      BY <1>4, <2>2 DEF ActiveIn, ProblemOf
    <3> QED BY <2>2, <3>1
  <2> QED BY <2>1, <2>2
<1>7. ASSUME NEW r \in Roles
      PROVE  Cardinality(ActiveAs(r)') = IF r = r0 THEN Cardinality(ActiveAs(r)) + 1 ELSE Cardinality(ActiveAs(r))
  <2>1. CASE r = r0
    <3>1. ActiveAs(r)' = ActiveAs(r) \cup {j} /\ j \notin ActiveAs(r)
      BY <1>2, <1>4, <2>1 DEF ActiveAs, RoleOf
    <3> QED BY <1>1, <2>1, <3>1, ActiveFinite, FS_AddElement
  <2>2. CASE r # r0
    <3>1. ActiveAs(r)' = ActiveAs(r)
      BY <1>4, <2>2 DEF ActiveAs, RoleOf
    <3> QED BY <2>2, <3>1
  <2> QED BY <2>1, <2>2
<1>8. /\ total' = total + 1
      /\ \A p \in Problems : byProblem'[p] = IF p = p0 THEN byProblem[p] + 1 ELSE byProblem[p]
      /\ \A r \in Roles : byRole'[r] = IF r = r0 THEN byRole[r] + 1 ELSE byRole[r]
      /\ total' \in Nat /\ byProblem' \in [Problems -> Nat] /\ byRole' \in [Roles -> Nat]
  BY <1>1, <1>3 DEF Dispatch, Increment, TypeOK
<1>9. CountersExact'
  BY <1>1, <1>5, <1>6, <1>7, <1>8 DEF CountersExact
<1>10. WithinLimits'
  <2>1. HasCapacity(j)
    BY DEF Dispatch
  <2>2. Cardinality(active') <= MaxActiveJobs
    BY <1>1, <1>5, <2>1, LimitsArePositive, FS_CardinalityType DEF HasCapacity, CountersExact
  <2>3. ASSUME NEW p \in Problems PROVE Cardinality(ActiveIn(p)') <= MaxActiveJobsPerProblem
    <3>1. Cardinality(ActiveIn(p)) \in Nat
      BY <1>1, ActiveFinite, FS_CardinalityType
    <3> QED BY <1>1, <1>6, <2>1, <3>1, LimitsArePositive DEF HasCapacity, CountersExact, WithinLimits
  <2>4. ASSUME NEW r \in Roles PROVE Cardinality(ActiveAs(r)') <= RoleLimit(r)
    <3>1. Cardinality(ActiveAs(r)) \in Nat /\ RoleLimit(r) \in Nat
      BY <1>1, ActiveFinite, FS_CardinalityType, LimitsArePositive DEF RoleLimit
    <3> QED BY <1>1, <1>7, <2>1, <3>1 DEF HasCapacity, CountersExact, WithinLimits
  <2>5. Cardinality({p \in Problems : ActiveIn(p)' # {}}) <= MaxActiveProblems
    <3> DEFINE Before == {p \in Problems : ActiveIn(p) # {}}
               After == {p \in Problems : ActiveIn(p)' # {}}
    <3>1. After = Before \cup {p0}
      BY <1>3, <1>4 DEF ActiveIn, ProblemOf
    <3>2. IsFiniteSet(Before) /\ Cardinality(Before) \in Nat
      BY ProblemsFinite, FS_Subset, FS_CardinalityType
    <3>3. Cardinality(Before) <= MaxActiveProblems
      BY <1>1 DEF WithinLimits
    <3>4. p0 \in Before \/ Cardinality(Before) < MaxActiveProblems
      BY <1>1, <2>1, ActiveProblemsExact DEF HasCapacity
    <3>5. Cardinality(After) = IF p0 \in Before THEN Cardinality(Before) ELSE Cardinality(Before) + 1
      BY <3>1, <3>2, FS_AddElement
    <3> HIDE DEF Before, After
    <3>6. Cardinality(After) <= MaxActiveProblems
      BY <3>2, <3>3, <3>4, <3>5, LimitsArePositive
    <3> QED BY <3>6 DEF After
  <2> QED BY <1>4, <2>2, <2>3, <2>4, <2>5 DEF WithinLimits, RoleLimit
<1> QED BY <1>8, <1>9, <1>10

\* Collecting a worker gives its slots back.
LEMMA CollectLimits ==
    ASSUME IndInv, NEW j \in Jobs, Collect(j)
    PROVE  /\ CountersExact' /\ WithinLimits'
           /\ total' \in Nat /\ byProblem' \in [Problems -> Nat] /\ byRole' \in [Roles -> Nat]
<1> DEFINE p0 == ProblemOf(j)
           r0 == RoleOf(j)
<1>1. TypeOK /\ CountersExact /\ WithinLimits
  BY DEF IndInv
<1>2. j \in active
  BY <1>1 DEF Collect, TypeOK
<1>3. p0 \in Problems /\ r0 \in Roles
  BY <1>1, JobTypes
<1>4. active' = active \ {j} /\ batch' = batch
  BY DEF Collect
<1>5. /\ IsFiniteSet(active)
      /\ Cardinality(active) \in Nat \ {0}
      /\ Cardinality(active') = Cardinality(active) - 1
  <2>1. IsFiniteSet(active)
    BY <1>1, ActiveFinite
  <2>2. Cardinality(active) \in Nat /\ Cardinality(active) # 0
    BY <1>2, <2>1, FS_CardinalityType, FS_EmptySet
  <2> QED BY <1>2, <1>4, <2>1, <2>2, FS_RemoveElement
<1>6. ASSUME NEW p \in Problems
      PROVE  /\ Cardinality(ActiveIn(p)) \in Nat
             /\ Cardinality(ActiveIn(p)') = IF p = p0 THEN Cardinality(ActiveIn(p)) - 1 ELSE Cardinality(ActiveIn(p))
             /\ p = p0 => Cardinality(ActiveIn(p)) # 0
  <2>1. IsFiniteSet(ActiveIn(p)) /\ Cardinality(ActiveIn(p)) \in Nat
    BY <1>1, ActiveFinite, FS_CardinalityType
  <2>2. CASE p = p0
    <3>1. ActiveIn(p)' = ActiveIn(p) \ {j} /\ j \in ActiveIn(p)
      BY <1>2, <1>4, <2>2 DEF ActiveIn, ProblemOf
    <3>2. Cardinality(ActiveIn(p)) # 0
      BY <2>1, <3>1, FS_EmptySet
    <3> QED BY <2>1, <2>2, <3>1, <3>2, FS_RemoveElement
  <2>3. CASE p # p0
    <3>1. ActiveIn(p)' = ActiveIn(p)
      BY <1>4, <2>3 DEF ActiveIn, ProblemOf
    <3> QED BY <2>1, <2>3, <3>1
  <2> QED BY <2>2, <2>3
<1>7. ASSUME NEW r \in Roles
      PROVE  /\ Cardinality(ActiveAs(r)) \in Nat
             /\ Cardinality(ActiveAs(r)') = IF r = r0 THEN Cardinality(ActiveAs(r)) - 1 ELSE Cardinality(ActiveAs(r))
             /\ r = r0 => Cardinality(ActiveAs(r)) # 0
  <2>1. IsFiniteSet(ActiveAs(r)) /\ Cardinality(ActiveAs(r)) \in Nat
    BY <1>1, ActiveFinite, FS_CardinalityType
  <2>2. CASE r = r0
    <3>1. ActiveAs(r)' = ActiveAs(r) \ {j} /\ j \in ActiveAs(r)
      BY <1>2, <1>4, <2>2 DEF ActiveAs, RoleOf
    <3>2. Cardinality(ActiveAs(r)) # 0
      BY <2>1, <3>1, FS_EmptySet
    <3> QED BY <2>1, <2>2, <3>1, <3>2, FS_RemoveElement
  <2>3. CASE r # r0
    <3>1. ActiveAs(r)' = ActiveAs(r)
      BY <1>4, <2>3 DEF ActiveAs, RoleOf
    <3> QED BY <2>1, <2>3, <3>1
  <2> QED BY <2>2, <2>3
<1>8. /\ total' = total - 1
      /\ \A p \in Problems : byProblem'[p] = IF p = p0 THEN byProblem[p] - 1 ELSE byProblem[p]
      /\ \A r \in Roles : byRole'[r] = IF r = r0 THEN byRole[r] - 1 ELSE byRole[r]
      /\ total' \in Nat /\ byProblem' \in [Problems -> Nat] /\ byRole' \in [Roles -> Nat]
  <2>1. total # 0 /\ byProblem[p0] # 0 /\ byRole[r0] # 0
    BY <1>1, <1>3, <1>5, <1>6, <1>7 DEF CountersExact
  <2>2. /\ total' = total - 1
        /\ byProblem' = [byProblem EXCEPT ![p0] = byProblem[p0] - 1]
        /\ byRole' = [byRole EXCEPT ![r0] = byRole[r0] - 1]
    BY DEF Collect, Decrement
  <2>3. total \in Nat /\ byProblem \in [Problems -> Nat] /\ byRole \in [Roles -> Nat]
    BY <1>1 DEF TypeOK
  <2> HIDE DEF p0, r0
  <2>4. byProblem[p0] - 1 \in Nat /\ byRole[r0] - 1 \in Nat /\ total - 1 \in Nat
    BY <1>3, <2>1, <2>3
  <2> QED BY <1>3, <2>2, <2>3, <2>4
<1>9. CountersExact'
  BY <1>1, <1>5, <1>6, <1>7, <1>8 DEF CountersExact
<1>10. WithinLimits'
  <2>1. Cardinality(active') <= MaxActiveJobs
    BY <1>1, <1>5, LimitsArePositive DEF WithinLimits
  <2>2. \A p \in Problems : Cardinality(ActiveIn(p)') <= MaxActiveJobsPerProblem
    BY <1>1, <1>6, LimitsArePositive DEF WithinLimits
  <2>3. \A r \in Roles : Cardinality(ActiveAs(r)') <= RoleLimit(r)
    <3>1. \A r \in Roles : RoleLimit(r) \in Nat
      BY LimitsArePositive DEF RoleLimit
    <3> QED BY <1>1, <1>7, <3>1 DEF WithinLimits
  <2>4. Cardinality({p \in Problems : ActiveIn(p)' # {}}) <= MaxActiveProblems
    <3> DEFINE Before == {p \in Problems : ActiveIn(p) # {}}
               After == {p \in Problems : ActiveIn(p)' # {}}
    <3>1. After \in SUBSET Before
      BY <1>4 DEF ActiveIn, ProblemOf
    <3>2. IsFiniteSet(Before)
      BY ProblemsFinite, FS_Subset
    <3>3. Cardinality(Before) <= MaxActiveProblems
      BY <1>1 DEF WithinLimits
    <3>4. Cardinality(After) <= Cardinality(Before) /\ Cardinality(After) \in Nat /\ Cardinality(Before) \in Nat
      BY <3>1, <3>2, FS_Subset, FS_CardinalityType
    <3> HIDE DEF Before, After
    <3>5. Cardinality(After) <= MaxActiveProblems
      BY <3>3, <3>4, LimitsArePositive
    <3> QED BY <3>5 DEF After
  <2> QED BY <1>4, <2>1, <2>2, <2>3, <2>4 DEF WithinLimits, RoleLimit
<1> QED BY <1>8, <1>9, <1>10

-----------------------------------------------------------------------------
(* IndInv holds initially and every action preserves it. *)

\* Every initial state satisfies the inductive invariant.
LEMMA InitInv == Init => IndInv
<1> SUFFICES ASSUME Init PROVE IndInv
  OBVIOUS
<1>1. TypeOK
  BY DEF Init, TypeOK, Phases, Errors, JobStatuses, NoResult
<1>2. \A p : ActiveIn(p) = {}
  BY DEF Init, ActiveIn
<1>3. \A r : ActiveAs(r) = {}
  BY DEF Init, ActiveAs
<1>4. CountersExact
  BY <1>2, <1>3, FS_EmptySet DEF Init, CountersExact
<1>5. WithinLimits
  <2>1. {p \in Problems : ActiveIn(p) # {}} = {}
    BY <1>2
  <2> QED BY <1>2, <1>3, <2>1, FS_EmptySet, LimitsArePositive DEF Init, WithinLimits, RoleLimit
<1>6. Shape
  BY DEF Init, Shape, Looping, CanonicalJobs
<1>7. NoJobLost /\ DependenciesFirst
  BY DEF Init, NoJobLost, DependenciesFirst, Looping
<1>8. Caused
  BY DEF Init, Caused, Settled, NoResult
<1>9. PassedOver
  BY DEF Init, PassedOver
<1> QED BY <1>1, <1>4, <1>5, <1>6, <1>7, <1>8, <1>9 DEF IndInv

\* _execute up to the loop establishes or keeps the inductive invariant.
LEMMA ExecuteInv == IndInv /\ Execute => IndInv'
<1> SUFFICES ASSUME IndInv, Execute PROVE IndInv'
  OBVIOUS
<1>1. TypeOK /\ CountersExact /\ WithinLimits /\ Shape /\ Caused
  BY DEF IndInv
<1>2. CountersExact' /\ WithinLimits'
  BY <1>1, LimitsFramed DEF Execute
<1>3. /\ phase = "idle" /\ pending = {} /\ active = {} /\ ready = {} /\ completed = {}
      /\ \A j \in Jobs : attempts[j] = 0 /\ results[j] = NoResult
  BY <1>1 DEF Execute, Shape
<1>4. PICK m \in [Jobs -> Jobs] :
        /\ IsDeduplicationMap(batch, m)
        /\ IF ValidBatch(batch, m)
           THEN /\ phase' = "loop"
                /\ canonical' = m
                /\ results' = [j \in Jobs |-> InitialResult(j, m)]
                /\ pending' = {j \in Jobs : m[j] = j /\ InitialResult(j, m) = NoResult}
           ELSE /\ phase' = "rejected"
                /\ UNCHANGED <<canonical, results, pending>>
  BY DEF Execute
<1>5. UNCHANGED <<batch, ready, active, outcome, completed, attempts, total, byProblem, byRole>>
  BY DEF Execute, counters
<1>6. CASE ~ValidBatch(batch, m)
  <2>1. TypeOK'
    BY <1>1, <1>4, <1>5, <1>6 DEF TypeOK, Phases
  <2>2. Shape'
    BY <1>1, <1>3, <1>4, <1>5, <1>6 DEF Shape, Looping, CanonicalJobs, IsReady
  <2>3. NoJobLost' /\ DependenciesFirst' /\ Caused'
    BY <1>1, <1>3, <1>4, <1>5, <1>6 DEF NoJobLost, DependenciesFirst, Caused, Looping, Settled, NoResult
  <2>4. PassedOver'
    BY <1>4, <1>6 DEF PassedOver
  <2> QED BY <1>2, <2>1, <2>2, <2>3, <2>4 DEF IndInv
<1>7. CASE ValidBatch(batch, m)
  <2>1. \A j \in Jobs : \/ InitialResult(j, m) = NoResult
                        \/ m[j] = j /\ InitialResult(j, m) = NotRun("cancelled", "cancelled")
                        \/ m[j] = j /\ InitialResult(j, m) = NotRun("waiting", "problem_paused")
    BY DEF InitialResult
  <2>2. TypeOK'
    BY <1>1, <1>3, <1>4, <1>5, <1>7, <2>1 DEF TypeOK, Phases, NoResult, NotRun, JobStatuses, Errors
  <2>3. \A j \in Jobs : m[m[j]] = m[j]
    BY <1>1, <1>4, BatchesAreBatches, DeduplicationIdempotent DEF TypeOK
  <2>4. Shape'
    BY <1>3, <1>4, <1>5, <1>7, <2>1, <2>3 DEF Shape, Looping, CanonicalJobs, IsReady, InitialResult
  <2>5. NoJobLost'
    BY <1>3, <1>4, <1>5, <1>7, <2>1 DEF NoJobLost, Looping, CanonicalJobs, Settled, NoResult, NotRun
  <2>6. DependenciesFirst'
    BY <1>3, <1>5 DEF DependenciesFirst
  <2>7. Caused'
    BY <1>4, <1>7, <2>1 DEF Caused, Settled, NoResult, NotRun
  <2>8. PassedOver'
    BY <1>4, <1>7 DEF PassedOver
  <2> QED BY <1>2, <2>2, <2>4, <2>5, <2>6, <2>7, <2>8 DEF IndInv
<1> QED BY <1>6, <1>7

\* Settling blocked jobs and computing the ready list keeps it.
LEMMA StartRoundInv == IndInv /\ StartRound => IndInv'
<1> SUFFICES ASSUME IndInv, StartRound PROVE IndInv'
  OBVIOUS
<1>1. TypeOK /\ CountersExact /\ WithinLimits /\ Shape /\ NoJobLost /\ DependenciesFirst /\ Caused
  BY DEF IndInv
<1>2. CountersExact' /\ WithinLimits'
  BY <1>1, LimitsFramed DEF StartRound
<1>3. PICK R \in SUBSET pending :
        /\ \A j \in R : IsBlocked(j) \/ Dependencies(j) \cap R # {}
        /\ results' = [j \in Jobs |-> IF j \in R THEN NotRun("waiting", "dependency_incomplete")
                                      ELSE results[j]]
        /\ pending' = pending \ R
        /\ ready' = {j \in pending \ R : IsReady(j)}
  BY DEF StartRound
<1>4. /\ phase = "loop" /\ phase' = "dispatching"
      /\ UNCHANGED <<batch, canonical, active, outcome, completed, attempts, total, byProblem, byRole>>
  BY DEF StartRound, counters
<1>5. \A j \in R : j \in CanonicalJobs /\ ~Settled(j) /\ j \notin active
  BY <1>1, <1>4 DEF Shape, NoJobLost, Looping, CanonicalJobs
<1>6. \A d : results[d].status = "complete" => d \notin R
  BY <1>5 DEF Settled
<1>7. \A j \in Jobs : Dependencies(j) \subseteq Jobs /\ Dependencies(j)' = Dependencies(j)
  BY <1>1, <1>4 DEF Shape, Looping, ValidBatch, ValidDependencies, Dependencies, TypeOK
<1>8. TypeOK'
  BY <1>1, <1>3, <1>4 DEF TypeOK, Phases, NotRun, JobStatuses, Errors
<1>9. Shape'
  <2>1. \A j \in ready' : IsReady(j)'
    BY <1>1, <1>3, <1>6, <1>7 DEF IsReady, TypeOK
  <2> QED BY <1>1, <1>3, <1>4, <1>5, <2>1 DEF Shape, Looping, CanonicalJobs
<1>10. NoJobLost'
  BY <1>1, <1>3, <1>4, <1>5 DEF NoJobLost, Looping, CanonicalJobs, Settled, NotRun
<1>11. DependenciesFirst'
  BY <1>1, <1>3, <1>4, <1>6, <1>7 DEF DependenciesFirst
<1>12. Caused'
  <2>1. \A j \in Jobs : Settled(j) => Settled(j)' /\ results'[j] = results[j]
    BY <1>3, <1>5 DEF Settled
  <2>2. \A j \in R : Settled(j)' /\ results'[j].status # "complete"
    BY <1>1, <1>3 DEF Settled, NotRun, TypeOK
  <2>3. ASSUME NEW j \in R
        PROVE  \E d \in Dependencies(j) : Settled(d)' /\ results'[d].status # "complete"
    <3>1. CASE IsBlocked(j)
      <4>1. PICK d \in Dependencies(j) : results[d].status \in BlockingStatuses
        BY <3>1 DEF IsBlocked
      <4>2. d \in Jobs /\ Settled(d) /\ results[d].status # "complete"
        BY <1>1, <1>7, <4>1 DEF BlockingStatuses, Settled, TypeOK
      <4> QED BY <2>1, <4>2
    <3>2. CASE Dependencies(j) \cap R # {}
      BY <2>2, <3>2
    <3> QED BY <1>3, <3>1, <3>2
  <2>4. ASSUME NEW j \in Jobs, results'[j].error = "dependency_incomplete"
        PROVE  \E d \in Dependencies(canonical[j]) : Settled(d)' /\ results'[d].status # "complete"
    <3>1. CASE j \in R
      BY <1>5, <2>3, <3>1 DEF CanonicalJobs
    <3>2. CASE j \notin R
      <4>1. results[j].error = "dependency_incomplete"
        BY <1>3, <2>4, <3>2
      <4>2. PICK d \in Dependencies(canonical[j]) : Settled(d) /\ results[d].status # "complete"
        BY <1>1, <4>1 DEF Caused
      <4>3. d \in Jobs
        BY <1>1, <1>7, <4>2 DEF TypeOK
      <4> QED BY <2>1, <4>2, <4>3
    <3> QED BY <3>1, <3>2
  <2>5. \A j \in Jobs : results'[j].error = "none" <=> ~Settled(j)'
    BY <1>1, <1>3 DEF Caused, Settled, NotRun
  <2>6. \A j \in Jobs : Dependencies(canonical[j])' = Dependencies(canonical[j])
    BY <1>4 DEF Dependencies
  <2> QED BY <2>4, <2>5, <2>6 DEF Caused
<1>13. PassedOver'
  <2>1. ASSUME NEW k \in pending', IsReady(k)' PROVE IsReady(k)
    <3>1. k \in Jobs
      BY <1>1, <1>3 DEF TypeOK
    <3> QED BY <1>3, <1>7, <2>1, <3>1 DEF IsReady, NotRun
  <2> QED BY <1>3, <2>1 DEF PassedOver
<1> QED BY <1>2, <1>8, <1>9, <1>10, <1>11, <1>12, <1>13 DEF IndInv

\* Starting a worker never makes room for another job.
LEMMA CapacityShrinks ==
    ASSUME IndInv, NEW j \in Jobs, Dispatch(j), NEW k \in Jobs, HasCapacity(k)'
    PROVE  HasCapacity(k)
<1> DEFINE p0 == ProblemOf(j)
           r0 == RoleOf(j)
           pk == ProblemOf(k)
           rk == RoleOf(k)
<1>1. TypeOK
  BY DEF IndInv
<1>2. p0 \in Problems /\ r0 \in Roles /\ pk \in Problems /\ rk \in Roles
  BY <1>1, JobTypes
<1>3. ProblemOf(k)' = pk /\ RoleOf(k)' = rk
  BY DEF Dispatch, ProblemOf, RoleOf
<1>4. total \in Nat /\ byProblem \in [Problems -> Nat] /\ byRole \in [Roles -> Nat]
  BY <1>1 DEF TypeOK
<1>5. /\ total' = total + 1
      /\ byProblem' = [byProblem EXCEPT ![p0] = byProblem[p0] + 1]
      /\ byRole' = [byRole EXCEPT ![r0] = byRole[r0] + 1]
  BY DEF Dispatch, Increment
<1>6. /\ total' < MaxActiveJobs /\ byProblem'[pk] < MaxActiveJobsPerProblem
      /\ byRole'[rk] < RoleLimit(rk)
      /\ pk \in ActiveProblems' \/ Cardinality(ActiveProblems') < MaxActiveProblems
  BY <1>3 DEF HasCapacity, RoleLimit
<1>7. RoleLimit(rk) \in Nat
  BY LimitsArePositive DEF RoleLimit
<1>8. p0 \in ActiveProblems \/ Cardinality(ActiveProblems) < MaxActiveProblems
  BY DEF Dispatch, HasCapacity
<1> HIDE DEF p0, r0, pk, rk
<1>9. total < MaxActiveJobs /\ byProblem[pk] < MaxActiveJobsPerProblem /\ byRole[rk] < RoleLimit(rk)
  BY <1>2, <1>4, <1>5, <1>6, <1>7, LimitsArePositive
<1>10. ActiveProblems' = ActiveProblems \cup {p0}
  BY <1>2, <1>4, <1>5 DEF ActiveProblems
<1>11. pk \in ActiveProblems \/ Cardinality(ActiveProblems) < MaxActiveProblems
  <2>1. CASE p0 \in ActiveProblems
    <3>1. ActiveProblems' = ActiveProblems
      BY <1>10, <2>1
    <3> QED BY <1>6, <3>1
  <2>2. CASE p0 \notin ActiveProblems
    BY <1>8, <2>2
  <2> QED BY <2>1, <2>2
<1> QED BY <1>9, <1>11 DEF HasCapacity, pk, rk

\* With nothing running every job has capacity: the limits are positive.
LEMMA IdleHasCapacity ==
    ASSUME TypeOK, CountersExact, active = {}, NEW j \in Jobs
    PROVE  HasCapacity(j)
<1>1. /\ total = 0
      /\ \A p \in Problems : byProblem[p] = 0
      /\ \A r \in Roles : byRole[r] = 0
  <2>1. \A p \in Problems : ActiveIn(p) = {}
    BY DEF ActiveIn
  <2>2. \A r \in Roles : ActiveAs(r) = {}
    BY DEF ActiveAs
  <2> QED BY <2>1, <2>2, FS_EmptySet DEF CountersExact
<1>2. ActiveProblems = {}
  BY <1>1 DEF ActiveProblems
<1>3. ProblemOf(j) \in Problems /\ RoleOf(j) \in Roles
  BY JobTypes
<1>4. RoleLimit(RoleOf(j)) \in Nat \ {0}
  BY LimitsArePositive DEF RoleLimit
<1> QED BY <1>1, <1>2, <1>3, <1>4, LimitsArePositive, FS_EmptySet DEF HasCapacity

\* Starting a worker (create_task and _increment) keeps it.
LEMMA DispatchInv == ASSUME NEW j \in Jobs PROVE IndInv /\ Dispatch(j) => IndInv'
<1> SUFFICES ASSUME IndInv, Dispatch(j) PROVE IndInv'
  OBVIOUS
<1>1. TypeOK /\ Shape /\ NoJobLost /\ DependenciesFirst /\ Caused
  BY DEF IndInv
<1>2. /\ CountersExact' /\ WithinLimits'
      /\ total' \in Nat /\ byProblem' \in [Problems -> Nat] /\ byRole' \in [Roles -> Nat]
  BY DispatchLimits
<1>3. /\ phase = "dispatching" /\ j \in ready
      /\ ready' = ready \ {j} /\ pending' = pending \ {j} /\ active' = active \cup {j}
      /\ attempts' = [attempts EXCEPT ![j] = attempts[j] + 1]
      /\ outcome' = [outcome EXCEPT ![j] = Running]
      /\ UNCHANGED <<batch, phase, canonical, completed, results>>
  BY DEF Dispatch, NextReady
<1>4. j \in pending /\ IsReady(j)
  BY <1>1, <1>3 DEF TypeOK, Shape
<1>5. TypeOK'
  BY <1>1, <1>2, <1>3 DEF TypeOK
<1>6. Shape'
  BY <1>1, <1>3, <1>4 DEF Shape, Looping, CanonicalJobs, IsReady, Dependencies
<1>7. NoJobLost'
  BY <1>1, <1>3, <1>4 DEF NoJobLost, Shape, Looping, CanonicalJobs, Settled
<1>8. DependenciesFirst'
  BY <1>1, <1>3, <1>4 DEF DependenciesFirst, IsReady, Dependencies, TypeOK
<1>9. Caused'
  BY <1>1, <1>3 DEF Caused, Settled, Dependencies
<1>10. PassedOver'
  BY <1>1, <1>3, CapacityShrinks DEF PassedOver, IsReady, Dependencies, IndInv, TypeOK
<1> QED BY <1>2, <1>5, <1>6, <1>7, <1>8, <1>9, <1>10 DEF IndInv

\* Collecting a worker, with or without a retry, keeps it.
LEMMA CollectInv == ASSUME NEW j \in Jobs PROVE IndInv /\ Collect(j) => IndInv'
<1> SUFFICES ASSUME IndInv, Collect(j) PROVE IndInv'
  OBVIOUS
<1>1. TypeOK /\ Shape /\ NoJobLost /\ DependenciesFirst /\ Caused
  BY DEF IndInv
<1>2. /\ CountersExact' /\ WithinLimits'
      /\ total' \in Nat /\ byProblem' \in [Problems -> Nat] /\ byRole' \in [Roles -> Nat]
  BY CollectLimits
<1>3. /\ phase = "collecting" /\ j \in completed
      /\ completed' = completed \ {j} /\ active' = active \ {j}
      /\ UNCHANGED <<batch, phase, canonical, ready, outcome, attempts>>
  BY DEF Collect
<1>4. j \in active /\ j \in CanonicalJobs /\ ~Settled(j) /\ j \notin pending
  BY <1>1, <1>3 DEF TypeOK, Shape, NoJobLost, Looping
<1>5. \A i \in Jobs : Dependencies(i) \subseteq Jobs /\ Dependencies(i)' = Dependencies(i)
  BY <1>1, <1>3 DEF Shape, Looping, ValidBatch, ValidDependencies, Dependencies, TypeOK
<1>6. ready = {}
  BY <1>1, <1>3 DEF Shape
<1>7. CASE ShouldRetry(j)
  <2>1. pending' = pending \cup {j} /\ results' = results
    BY <1>7 DEF Collect
  <2>2. TypeOK'
    BY <1>1, <1>2, <1>3, <1>6, <2>1 DEF TypeOK
  <2>3. Shape'
    BY <1>1, <1>3, <1>4, <1>6, <2>1 DEF Shape, Looping, CanonicalJobs
  <2>4. NoJobLost'
    BY <1>1, <1>3, <1>4, <2>1 DEF NoJobLost, Looping, CanonicalJobs, Settled
  <2>5. DependenciesFirst' /\ Caused'
    BY <1>1, <1>3, <2>1 DEF DependenciesFirst, Caused, Settled, Dependencies
  <2>6. PassedOver'
    BY <1>3 DEF PassedOver
  <2> QED BY <1>2, <2>2, <2>3, <2>4, <2>5, <2>6 DEF IndInv
<1>8. CASE ~ShouldRetry(j)
  <2> DEFINE res == [status |-> outcome[j].status, error |-> "worker", attempts |-> attempts[j]]
  <2>1. pending' = pending /\ results' = [results EXCEPT ![j] = res]
    BY <1>8 DEF Collect
  <2>2. res \in [status: JobStatuses, error: Errors, attempts: Nat] /\ res.status # "queued"
    <3>1. outcome[j] \in WorkerOutcomes \cup {Running}
      BY <1>1 DEF TypeOK
    <3>2. outcome[j].status \in TerminalWorkerStatuses \cup {"running"}
      BY <3>1 DEF WorkerOutcomes, Running
    <3> QED BY <1>1, <3>2 DEF TerminalWorkerStatuses, JobStatuses, Errors, TypeOK
  <2>3. results'[j] = res /\ \A i \in Jobs \ {j} : results'[i] = results[i]
    BY <1>1, <2>1 DEF TypeOK
  <2>4. TypeOK'
    BY <1>1, <1>2, <1>3, <1>6, <2>1, <2>2 DEF TypeOK
  <2>5. Settled(j)' /\ \A i \in Jobs \ {j} : Settled(i)' = Settled(i)
    BY <2>2, <2>3 DEF Settled
  <2>6. Shape'
    BY <1>1, <1>3, <1>4, <1>6, <2>1, <2>3 DEF Shape, Looping, CanonicalJobs
  <2>7. NoJobLost'
    BY <1>1, <1>3, <1>4, <2>1, <2>5 DEF NoJobLost, Looping, CanonicalJobs
  <2>8. DependenciesFirst'
    <3>1. \A d \in Jobs : results[d].status = "complete" => d # j
      BY <1>4 DEF Settled
    <3> QED BY <1>1, <1>3, <1>5, <2>3, <3>1 DEF DependenciesFirst
  <2>9. Caused'
    <3>1. ASSUME NEW i \in Jobs, results'[i].error = "dependency_incomplete"
          PROVE  \E d \in Dependencies(canonical[i])' : Settled(d)' /\ results'[d].status # "complete"
      <4>1. i # j /\ results[i].error = "dependency_incomplete"
        BY <2>3, <3>1
      <4>2. PICK d \in Dependencies(canonical[i]) : Settled(d) /\ results[d].status # "complete"
        BY <1>1, <4>1 DEF Caused
      <4>3. d \in Jobs /\ d # j
        BY <1>1, <1>4, <1>5, <4>2 DEF TypeOK
      <4>4. Dependencies(canonical[i])' = Dependencies(canonical[i])
        BY <1>3 DEF Dependencies
      <4> QED BY <2>3, <2>5, <4>2, <4>3, <4>4
    <3>2. \A i \in Jobs : results'[i].error = "none" <=> ~Settled(i)'
      BY <1>1, <2>3, <2>5 DEF Caused
    <3> QED BY <3>1, <3>2 DEF Caused
  <2>10. PassedOver'
    BY <1>3 DEF PassedOver
  <2> QED BY <1>2, <2>4, <2>6, <2>7, <2>8, <2>9, <2>10 DEF IndInv
<1> QED BY <1>7, <1>8

\* Steps that only move the program counter or the round's work list.
LEMMA ControlInv ==
    ASSUME IndInv, (\E j \in Jobs : Skip(j)) \/ Await \/ EndRound \/ Resume \/ (\E j \in Jobs : WorkerFinish(j))
    PROVE  IndInv'
<1>1. TypeOK /\ CountersExact /\ WithinLimits /\ Shape /\ NoJobLost /\ DependenciesFirst /\ Caused
  BY DEF IndInv
<1>2. UNCHANGED <<batch, canonical, pending, active, attempts, results, total, byProblem, byRole>>
  BY DEF Skip, Await, EndRound, Resume, WorkerFinish, counters
<1>3. CountersExact' /\ WithinLimits'
  BY <1>1, <1>2, LimitsFramed DEF counters
<1>4. Looping /\ Looping' /\ phase # "returned" /\ phase' # "returned"
  BY DEF Skip, Await, EndRound, Resume, WorkerFinish, Looping
<1>5. /\ ready' \subseteq ready /\ completed' \subseteq active
      /\ phase' # "dispatching" => ready' = {}
      /\ phase' # "collecting" => completed' = {}
      /\ phase' \in Phases
  BY <1>1 DEF Skip, Await, EndRound, Resume, WorkerFinish, Shape, TypeOK, Phases
<1>6. outcome' \in [Jobs -> WorkerOutcomes \cup {Running}]
  BY <1>1 DEF Skip, Await, EndRound, Resume, WorkerFinish, TypeOK
<1>7. TypeOK'
  BY <1>1, <1>2, <1>5, <1>6 DEF TypeOK
<1>8. Shape'
  BY <1>1, <1>2, <1>4, <1>5 DEF Shape, Looping, CanonicalJobs, IsReady, Dependencies
<1>9. NoJobLost'
  BY <1>1, <1>2, <1>4 DEF NoJobLost, CanonicalJobs, Settled
<1>10. DependenciesFirst' /\ Caused'
  BY <1>1, <1>2 DEF DependenciesFirst, Caused, Dependencies, Settled
<1>11. PassedOver'
  <2>1. \A k : (IsReady(k)' <=> IsReady(k)) /\ (HasCapacity(k)' <=> HasCapacity(k))
    BY <1>2 DEF IsReady, Dependencies, HasCapacity, ActiveProblems, ProblemOf, RoleOf, RoleLimit
  <2>2. CASE \E j \in Jobs : Skip(j)
    BY <1>1, <1>2, <2>1, <2>2 DEF PassedOver, Skip, IndInv
  <2>3. CASE Await \/ (\E j \in Jobs : WorkerFinish(j))
    BY <1>1, <1>2, <2>1, <2>3 DEF PassedOver, Await, WorkerFinish, IndInv
  <2>4. CASE EndRound \/ Resume
    BY <2>4 DEF PassedOver, EndRound, Resume
  <2> QED BY <2>2, <2>3, <2>4
<1> QED BY <1>3, <1>7, <1>8, <1>9, <1>10, <1>11 DEF IndInv

\* The two ways execute returns.  In both, the canonical jobs that have no
\* result yet get one, and the duplicates copy theirs.
LEMMA FinishInv == IndInv /\ (Drain \/ Return) => IndInv'
<1> SUFFICES ASSUME IndInv, Drain \/ Return PROVE IndInv'
  OBVIOUS
<1> DEFINE waiting == NotRun("waiting", "dependency_incomplete")
           mid == [j \in Jobs |-> IF j \in pending THEN waiting ELSE results[j]]
<1>1. TypeOK /\ CountersExact /\ WithinLimits /\ Shape /\ NoJobLost /\ DependenciesFirst /\ Caused
  BY DEF IndInv
<1>2. /\ Looping /\ active = {} /\ ready = {} /\ phase' = "returned" /\ pending' = {}
      /\ completed = {}
      /\ UNCHANGED <<batch, canonical, ready, active, outcome, completed, attempts, total, byProblem, byRole>>
  BY <1>1 DEF Drain, Return, Looping, counters, Shape
<1>3. results' = WithDuplicates(mid)
  <2>1. CASE Drain
    BY <2>1 DEF Drain
  <2>2. CASE Return
    <3>1. mid = results
      BY <1>1, <2>2 DEF Return, TypeOK
    <3> QED BY <2>2, <3>1 DEF Return
  <2> QED BY <2>1, <2>2
<1>4. mid \in [Jobs -> [status: JobStatuses, error: Errors, attempts: Nat]]
  BY <1>1 DEF TypeOK, NotRun, JobStatuses, Errors
<1>5. \A j \in Jobs : canonical[j] \in Jobs /\ canonical[j] \in CanonicalJobs
  BY <1>1 DEF TypeOK, Shape, CanonicalJobs
<1>6. \A j \in CanonicalJobs : mid[j].status # "queued"
  BY <1>1, <1>2 DEF NoJobLost, Settled, NotRun, CanonicalJobs
<1> HIDE DEF mid
<1>7. \A j \in Jobs : /\ results'[j].status = mid[canonical[j]].status
                      /\ results'[j].error = mid[canonical[j]].error
                      /\ results'[j] \in [status: JobStatuses, error: Errors, attempts: Nat]
  BY <1>3, <1>4, <1>5 DEF WithDuplicates
<1>8. results' \in [Jobs -> [status: JobStatuses, error: Errors, attempts: Nat]]
  BY <1>3, <1>7 DEF WithDuplicates
<1>9. CountersExact' /\ WithinLimits'
  BY <1>1, <1>2, LimitsFramed DEF counters
<1>10. TypeOK'
  BY <1>1, <1>2, <1>8 DEF TypeOK, Phases
<1>11. \A j \in Jobs : Dependencies(j) \subseteq CanonicalJobs /\ Dependencies(j)' = Dependencies(j)
  BY <1>1, <1>2, <1>5 DEF Shape, Looping, ValidBatch, ValidDependencies, Dependencies, TypeOK
<1>12. \A d \in CanonicalJobs : /\ d \in Jobs
                                /\ results'[d].status = mid[d].status /\ results'[d].error = mid[d].error
  BY <1>7 DEF CanonicalJobs
<1>13. \A d \in CanonicalJobs : Settled(d) => mid[d] = results[d]
  BY <1>1, <1>2 DEF NoJobLost, CanonicalJobs, mid
<1>14. Shape'
  <2>1. \A j \in Jobs : results'[j].status = results'[canonical[j]].status /\ results'[j].error = results'[canonical[j]].error
    BY <1>5, <1>7, <1>12
  <2> QED BY <1>1, <1>2, <2>1 DEF Shape, Looping, CanonicalJobs
<1>15. NoJobLost'
  BY <1>2, <1>5, <1>6, <1>7 DEF NoJobLost, Looping, Settled
<1>16. DependenciesFirst'
  <2>1. ASSUME NEW j \in Jobs, attempts[j] > 0, NEW d \in Dependencies(j)
        PROVE  results'[d].status = "complete"
    <3>1. results[d].status = "complete" /\ d \in CanonicalJobs
      BY <1>1, <1>11, <2>1 DEF DependenciesFirst
    <3>2. Settled(d)
      BY <3>1 DEF Settled
    <3> QED BY <1>12, <1>13, <3>1, <3>2
  <2> QED BY <1>2, <1>11, <2>1 DEF DependenciesFirst
<1>17. Caused'
  <2>1. \A j \in Jobs : Settled(j)' /\ results'[j].error # "none"
    <3>1. \A d \in CanonicalJobs : mid[d].error # "none"
      BY <1>1, <1>2 DEF Caused, NoJobLost, mid, NotRun, CanonicalJobs
    <3> QED BY <1>5, <1>6, <1>7, <3>1 DEF Settled
  <2>2. ASSUME NEW j \in Jobs, results'[j].error = "dependency_incomplete"
        PROVE  \E d \in Dependencies(canonical[j]) : Settled(d)' /\ results'[d].status # "complete"
    <3> DEFINE c == canonical[j]
    <3>1. c \in CanonicalJobs /\ c \in Jobs /\ canonical[c] = c /\ mid[c].error = "dependency_incomplete"
      BY <1>5, <1>7, <2>2 DEF CanonicalJobs
    <3>2. CASE c \in pending
      <4>1. PICK d \in Dependencies(c) : results[d].status # "complete"
        <5>1. ~IsReady(c)
          <6>1. CASE Drain
            BY <1>1, <1>2, <3>1, <3>2, <6>1, IdleHasCapacity DEF Drain, PassedOver, IndInv
          <6>2. CASE Return
            BY <6>2, <3>2 DEF Return
          <6> QED BY <6>1, <6>2
        <5> QED BY <5>1 DEF IsReady
      <4>2. d \in CanonicalJobs /\ d \in Jobs
        BY <1>11, <3>1, <4>1 DEF CanonicalJobs
      <4>3. mid[d].status # "complete"
        BY <4>1, <4>2 DEF mid, NotRun
      <4> QED BY <1>12, <2>1, <4>1, <4>2, <4>3
    <3>3. CASE c \notin pending
      <4>1. results[c].error = "dependency_incomplete"
        BY <3>1, <3>3 DEF mid
      <4>2. PICK d \in Dependencies(c) : Settled(d) /\ results[d].status # "complete"
        BY <1>1, <3>1, <4>1 DEF Caused
      <4>3. d \in CanonicalJobs
        BY <1>11, <3>1, <4>2
      <4> QED BY <1>12, <1>13, <2>1, <4>2, <4>3
    <3> QED BY <3>2, <3>3
  <2>3. \A j \in Jobs : Dependencies(canonical[j])' = Dependencies(canonical[j])
    BY <1>2 DEF Dependencies
  <2> QED BY <2>1, <2>2, <2>3 DEF Caused
<1>18. PassedOver'
  BY <1>2 DEF PassedOver
<1> QED BY <1>9, <1>10, <1>14, <1>15, <1>16, <1>17, <1>18 DEF IndInv

\* Every step of the call keeps the inductive invariant.
LEMMA StepInv == IndInv /\ [Next]_vars => IndInv'
<1> SUFFICES ASSUME IndInv, [Next]_vars PROVE IndInv'
  OBVIOUS
<1>1. CASE SchedulerStep
  BY <1>1, ExecuteInv, StartRoundInv, DispatchInv, CollectInv, ControlInv, FinishInv DEF SchedulerStep
<1>2. CASE \E j \in Jobs : WorkerStep(j)
  BY <1>2, ControlInv DEF WorkerStep
<1>3. CASE UNCHANGED vars
  <2>1. CountersExact' /\ WithinLimits'
    BY <1>3, LimitsFramed DEF vars, counters, IndInv
  <2>2. TypeOK' /\ Shape'
    BY <1>3 DEF vars, IndInv, TypeOK, Shape, Looping, CanonicalJobs, IsReady, Dependencies
  <2>3. NoJobLost' /\ DependenciesFirst' /\ Caused'
    BY <1>3 DEF vars, IndInv, NoJobLost, DependenciesFirst, Caused, Looping, CanonicalJobs, Settled, Dependencies
  <2>4. PassedOver'
    BY <1>3 DEF vars, IndInv, PassedOver, IsReady, Dependencies, HasCapacity, ActiveProblems, ProblemOf, RoleOf, RoleLimit
  <2> QED BY <2>1, <2>2, <2>3, <2>4 DEF IndInv
<1> QED BY <1>1, <1>2, <1>3 DEF Next, Done

\* The inductive invariant holds throughout every call of execute.
LEMMA Invariance == Spec => []IndInv
<1>1. Init => IndInv
  BY InitInv
<1>2. IndInv /\ [Next]_vars => IndInv'
  BY StepInv
<1> QED BY <1>1, <1>2, PTL DEF Spec

-----------------------------------------------------------------------------
(* The properties. *)

\* The scheduler's local state keeps its types; above all the counters, which
\* are decremented, never go below zero.
THEOREM TypeCorrect == Spec => []TypeOK
<1>1. IndInv => TypeOK
  BY DEF IndInv
<1> QED BY <1>1, Invariance, PTL

\* The running workers never exceed a limit of QueueLimits.
THEOREM LimitsHold == Spec => []WithinLimits
<1>1. IndInv => WithinLimits
  BY DEF IndInv
<1> QED BY <1>1, Invariance, PTL

\* No job is lost or run twice at once, and a returned call answers for all.
THEOREM NoJobIsLost == Spec => []NoJobLost
<1>1. IndInv => NoJobLost
  BY DEF IndInv
<1> QED BY <1>1, Invariance, PTL

\* No worker starts before the dependencies of its job are complete.
THEOREM DependenciesComeFirst == Spec => []DependenciesFirst
<1>1. IndInv => DependenciesFirst
  BY DEF IndInv
<1> QED BY <1>1, Invariance, PTL

\* A failure stays in its problem, and only a cause keeps a job waiting.  A
\* minimal job (in the acyclic dependency order) among those that are not
\* complete has no dependency that is not complete, so it is its own cause.
THEOREM FailuresAreIsolated == Spec => []FailureIsolation
<1>1. ASSUME IndInv PROVE FailureIsolation
  <2> SUFFICES ASSUME phase = "returned", NEW p \in Problems,
                      \A j \in Jobs : ProblemOf(j) = p /\ results[j].error \in {"cancelled", "problem_paused", "worker"}
                            => results[j].status = "complete",
                      NEW j0 \in Jobs, ProblemOf(j0) = p, results[j0].status # "complete"
               PROVE  FALSE
    BY DEF FailureIsolation
  <2> DEFINE deps == [j \in Jobs |-> IF canonical[j] = j THEN CanonicalDependencies(batch, canonical)[j] ELSE {}]
             S == {j \in CanonicalJobs : ProblemOf(j) = p /\ results[j].status # "complete"}
  <2>1. TypeOK /\ Shape /\ NoJobLost /\ Caused
    BY <1>1 DEF IndInv
  <2>2. ValidBatch(batch, canonical)
    BY <2>1 DEF Shape
  <2>3. \A j \in Jobs : ProblemOf(canonical[j]) = ProblemOf(j)
    BY <2>2 DEF ValidBatch, NoScopeCollision, ProblemOf
  <2>4. canonical[j0] \in S
    BY <2>1, <2>3 DEF Shape, TypeOK, CanonicalJobs
  <2>5. Acyclic(deps) /\ S \in SUBSET Jobs
    BY <2>2 DEF ValidBatch, CanonicalJobs
  <2>6. PICK j \in S : deps[j] \cap S = {}
    BY <2>4, <2>5 DEF Acyclic
  <2>7. j \in Jobs /\ canonical[j] = j /\ ProblemOf(j) = p /\ results[j].status # "complete"
    BY <2>6 DEF CanonicalJobs
  <2>8. results[j].error = "dependency_incomplete"
    BY <2>1, <2>7 DEF TypeOK, NoJobLost, Caused, Errors
  <2>9. PICK d \in Dependencies(j) : results[d].status # "complete"
    BY <2>1, <2>7, <2>8 DEF Caused
  <2>10. PICK x \in batch.dependencies[j] : d = canonical[x]
    BY <2>9 DEF Dependencies
  <2>11. x \in Jobs /\ ProblemOf(x) = p
    BY <2>2, <2>7, <2>10 DEF ValidBatch, ValidDependencies, ProblemOf
  <2>12. d \in S
    BY <2>1, <2>3, <2>9, <2>10, <2>11 DEF Shape, TypeOK, CanonicalJobs
  <2>13. d \in deps[j]
    BY <2>7, <2>10 DEF CanonicalDependencies
  <2> QED BY <2>6, <2>12, <2>13
<1> QED BY <1>1, Invariance, PTL

\* One idempotency key, one run, one outcome.
THEOREM DuplicatesAreOneRun == Spec => []DuplicatesShareOneRun
<1>1. ASSUME IndInv PROVE DuplicatesShareOneRun
  <2>1. TypeOK /\ Shape
    BY <1>1 DEF IndInv
  <2> SUFFICES ASSUME NEW i \in Jobs, NEW j \in Jobs, batch.job[i].key = batch.job[j].key, i # j
               PROVE  /\ attempts[i] = 0 \/ attempts[j] = 0
                      /\ phase = "returned" => results[i].status = results[j].status
    BY DEF DuplicatesShareOneRun
  <2>2. CASE phase \in {"idle", "rejected"}
    BY <2>1, <2>2 DEF Shape
  <2>3. CASE phase \notin {"idle", "rejected"}
    <3>1. IsDeduplicationMap(batch, canonical)
      BY <2>1, <2>3 DEF Shape, Looping, TypeOK, Phases
    <3>2. canonical[i] \in Jobs /\ canonical[j] \in Jobs /\ batch \in Batch
      BY <2>1, BatchesAreBatches DEF TypeOK
    <3>3. ~SortsBefore(batch, canonical[i], canonical[j]) /\ ~SortsBefore(batch, canonical[j], canonical[i])
      BY <3>1, <3>2 DEF IsDeduplicationMap
    <3>4. canonical[i] = canonical[j]
      BY <3>2, <3>3, SortTotal
    <3>5. canonical[i] # i \/ canonical[j] # j
      BY <3>4
    <3> QED BY <2>1, <3>4, <3>5 DEF Shape, CanonicalJobs
  <2> QED BY <2>2, <2>3
<1> QED BY <1>1, Invariance, PTL

\* While the scheduler waits, the limits leave no room for a ready job.
THEOREM WorkIsConserved == Spec => []WorkConserving
<1>1. ASSUME IndInv PROVE WorkConserving
  <2>1. TypeOK /\ Shape /\ CountersExact /\ PassedOver
    BY <1>1 DEF IndInv
  <2> SUFFICES ASSUME phase = "waiting", NEW j \in pending, IsReady(j),
                      Cardinality(active) < MaxActiveJobs,
                      Cardinality(ActiveIn(ProblemOf(j))) < MaxActiveJobsPerProblem,
                      Cardinality(ActiveAs(RoleOf(j))) < RoleLimit(RoleOf(j)),
                      ActiveIn(ProblemOf(j)) # {} \/ Cardinality({p \in Problems : ActiveIn(p) # {}}) < MaxActiveProblems
               PROVE  FALSE
    <3>1. \A j \in pending : /\ Cardinality(active) \in Nat
                             /\ Cardinality(ActiveIn(ProblemOf(j))) \in Nat
                             /\ Cardinality(ActiveAs(RoleOf(j))) \in Nat
                             /\ RoleLimit(RoleOf(j)) \in Nat
      BY <2>1, ActiveFinite, JobTypes, FS_CardinalityType, LimitsArePositive DEF TypeOK, RoleLimit
    <3>2. Cardinality({p \in Problems : ActiveIn(p) # {}}) \in Nat
      BY ProblemsFinite, FS_Subset, FS_CardinalityType
    <3> QED BY <3>1, <3>2, LimitsArePositive DEF WorkConserving
  <2>2. j \in Jobs /\ ready = {}
    BY <2>1 DEF TypeOK, Shape
  <2>3. ProblemOf(j) \in Problems /\ RoleOf(j) \in Roles
    BY <2>1, <2>2, JobTypes
  <2>4. HasCapacity(j)
    BY <2>1, <2>3, ActiveProblemsExact DEF HasCapacity, CountersExact
  <2> QED BY <2>1, <2>2, <2>4 DEF PassedOver
<1> QED BY <1>1, Invariance, PTL

\* A dispatch never overtakes a ready job that sorts earlier and has capacity.
THEOREM PriorityIsRespected == Spec => PriorityRespected
<1>1. ASSUME IndInv, [Next]_vars, NEW j \in active' \ active,
             NEW k \in pending, IsReady(k), HasCapacity(k), SortsBefore(batch, k, j)
      PROVE  FALSE
  <2>1. \E i \in Jobs : Dispatch(i) /\ active' = active \cup {i}
    BY <1>1 DEF Next, vars, SchedulerStep, WorkerStep, Execute, StartRound, Dispatch, Skip, Await, Drain,
                WorkerFinish, Resume, Collect, EndRound, Return, Done
  <2>2. Dispatch(j) /\ j \in Jobs
    BY <1>1, <2>1
  <2>3. k \in ready
    BY <1>1, <2>2 DEF IndInv, PassedOver, Dispatch
  <2>4. k = j
    BY <1>1, <2>2, <2>3 DEF Dispatch, NextReady
  <2>5. batch.job[j].queuedAt \in Nat /\ j \in Nat
    BY <1>1, <2>2, JobTypes, JobsAreNumbers DEF IndInv, JobRecord
  <2>6. \A p : PriorityOrder(p) \in Nat
    BY DEF PriorityOrder
  <2> QED BY <1>1, <2>4, <2>5, <2>6 DEF SortsBefore
<1>2. IndInv /\ [Next]_vars =>
        [\A j \in active' \ active :
            ~\E k \in pending : IsReady(k) /\ HasCapacity(k) /\ SortsBefore(batch, k, j)]_vars
  BY <1>1
<1> QED BY <1>2, Invariance, PTL DEF Spec, PriorityRespected

\* What RetryBudget needs: a pending job has an attempt left, and a worker's
\* outcome is not touched once its result is recorded.
LEMMA RetryStep ==
    ASSUME IndInv, RetryBudget, AttemptLeft, [Next]_vars
    PROVE  RetryBudget' /\ AttemptLeft'
<1>1. TypeOK /\ Shape /\ NoJobLost /\ Caused
  BY DEF IndInv
<1>2. \A j \in Jobs : batch.job[j].maxAttempts \in Nat \ {0} /\ attempts[j] \in Nat
  BY <1>1, JobTypes DEF JobRecord, TypeOK
<1>3. CASE Execute
  <2>1. /\ UNCHANGED <<batch, outcome, attempts>> /\ \A j \in Jobs : attempts[j] = 0
        /\ pending' \subseteq Jobs
    BY <1>1, <1>3 DEF Execute, Shape
  <2>2. \A j \in Jobs : results'[j].error # "worker"
    BY <1>1, <1>3 DEF Execute, Shape, InitialResult, NoResult, NotRun
  <2> QED BY <1>2, <2>1, <2>2 DEF RetryBudget, AttemptLeft
<1>4. CASE StartRound
  <2>1. /\ UNCHANGED <<batch, canonical, outcome, attempts>> /\ pending' \subseteq pending
        /\ \A j \in Jobs : results'[j].error = "worker" => results[j].error = "worker"
    BY <1>4 DEF StartRound, NotRun
  <2> QED BY <2>1 DEF RetryBudget, AttemptLeft
<1>5. CASE \E j \in Jobs : Dispatch(j)
  <2>1. PICK j \in Jobs : Dispatch(j)
    BY <1>5
  <2>2. /\ j \in pending /\ pending' = pending \ {j}
        /\ attempts' = [attempts EXCEPT ![j] = attempts[j] + 1]
        /\ outcome' = [outcome EXCEPT ![j] = Running]
        /\ UNCHANGED <<batch, canonical, results>>
    BY <1>1, <2>1 DEF Dispatch, NextReady, TypeOK
  <2>3. results[j].error # "worker"
    BY <1>1, <2>1, <2>2 DEF Shape, NoJobLost, Caused, Dispatch, Looping
  <2> QED BY <1>1, <1>2, <2>2, <2>3 DEF RetryBudget, AttemptLeft, TypeOK
<1>6. CASE \E j \in Jobs : Collect(j)
  <2>1. PICK j \in Jobs : Collect(j)
    BY <1>6
  <2>2. UNCHANGED <<batch, canonical, outcome, attempts>>
    BY <2>1 DEF Collect
  <2>3. CASE ShouldRetry(j)
    BY <1>2, <2>1, <2>2, <2>3 DEF Collect, ShouldRetry, RetryBudget, AttemptLeft
  <2>4. CASE ~ShouldRetry(j)
    <3>1. pending' = pending /\ \A i \in Jobs \ {j} : results'[i] = results[i]
      BY <1>1, <2>1, <2>4 DEF Collect, TypeOK
    <3>2. outcome[j].retryable => attempts[j] = batch.job[j].maxAttempts
      <4>1. outcome[j] \in WorkerOutcomes \cup {Running}
        BY <1>1 DEF TypeOK
      <4>2. outcome[j].retryable = TRUE => outcome[j].status = "failed"
        BY <4>1 DEF WorkerOutcomes, Running
      <4> QED BY <1>2, <2>4, <4>2 DEF ShouldRetry, RetryBudget
    <3> QED BY <2>2, <3>1, <3>2 DEF RetryBudget, AttemptLeft
  <2> QED BY <2>3, <2>4
<1>7. CASE \E j \in Jobs : WorkerFinish(j)
  <2>1. PICK j \in Jobs : WorkerFinish(j)
    BY <1>7
  <2>2. /\ j \in active /\ UNCHANGED <<batch, canonical, pending, attempts, results>>
        /\ \A i \in Jobs \ {j} : outcome'[i] = outcome[i]
    BY <1>1, <2>1 DEF WorkerFinish, TypeOK
  <2>3. results[j].error # "worker"
    BY <1>1, <2>1, <2>2 DEF Shape, NoJobLost, Caused, WorkerFinish, Looping
  <2> QED BY <2>2, <2>3 DEF RetryBudget, AttemptLeft
<1>8. CASE Drain \/ Return
  <2>1. /\ UNCHANGED <<batch, canonical, outcome, attempts>> /\ pending' = {}
        /\ \A j \in CanonicalJobs : results'[j].error = "worker" => results[j].error = "worker"
    <3>1. CASE Drain
      <4>1. UNCHANGED <<batch, canonical, outcome, attempts>> /\ pending' = {}
        BY <3>1 DEF Drain
      <4>2. ASSUME NEW j \in Jobs, canonical[j] = j, results'[j].error = "worker"
            PROVE  results[j].error = "worker"
        <5>1. results'[j] = IF j \in pending THEN NotRun("waiting", "dependency_incomplete")
                            ELSE results[j]
          BY <3>1, <4>2 DEF Drain, WithDuplicates
        <5> QED BY <4>2, <5>1 DEF NotRun
      <4> QED BY <4>1, <4>2 DEF CanonicalJobs
    <3>2. CASE Return
      <4>1. UNCHANGED <<batch, canonical, outcome, attempts>> /\ pending' = {}
        BY <3>2 DEF Return
      <4>2. ASSUME NEW j \in Jobs, canonical[j] = j
            PROVE  results'[j] = results[j]
        BY <3>2, <4>2 DEF Return, WithDuplicates
      <4> QED BY <4>1, <4>2 DEF CanonicalJobs
    <3> QED BY <1>8, <3>1, <3>2
  <2> QED BY <2>1 DEF RetryBudget, AttemptLeft, CanonicalJobs
<1>9. CASE Await \/ EndRound \/ Resume \/ (\E j \in Jobs : Skip(j)) \/ UNCHANGED vars
  <2>1. UNCHANGED <<batch, canonical, outcome, attempts, pending, results>>
    BY <1>9 DEF Await, EndRound, Resume, Skip, vars
  <2> QED BY <2>1 DEF RetryBudget, AttemptLeft
<1> QED BY <1>3, <1>4, <1>5, <1>6, <1>7, <1>8, <1>9 DEF Next, SchedulerStep, WorkerStep, Done

\* No job is attempted more than max_attempts times, and a retryable failure
\* is final only after the last attempt.
THEOREM RetriesAreBounded == Spec => []RetryBudget
<1>1. Init => RetryBudget /\ AttemptLeft
  <2> SUFFICES ASSUME Init PROVE RetryBudget /\ AttemptLeft
    OBVIOUS
  <2>1. TypeOK
    BY InitInv DEF IndInv
  <2>2. \A j \in Jobs : batch.job[j].maxAttempts \in Nat \ {0}
    BY <2>1, JobTypes DEF JobRecord
  <2> QED BY <2>2 DEF Init, RetryBudget, AttemptLeft, NoResult
<1>2. IndInv /\ RetryBudget /\ AttemptLeft /\ [Next]_vars => RetryBudget' /\ AttemptLeft'
  BY RetryStep
<1> QED BY <1>1, <1>2, Invariance, PTL DEF Spec
=============================================================================
