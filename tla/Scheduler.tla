----------------------------- MODULE Scheduler -----------------------------
(***************************************************************************)
(* The bounded job scheduler: BoundedJobScheduler in                       *)
(* application/scheduler.py.                                               *)
(*                                                                         *)
(* One call of execute(jobs, dependencies, paused, cancelled).  The batch  *)
(* is validated and deduplicated, then a loop settles the jobs whose       *)
(* dependencies failed, dispatches ready jobs in (priority, queued_at,     *)
(* job_id) order while the limits allow it, waits for the first worker to  *)
(* finish and collects every worker that is done by then.                  *)
(*                                                                         *)
(* The scheduler coroutine is single threaded: between two awaits nothing  *)
(* else runs.  Its loop is split into one action per iteration of its      *)
(* inner loops, and workers can finish only in phase "waiting", the one    *)
(* await.  job_ids are numbers, so that their order is the code's string   *)
(* order; that they are unique is built into the functions over Jobs.      *)
(***************************************************************************)
EXTENDS Naturals, FiniteSets

CONSTANTS
    Jobs,               \* job ids of the batch
    Problems,           \* problem ids
    Roles,              \* JobRole values; "planner" and "verifier" have limits
    Types,              \* job_type values
    Keys,               \* idempotency keys
    Batches,            \* the batches a caller may pass to execute
    MaxActiveProblems, MaxActiveJobs, MaxActiveJobsPerProblem,
    MaxPlannerJobs, MaxVerifierJobs

Priorities == {"critical", "high", "normal", "deferred"}
JobStatuses == {"queued", "running", "waiting", "complete", "partial", "failed", "cancelled"}
TerminalWorkerStatuses == {"complete", "partial", "failed", "cancelled"}
BlockingStatuses == {"waiting", "partial", "failed", "cancelled"}

\* The fields of JobRecord the scheduler reads (domain/operations.py).
JobRecord ==
    [problem: Problems, role: Roles, type: Types, key: Keys, status: JobStatuses,
     priority: Priorities, queuedAt: Nat, maxAttempts: Nat \ {0}]

\* The arguments of execute.  A dependency may name a job that does not exist.
Batch ==
    [job: [Jobs -> JobRecord], dependencies: [Jobs -> SUBSET Nat],
     paused: SUBSET Problems, cancelled: SUBSET Jobs]

\* QueueLimits.__post_init__: every limit is positive.
ASSUME LimitsArePositive ==
    /\ MaxActiveProblems \in Nat \ {0}
    /\ MaxActiveJobs \in Nat \ {0}
    /\ MaxActiveJobsPerProblem \in Nat \ {0}
    /\ MaxPlannerJobs \in Nat \ {0}
    /\ MaxVerifierJobs \in Nat \ {0}

ASSUME JobsAreNumbers == Jobs \subseteq Nat /\ IsFiniteSet(Jobs)

ASSUME ProblemsFinite == IsFiniteSet(Problems)

ASSUME BatchesAreBatches == Batches \subseteq Batch

VARIABLES
    batch,          \* the arguments of the call
    phase,          \* where the scheduler coroutine is
    canonical,      \* canonical_by_job
    pending,        \* canonical jobs not settled and not running
    ready,          \* ready jobs of this round not looked at yet
    active,         \* jobs with a worker task the scheduler has not collected
    outcome,        \* the outcome of a worker task that is done
    completed,      \* done tasks of this round not collected yet
    attempts,       \* dispatches of each job
    results,        \* the result of each job, NoResult until it has one
    total,          \* _ActiveCounters: running jobs,
    byProblem,      \* running jobs of each problem,
    byRole          \* and of each role

\* _ActiveCounters
counters == <<total, byProblem, byRole>>

vars == <<batch, phase, canonical, pending, ready, active, outcome, completed,
          attempts, results, total, byProblem, byRole>>

Phases == {"idle", "rejected", "loop", "dispatching", "waiting", "collecting", "returned"}
Errors == {"none", "cancelled", "problem_paused", "dependency_incomplete", "worker"}

NoResult == [status |-> "queued", error |-> "none", attempts |-> 0]
NotRun(status, error) == [status |-> status, error |-> error, attempts |-> 0]
Settled(j) == results[j].status # "queued"

\* WorkerOutcome.__post_init__: terminal, and retryable only when failed.
WorkerOutcomes ==
    {o \in [status: TerminalWorkerStatuses, retryable: BOOLEAN] :
        o.retryable => o.status = "failed"}

Running == [status |-> "running", retryable |-> FALSE]

-----------------------------------------------------------------------------
(* Ordering and validation of the batch. *)

PriorityOrder(p) ==
    CASE p = "critical" -> 0 [] p = "high" -> 1 [] p = "normal" -> 2 [] OTHER -> 3

\* _sort_key(a) < _sort_key(b)
SortsBefore(b, i, j) ==
    LET pi == PriorityOrder(b.job[i].priority)
        pj == PriorityOrder(b.job[j].priority)
        qi == b.job[i].queuedAt
        qj == b.job[j].queuedAt
    IN  \/ pi < pj
        \/ pi = pj /\ qi < qj
        \/ pi = pj /\ qi = qj /\ i < j

\* Mutant: no cycle search.
MutAcyclic(deps) == TRUE

\* A finite graph has no cycle iff every non-empty set of jobs has a member
\* that depends on no member: the depth-first search finds no back edge.
Acyclic(deps) ==
    \A S \in SUBSET Jobs : S # {} => \E j \in S : deps[j] \cap S = {}

\* Mutant: the idempotency key is ignored.
MutIsDeduplicationMap(b, m) == \A j \in Jobs : m[j] = j

\* m maps every job to the first job, in sort order, with its idempotency key.
IsDeduplicationMap(b, m) ==
    \A j \in Jobs :
        /\ b.job[m[j]].key = b.job[j].key
        /\ \A k \in Jobs : b.job[k].key = b.job[j].key => ~SortsBefore(b, k, m[j])

NoScopeCollision(b, m) ==
    \A j \in Jobs :
        /\ b.job[m[j]].problem = b.job[j].problem
        /\ b.job[m[j]].type = b.job[j].type
        /\ b.job[m[j]].role = b.job[j].role

CanonicalDependencies(b, m) == [j \in Jobs |-> {m[d] : d \in b.dependencies[j]}]

ValidDependencies(b) ==
    /\ \A j \in Jobs : \A d \in b.dependencies[j] :
        d \in Jobs /\ b.job[d].problem = b.job[j].problem /\ d # j
    /\ Acyclic(b.dependencies)

ValidBatch(b, m) ==
    /\ \A j \in Jobs : b.job[j].status = "queued"
    /\ ValidDependencies(b)
    /\ NoScopeCollision(b, m)
    /\ \A j \in Jobs : CanonicalDependencies(b, m)[j] = CanonicalDependencies(b, m)[m[j]]
    /\ Acyclic([j \in Jobs |-> IF m[j] = j THEN CanonicalDependencies(b, m)[j] ELSE {}])

-----------------------------------------------------------------------------
(* What the loop reads. *)

CanonicalJobs == {j \in Jobs : canonical[j] = j}
Dependencies(j) == {canonical[d] : d \in batch.dependencies[j]}
ProblemOf(j) == batch.job[j].problem
RoleOf(j) == batch.job[j].role

RoleLimit(r) ==
    IF r = "planner" THEN MaxPlannerJobs
    ELSE IF r = "verifier" THEN MaxVerifierJobs
    ELSE MaxActiveJobs

ActiveProblems == {p \in Problems : byProblem[p] > 0}

\* Mutant: <= where the last limit needs <.
MutHasCapacity(j) ==
    /\ total < MaxActiveJobs
    /\ byProblem[ProblemOf(j)] < MaxActiveJobsPerProblem
    /\ byRole[RoleOf(j)] < RoleLimit(RoleOf(j))
    /\ ProblemOf(j) \in ActiveProblems \/ Cardinality(ActiveProblems) <= MaxActiveProblems

HasCapacity(j) ==
    /\ total < MaxActiveJobs
    /\ byProblem[ProblemOf(j)] < MaxActiveJobsPerProblem
    /\ byRole[RoleOf(j)] < RoleLimit(RoleOf(j))
    /\ ProblemOf(j) \in ActiveProblems \/ Cardinality(ActiveProblems) < MaxActiveProblems

\* Mutant: a job waits only for dependencies that cannot complete any more.
MutIsReady(j) == \A d \in Dependencies(j) : results[d].status \notin BlockingStatuses

IsReady(j) == \A d \in Dependencies(j) : results[d].status = "complete"
IsBlocked(j) == \E d \in Dependencies(j) : results[d].status \in BlockingStatuses

-----------------------------------------------------------------------------
Init ==
    /\ batch \in Batches
    /\ phase = "idle"
    /\ canonical = [j \in Jobs |-> j]
    /\ pending = {} /\ ready = {} /\ active = {} /\ completed = {}
    /\ outcome = [j \in Jobs |-> Running]
    /\ attempts = [j \in Jobs |-> 0]
    /\ results = [j \in Jobs |-> NoResult]
    /\ total = 0
    /\ byProblem = [p \in Problems |-> 0]
    /\ byRole = [r \in Roles |-> 0]

\* What the loop starts from: cancelled jobs and jobs of paused problems get
\* their result without running.  A job both cancelled and paused is cancelled.
InitialResult(j, m) ==
    IF m[j] # j THEN NoResult
    ELSE IF j \in batch.cancelled THEN NotRun("cancelled", "cancelled")
    ELSE IF ProblemOf(j) \in batch.paused THEN NotRun("waiting", "problem_paused")
    ELSE NoResult

\* _execute up to the loop; any failed validation raises ValueError.
Execute ==
    /\ phase = "idle"
    /\ \E m \in [Jobs -> Jobs] :
        /\ IsDeduplicationMap(batch, m)
        /\ IF ValidBatch(batch, m)
           THEN /\ phase' = "loop"
                /\ canonical' = m
                /\ results' = [j \in Jobs |-> InitialResult(j, m)]
                /\ pending' = {j \in Jobs : m[j] = j /\ InitialResult(j, m) = NoResult}
           ELSE /\ phase' = "rejected"
                /\ UNCHANGED <<canonical, results, pending>>
    /\ UNCHANGED <<batch, ready, active, outcome, completed, attempts, counters>>

\* _resolve_blocked_dependencies and _ready_jobs at the top of an iteration.
\* The single pass goes over a set in hash order and sees the results it has
\* just written, so it settles the blocked jobs and any set of jobs reachable
\* from them.
StartRound ==
    /\ phase = "loop"
    /\ pending # {} \/ active # {}
    /\ \E R \in SUBSET pending :
        /\ {j \in pending : IsBlocked(j)} \subseteq R
        /\ \A j \in R : IsBlocked(j) \/ Dependencies(j) \cap R # {}
        /\ results' = [j \in Jobs |-> IF j \in R THEN NotRun("waiting", "dependency_incomplete")
                                      ELSE results[j]]
        /\ pending' = pending \ R
        /\ ready' = {j \in pending \ R : IsReady(j)}
    /\ phase' = "dispatching"
    /\ UNCHANGED <<batch, canonical, active, outcome, completed, attempts, counters>>

\* _increment
Increment(j) ==
    /\ total' = total + 1
    /\ byProblem' = [byProblem EXCEPT ![ProblemOf(j)] = @ + 1]
    /\ byRole' = [byRole EXCEPT ![RoleOf(j)] = @ + 1]

\* Mutant: the role slot is never given back.
MutDecrement(j) ==
    /\ total' = total - 1
    /\ byProblem' = [byProblem EXCEPT ![ProblemOf(j)] = @ - 1]
    /\ UNCHANGED byRole

\* _decrement
Decrement(j) ==
    /\ total' = total - 1
    /\ byProblem' = [byProblem EXCEPT ![ProblemOf(j)] = @ - 1]
    /\ byRole' = [byRole EXCEPT ![RoleOf(j)] = @ - 1]

\* Mutant: the ready list is not sorted.
MutNextReady(j) == j \in ready

\* The next job of the sorted ready list.
NextReady(j) == j \in ready /\ \A k \in ready \ {j} : ~SortsBefore(batch, k, j)

\* One iteration of the dispatch loop that starts a worker.
Dispatch(j) ==
    /\ phase = "dispatching"
    /\ NextReady(j)
    /\ HasCapacity(j)
    /\ ready' = ready \ {j}
    /\ pending' = pending \ {j}
    /\ attempts' = [attempts EXCEPT ![j] = @ + 1]
    /\ Increment(j)
    /\ active' = active \cup {j}
    /\ outcome' = [outcome EXCEPT ![j] = Running]
    /\ UNCHANGED <<batch, phase, canonical, completed, results>>

\* The `continue` of the dispatch loop: no capacity for this job now.
Skip(j) ==
    /\ phase = "dispatching"
    /\ NextReady(j)
    /\ ~HasCapacity(j)
    /\ ready' = ready \ {j}
    /\ UNCHANGED <<batch, phase, canonical, pending, active, outcome, completed,
                   attempts, results, counters>>

\* Mutant: the wait is entered with no worker to wait for.
MutAwait ==
    /\ phase = "dispatching" /\ ready = {}
    /\ phase' = "waiting"
    /\ UNCHANGED <<batch, canonical, pending, ready, active, outcome, completed,
                   attempts, results, counters>>

\* The dispatch loop is over and workers run: asyncio.wait suspends.
Await ==
    /\ phase = "dispatching" /\ ready = {} /\ active # {}
    /\ phase' = "waiting"
    /\ UNCHANGED <<batch, canonical, pending, ready, active, outcome, completed,
                   attempts, results, counters>>

\* Copies a duplicate's result from its canonical job.
WithDuplicates(res) ==
    [j \in Jobs |-> IF canonical[j] = j THEN res[j]
                    ELSE [res[canonical[j]] EXCEPT !.attempts = 0]]

\* `if not active`: nothing runs, so nothing pending can become ready.
Drain ==
    /\ phase = "dispatching" /\ ready = {} /\ active = {}
    /\ results' = WithDuplicates([j \in Jobs |->
                    IF j \in pending THEN NotRun("waiting", "dependency_incomplete")
                    ELSE results[j]])
    /\ pending' = {}
    /\ phase' = "returned"
    /\ UNCHANGED <<batch, canonical, ready, active, outcome, completed,
                   attempts, counters>>

\* _run_worker: the executor returned an outcome, or raised and was mapped to
\* "failed" (an exception) or "cancelled" (CancelledError).
WorkerFinish(j) ==
    /\ phase = "waiting"
    /\ j \in active
    /\ outcome[j] = Running
    /\ \E o \in WorkerOutcomes : outcome' = [outcome EXCEPT ![j] = o]
    /\ UNCHANGED <<batch, phase, canonical, pending, ready, active, completed,
                   attempts, results, counters>>

\* asyncio.wait(FIRST_COMPLETED) resumes with every task that is done by then.
Resume ==
    /\ phase = "waiting"
    /\ completed' = {j \in active : outcome[j] # Running}
    /\ completed' # {}
    /\ phase' = "collecting"
    /\ UNCHANGED <<batch, canonical, pending, ready, active, outcome,
                   attempts, results, counters>>

\* Mutant: <= max_attempts.
MutShouldRetry(j) ==
    /\ outcome[j].status = "failed" /\ outcome[j].retryable
    /\ attempts[j] <= batch.job[j].maxAttempts

ShouldRetry(j) ==
    /\ outcome[j].status = "failed" /\ outcome[j].retryable
    /\ attempts[j] < batch.job[j].maxAttempts

\* Mutant: a job to retry is not put back into pending.
MutCollect(j) ==
    /\ phase = "collecting"
    /\ j \in completed /\ \A k \in completed : j <= k
    /\ completed' = completed \ {j}
    /\ active' = active \ {j}
    /\ Decrement(j)
    /\ IF ShouldRetry(j) THEN UNCHANGED results
       ELSE results' = [results EXCEPT ![j] =
                [status |-> outcome[j].status, error |-> "worker", attempts |-> attempts[j]]]
    /\ UNCHANGED <<batch, phase, canonical, pending, ready, outcome, attempts>>

\* One iteration of the collection loop, in job_id order.
Collect(j) ==
    /\ phase = "collecting"
    /\ j \in completed /\ \A k \in completed : j <= k
    /\ completed' = completed \ {j}
    /\ active' = active \ {j}
    /\ Decrement(j)
    /\ IF ShouldRetry(j)
       THEN pending' = pending \cup {j} /\ UNCHANGED results
       ELSE /\ results' = [results EXCEPT ![j] =
                    [status |-> outcome[j].status, error |-> "worker", attempts |-> attempts[j]]]
            /\ UNCHANGED pending
    /\ UNCHANGED <<batch, phase, canonical, ready, outcome, attempts>>

\* The collection loop is over: back to the `while` condition.
EndRound ==
    /\ phase = "collecting" /\ completed = {}
    /\ phase' = "loop"
    /\ UNCHANGED <<batch, canonical, pending, ready, active, outcome, completed,
                   attempts, results, counters>>

\* `while pending or active` is false: duplicates are filled in and the call returns.
Return ==
    /\ phase = "loop" /\ pending = {} /\ active = {}
    /\ results' = WithDuplicates(results)
    /\ phase' = "returned"
    /\ UNCHANGED <<batch, canonical, pending, ready, active, outcome, completed,
                   attempts, counters>>

\* A finished call changes nothing more.
Done == phase \in {"returned", "rejected"} /\ UNCHANGED vars

SchedulerStep ==
    \/ Execute \/ StartRound \/ Await \/ Drain \/ Resume \/ EndRound \/ Return
    \/ \E j \in Jobs : Dispatch(j) \/ Skip(j) \/ Collect(j)

WorkerStep(j) == WorkerFinish(j)

Next == SchedulerStep \/ (\E j \in Jobs : WorkerStep(j)) \/ Done

Spec == Init /\ [][Next]_vars

\* The event loop runs the scheduler coroutine whenever it can run, and the
\* executors terminate (every adapter call in them has a timeout or is finite).
FairSpec ==
    /\ Spec
    /\ WF_vars(SchedulerStep)
    /\ \A j \in Jobs : WF_vars(WorkerStep(j))
-----------------------------------------------------------------------------
(* Properties. *)

Looping == phase \in {"loop", "dispatching", "waiting", "collecting"}
ActiveIn(p) == {j \in active : ProblemOf(j) = p}
ActiveAs(r) == {j \in active : RoleOf(j) = r}

\* Types of the scheduler's local state.
TypeOK ==
    /\ batch \in Batches
    /\ phase \in Phases
    /\ canonical \in [Jobs -> Jobs]
    /\ pending \in SUBSET Jobs
    /\ ready \in SUBSET pending
    /\ active \in SUBSET Jobs
    /\ outcome \in [Jobs -> WorkerOutcomes \cup {Running}]
    /\ completed \in SUBSET active
    /\ attempts \in [Jobs -> Nat]
    /\ results \in [Jobs -> [status: JobStatuses, error: Errors, attempts: Nat]]
    /\ total \in Nat
    /\ byProblem \in [Problems -> Nat]
    /\ byRole \in [Roles -> Nat]

\* The workers that really run never exceed a limit of QueueLimits: in total,
\* per problem, per role, and in the number of problems with a running job.
\* The code checks counters it keeps beside the task set; this is about the
\* tasks.
WithinLimits ==
    /\ Cardinality(active) <= MaxActiveJobs
    /\ \A p \in Problems : Cardinality(ActiveIn(p)) <= MaxActiveJobsPerProblem
    /\ \A r \in Roles : Cardinality(ActiveAs(r)) <= RoleLimit(r)
    /\ Cardinality({p \in Problems : ActiveIn(p) # {}}) <= MaxActiveProblems

\* A job that was ever dispatched has only dependencies that completed, and
\* they stay completed (_ready_jobs).
DependenciesFirst ==
    \A j \in Jobs : attempts[j] > 0 =>
        \A d \in Dependencies(j) : results[d].status = "complete"

\* Every canonical job is at every moment exactly one of pending, running and
\* settled, and a returned call has a result for every job of the batch: no
\* path through retry, resolve, drain and collect loses or doubles a job.
NoJobLost ==
    /\ Looping => \A j \in CanonicalJobs :
        /\ j \in pending \/ j \in active \/ Settled(j)
        /\ ~(j \in pending /\ j \in active)
        /\ Settled(j) => j \notin pending \cup active
    /\ phase = "returned" => \A j \in Jobs : Settled(j)

\* A worker's failure stays in its problem (REQ-OPS-QUEUE-005), and a job is
\* left waiting only with a cause: if no job of a problem was cancelled or
\* paused and every worker of it that ran to an end completed, then every job
\* of the problem completed.
FailureIsolation ==
    phase = "returned" => \A p \in Problems :
        LET ofP == {j \in Jobs : ProblemOf(j) = p}
            own == {j \in ofP : results[j].error \in {"cancelled", "problem_paused", "worker"}}
        IN  (\A j \in own : results[j].status = "complete") =>
                \A j \in ofP : results[j].status = "complete"

\* Jobs with one idempotency key are run as one job and report one outcome.
DuplicatesShareOneRun ==
    \A i, j \in Jobs : batch.job[i].key = batch.job[j].key /\ i # j =>
        /\ attempts[i] = 0 \/ attempts[j] = 0
        /\ phase = "returned" => results[i].status = results[j].status

\* Retries are bounded by max_attempts, and a retryable failure is reported as
\* the result only once the attempts are used up.
RetryBudget ==
    \A j \in Jobs :
        /\ attempts[j] <= batch.job[j].maxAttempts
        /\ (results[j].error = "worker" /\ outcome[j].retryable /\ canonical[j] = j)
              => attempts[j] = batch.job[j].maxAttempts

\* While the scheduler waits, no job whose dependencies completed could have
\* been started within the limits, measured on the tasks that run.
WorkConserving ==
    phase = "waiting" => \A j \in pending : IsReady(j) =>
        \/ Cardinality(active) >= MaxActiveJobs
        \/ Cardinality(ActiveIn(ProblemOf(j))) >= MaxActiveJobsPerProblem
        \/ Cardinality(ActiveAs(RoleOf(j))) >= RoleLimit(RoleOf(j))
        \/ /\ ActiveIn(ProblemOf(j)) = {}
           /\ Cardinality({p \in Problems : ActiveIn(p) # {}}) >= MaxActiveProblems

\* A dispatch never overtakes: when a worker is started for j, no ready job
\* that sorts before j by priority, queue time and id could be started instead.
PriorityRespected ==
    [][\A j \in active' \ active :
          ~\E k \in pending : IsReady(k) /\ HasCapacity(k) /\ SortsBefore(batch, k, j)]_vars

\* execute ends: it returns, or it rejects the batch.
Termination == <>(phase \in {"returned", "rejected"})
-----------------------------------------------------------------------------
(* The inductive invariant behind the safety properties. *)

\* The counters the limits are checked against are those of the task set.
CountersExact ==
    /\ total = Cardinality(active)
    /\ \A p \in Problems : byProblem[p] = Cardinality(ActiveIn(p))
    /\ \A r \in Roles : byRole[r] = Cardinality(ActiveAs(r))

\* What each phase of the loop guarantees about the local variables.
Shape ==
    /\ phase \in {"idle", "rejected"} =>
        /\ pending = {} /\ active = {}
        /\ \A j \in Jobs : attempts[j] = 0 /\ results[j] = NoResult
    /\ phase # "dispatching" => ready = {}
    /\ phase # "collecting" => completed = {}
    /\ \A j \in ready : IsReady(j)
    /\ \A j \in Jobs : canonical[canonical[j]] = canonical[j]
    /\ pending \cup active \subseteq CanonicalJobs
    /\ Looping => \A j \in Jobs \ CanonicalJobs : results[j] = NoResult
    /\ Looping \/ phase = "returned" => ValidBatch(batch, canonical) /\ IsDeduplicationMap(batch, canonical)
    /\ \A j \in Jobs \ CanonicalJobs : attempts[j] = 0
    /\ phase = "returned" => \A j \in Jobs :
        results[j].status = results[canonical[j]].status /\ results[j].error = results[canonical[j]].error

\* Every result has a reason, and a job that waits for a dependency has one
\* that is settled without being complete.
Caused ==
    \A j \in Jobs :
        /\ results[j].error = "none" <=> ~Settled(j)
        /\ results[j].error = "dependency_incomplete" =>
            \E d \in Dependencies(canonical[j]) : Settled(d) /\ results[d].status # "complete"

\* A job that waits to be dispatched has an attempt left.
AttemptLeft == \A j \in pending : attempts[j] < batch.job[j].maxAttempts

\* A ready job the dispatch loop has passed over in this round had no
\* capacity, and has none until the round ends.
PassedOver ==
    phase \in {"dispatching", "waiting"} =>
        \A k \in pending \ ready : IsReady(k) => ~HasCapacity(k)

IndInv ==
    /\ TypeOK /\ CountersExact /\ WithinLimits /\ Shape
    /\ NoJobLost /\ DependenciesFirst /\ Caused /\ PassedOver

=============================================================================
