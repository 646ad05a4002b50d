---------------------------- MODULE MCScheduler ----------------------------
(* Batches of four jobs for the model checker: one per way of spreading     *)
(* jobs over problems, roles, keys and dependencies.                        *)
EXTENDS Scheduler

MCJobs == 1..4

Job(problem, role, key, priority, queuedAt, maxAttempts) ==
    [problem |-> problem, role |-> role, type |-> role, key |-> key, status |-> "queued",
     priority |-> priority, queuedAt |-> queuedAt, maxAttempts |-> maxAttempts]

NoDependencies == [j \in MCJobs |-> {}]
Diamond == <<{}, {1}, {1}, {2, 3}>>
Chain == <<{}, {1}, {2}, {3}>>
Cycle == <<{3}, {1}, {2}, {}>>

\* Three problems: more than may be active at once.
Spread == <<Job("p1", "evidence", "k1", "normal", 0, 2), Job("p2", "evidence", "k2", "high", 1, 1),
            Job("p3", "evidence", "k3", "normal", 0, 1), Job("p1", "evidence", "k4", "deferred", 0, 1)>>
\* One problem, with a retry in the middle of its dependencies.
Single == <<Job("p1", "evidence", "k1", "normal", 0, 1), Job("p1", "evidence", "k2", "normal", 2, 2),
            Job("p1", "evidence", "k3", "critical", 1, 1), Job("p1", "verifier", "k4", "normal", 0, 1)>>
\* Two planners and two verifiers: role limits of one.
RolesMix == <<Job("p1", "planner", "k1", "normal", 0, 2), Job("p2", "planner", "k2", "normal", 0, 1),
              Job("p1", "verifier", "k3", "high", 0, 1), Job("p2", "verifier", "k4", "high", 1, 2)>>
\* Jobs 2 and 3 have the same idempotency key; 3 sorts first.
Twins == <<Job("p1", "evidence", "k1", "normal", 0, 1), Job("p1", "evidence", "k2", "normal", 1, 2),
           Job("p1", "evidence", "k2", "high", 1, 2), Job("p1", "evidence", "k4", "normal", 0, 1)>>
\* The shared key spans two problems: rejected.
Collision == [Twins EXCEPT ![3].problem = "p2"]

Call(job, dependencies, paused, cancelled) ==
    [job |-> job, dependencies |-> dependencies, paused |-> paused, cancelled |-> cancelled]

MCBatches ==
    {Call(Spread, NoDependencies, {}, {}), Call(Spread, NoDependencies, {"p1"}, {3}),
     Call(Spread, <<{}, {}, {}, {1}>>, {}, {}),
     Call(Spread, <<{}, {1}, {}, {}>>, {}, {}),
     Call(Single, NoDependencies, {}, {}), Call(Single, Diamond, {}, {}),
     Call(Single, Chain, {}, {}), Call(Single, Chain, {}, {2}), Call(Single, Cycle, {}, {}),
     Call(Single, <<{}, {9}, {}, {}>>, {}, {}),
     Call(RolesMix, NoDependencies, {}, {}), Call(RolesMix, <<{}, {}, {1}, {2}>>, {}, {}),
     Call(Twins, Diamond, {}, {}), Call(Twins, Diamond, {}, {2}), Call(Twins, Diamond, {}, {3}),
     Call(Twins, <<{}, {1}, {}, {}>>, {}, {}), Call(Collision, NoDependencies, {}, {})}
=============================================================================
