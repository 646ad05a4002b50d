# TLA+ models of the SCAN analysis tool

SCAN is a local tool for blockchain-analysis competitions. An operator captures
problems, plans and schedules read-only analysis jobs, replays recorded chain
data through deterministic analyzers, stores results and evidence in SQLite,
verifies a candidate answer independently, and records by hand what was
submitted. This directory holds TLA+ models of the parts of it that carry state
and can go wrong in ways a unit test hardly reaches, TLC configurations for
small instances, and TLAPS proofs for all instances.

Paths below are relative to `src/scan_tool/` of the repository unless they start
with `docs/`.

## 1. The system

| Component | State | Operations | Hard behaviour | Model |
|---|---|---|---|---|
| Bounded job scheduler, `application/scheduler.py` (`BoundedJobScheduler`) | pending jobs, running tasks, counters, attempts, results of one call | `execute`: validate, deduplicate, settle blocked jobs, dispatch, await, collect, retry | workers end in any order; counters kept beside the task set; retries; failed dependencies; hash-ordered pass | `Scheduler` |
| In-flight request pool, same file (`InFlightRequestPool`) | map key -> task, one semaphore per capability | `execute`, `_run_source`, `_forget` | callers join, cancel, repeat; done callbacks run after the task ended | `RequestPool` |
| Analysis runs of a data root, `cli.py`, `application/cli_runtime.py`, `adapters/sqlite_storage.py`, `application/export.py`, `adapters/evidence.py` | `analysis_runs`, `checkpoints`, result/evidence/source rows, `exports`, artifacts | `scan analyze`, `scan resume`, the in-process evidence worker | several processes, several transactions per command, a kill between any two | `AnalysisRun` |
| Submission record, `application/submission.py`, `adapters/sqlite_operations.py`, `cli.py` | problems, candidates, submissions, operation events | `mark-submitted`, `save_document`, `append_event` | two operators; loads that are not atomic; clocks that go back; lost acknowledgements | `Submission`, `SubmissionLog` |
| Operations pipeline gates, `application/planner.py`, `evidence_worker.py`, `candidate_verifier.py`, `domain/operations.py` | plan, job, candidate, verification, problem statuses | plan, collect evidence, build candidate, verify, promote | re-verification, partial evidence, records that change while a worker runs | `PipelineGates` |
| Source orchestration and cache, `application/source_orchestration.py`, `storage_orchestration.py`, `adapters/http.py`, `adapters/sqlite_storage.py` | files, artifact rows, cache entries, attempts | `CachedSourceExecutor.execute`: fallback over sources, retry loop, cache read and write | concurrent misses, four writes per answer, retries against a limit, failure classification | `SourceAccess` |
| Stage checkpoints, `application/storage_orchestration.py` (`CheckpointRunner`), `adapters/sqlite_storage.py` | rows of `checkpoints` | `run_once`: look, run the operation, store its state under the next revision | callers that run one stage at once, a revision read before the transaction that uses it | `CheckpointRunner` |
| EVM replay analyzers, `slices/dex.py`, `auth.py`, `freeze.py`, `evm_core.py`, `evm_special.py` | none (functions of request and replay) | one `analyze` per type | which fault decides, chains of states at several blocks, capture order, ambiguous matches | `Dex`, `Auth`, `Freeze`, `EvmCore`, `EvmSpecial` |
| Flow and context analyzers, `slices/flow_path.py`, `intel_context.py`, `case_reconciliation.py` | none | path walk, remerge, origin aggregation; five intelligence queries; case composition | budgets, cycles, double counting, results that must never read complete | `FlowPath`, `IntelContext`, `CaseReconciliation` |
| Package analyzers, `slices/` and `domain/` of `cex_cluster.py`, `bridge_transfer.py`, `mixer_flow.py`, `defi_lending.py`, `bitcoin_utxo.py` | pinned files | reconstruct facts from content-addressed artifacts of two providers | missing against contradicting pieces, altered files, providers that disagree | `ReplayPackage` and one module each |
| Result contract, `domain/analysis_result.py`, `validation.py`, `_types.py` | none | validation of a result | references that do not resolve | `ResultContract` |
| Input wiring, `application/input_wiring.py`, `adapters/input_source.py` | input bundle, manifest | prepare, persist, approved replay | - | not modelled |
| Operations snapshot, `application/operations_snapshot.py` | none (projection of a document) | `build` | - | not modelled |
| Request and replay fields, `domain/*.py` | none | field validation | - | inputs of the models |
| Fixture replays, independent verifiers and negative oracles, `application/task_*.py`; provider smoke test; benchmark; terminal rendering; secret guard | none | development-time checks, manual commands, text | - | not modelled |

How they interact. The scheduler calls an executor per job
(`EvidenceQueueExecutor`), which calls the Evidence Worker, which calls the
in-process worker, which opens a data root and executes the analysis there;
`scan analyze` and `scan resume` open the same kind of data root from processes
of their own. Source reads inside a job go through the request pool. The
operations database is separate: it is filled once by `save_document` with the
outcome of a competition's pipeline and later changed by `mark-submitted` and
`append_event` only.

What makes each component correct:

* Scheduler: limits hold for the workers that really run; a worker starts only
  after its dependencies completed; no job is lost or run twice; failures stay
  in their problem; retries are bounded; urgent work is not overtaken; the call
  returns.
* Request pool: a capability's limit holds; identical reads share one call; an
  old failure is not replayed to a caller that tries again; nothing leaks.
* Analysis runs: what is shown was computed from the checkpointed replay, is
  exported consistently, and does not change; a status is backed by rows;
  retries make progress.
* Source access: what is cached is immutable and backed by a file, its row and
  an attempt; the policy is obeyed; every attempt is logged; retries are bounded.
* Stage checkpoints: revisions are numbered in order, resuming never goes back,
  a stored stage is not run again.
* Pipeline: a ready answer is the one an independent replay found, from
  complete, confirmed evidence of an approved plan; conflicts are not outvoted.
* Analyzers: a result is complete exactly when nothing is missing and nothing
  contradicts, a contradiction is never reported as a gap; what is reported is
  in authentic answers and adds up; the order of a capture only breaks ties.
* Submission: at most one submission per problem, never changed, with all
  tables in agreement, whatever operators do at the same time.

## 2. Modules

### `Scheduler` - one call of `BoundedJobScheduler.execute`

The scheduler coroutine is cut at the iterations of its inner loops: `Execute`
(validation, deduplication and initial results), `StartRound`
(`_resolve_blocked_dependencies` and `_ready_jobs`), `Dispatch`/`Skip` per
ready job, `Await`/`Drain`, `Resume`, `Collect` per finished worker, `EndRound`,
`Return`. Workers (`WorkerFinish`) end only in phase `"waiting"`: the one `await`
of the loop. The pass of `_resolve_blocked_dependencies` runs over a Python set
and reads results it has just written; the model lets it settle any set of jobs
that some order of that pass can settle. The depth-first cycle search is
modelled by what it decides (`Acyclic`). Job ids are numbers so that `<` is the
order of ids; job ids that occur twice are rejected by the code before anything
else and are not representable. Left out: `dispatch_order`, the observed maxima
and timestamps, which are reported and read by nothing; a second call while one
runs, which is refused without touching state.

### `RequestPool` - `InFlightRequestPool`

One action per stretch of code without an `await`: `Execute` joins or creates a
task, `AcquireSlot`/`WakeWaiter`/`EndOperation` are `_run_source` around the
semaphore, `Forget` is `_forget`, `Answer`/`Cancel` are the two ways a caller
leaves `await asyncio.shield(task)`. asyncio itself is external: it is a fair
counting semaphore, and done callbacks are run in the order they were added, so
the task that runs `_forget` is started before the callers that wait are
resumed (`MayResume`). A caller that arrives between the end of a task and its
`_forget` does get the ended task; the model contains this, and
`FreshAfterWait` is stated for callers that waited.

### `AnalysisRun` - one data root

Each `with self._connection` block of `SQLiteStorage` is one atomic step and a
process may stop between any two: registration of the request, checkpoint of
the replay, result rows with the final status, JSON export, Markdown export,
`finish_run`. `Analyze`, `Resume` and `StartWorker` begin the three ways a run
is executed; `user` fixes whether a data root belongs to command-line processes
or to the threads of one worker, which serialise on a lock. A result is
identified by the replay it came from and the `resumed` flag, because analyzers
are functions of those. Result, evidence and source ids are fixed per analysis
type in the analyzers and primary keys of the database, so `rows` is indexed by
type. A package analysis that has a checkpoint but no path to the replay's
sibling files ends as `Unavailable`.

### `Submission` and `SubmissionLog` - recording what was submitted

`load_document` reads table after table without a transaction:
`ReadManifest`, `ReadProblems`, `ReadCandidates`, `ReadSubmissions`,
`ReadEvents`. `Record` is `SubmissionRecorder.record` on that (perhaps torn)
document, `Apply`/`Reject` the one transaction of `apply_submission`: three
conditional updates, two inserts, and the comparison of the reloaded document
with the prepared one. The comparison is between ordered lists; `SortsLast`
says when the new rows are last in theirs, with `tie` for rows of the same time,
whose hashed ids may sort either way. `SubmissionLog` is the promise: per problem at
most one record that is never changed. Documents are saved before anything is
submitted (`Bundles`).

### `SourceAccess` - reading from external sources

A call of `CachedSourceExecutor.execute` by a coroutine or process on a data
root: `Execute` reads the cache and applies the policy (a hit is served before
the policy's rule status is looked at, as in the code), `Call` is one iteration
of `_execute_source` with the adapter's classification of the answer (`KindOf`),
`SkipSource` the source without an adapter that the loop passes over, `GiveUp` the
end without a source. `WriteArtifact`, `RecordArtifact`,
`ReadOffsets`, `SaveAttempts`/`AttemptConflict`, `PutCache`/`CacheConflict` are
the committed steps that follow, and `Crash` may fall between any two. Attempt
numbers are read outside the transaction that inserts them (`ReadOffsets`). The
delay before a retry is part of waiting for the next answer; its length and
jitter are left out, as are expiring entries, which the executor never writes.

### `CheckpointRunner` - stages that are run once

`RunOnce` looks for a checkpoint of the stage and returns it, or starts the
operation; `Complete` and `Raise` end the awaited operation; `ReadRevision` reads
the next revision outside the transaction, and `Insert` or `Conflict` is the insert
under the UNIQUE constraint. `Abandon` is a kill or a cancellation. `given` remembers
the highest revision a call has returned, and `floor` what it was when a call
began, for `NeverOlder`. Names differ from `SourceAccess` so that `MCStorage` can
extend both. The two services of the file share no table; `MCStorage`
runs either on one database.

### `PipelineGates` - one problem from plan to submission-ready answer

The services are functions of records; nothing in the repository but the tests
composes them, so the one who keeps the records is an external operator who
moves statuses only as `_TRANSITIONS` allows. `PlannerExecute` is
`PlannerService.execute` (a blocked command returns no plan and is no step; a plan
of a gated mode is the operator's, `GatePlan`), `StartEvidence`/`FinishEvidence` the two sides of
the `await` in `EvidenceWorkerService.execute`, `BuildCandidate`, `Promote` the
builder and the gate, `StartVerification`, `Replay`, `ReplayFails`,
`FinishVerification` the verifier with one step per awaited replay. The plan may
be superseded, jobs cancelled and the candidate reworked or rejected between
those. A verification keeps the candidate it was started with. The verifier's
adapter is `InProcessEvidenceWorker` with the problem's id as workspace, so an
analysis (or another of its type, whose ids are the same) is fresh only once
(`Fresh`). A refused command changes nothing. Left out: records of other
problems and competitions, which every gate refuses; requests that are
restricted or online, which fail like a job whose plan is not approved
(`AnalysisRun` has restricted requests); the wording of events and errors.

### The analyzers - 13 functions of a request and a replay

An analyzer keeps no state: it is an operator from a request and a replay (and,
for packages, the files around it) to a result
`[status, results, evidence, sources, errors, raws, value]`. `value` holds the
facts the properties look at.

* `ResultContract` is what `validate_analysis_result` accepts and what the
  builders share: `FirstRefusal` takes the first of a sequence of checks in code
  order, `Failed` and `Checked` build the result, and `CheckedOrRaised` is a
  result whose validation error nobody catches (`"raised"`).
* `Dex`, `Auth`, `Freeze`: one transaction, or a few, with logs, calls and state
  snapshots; decoding errors, mismatches and gaps are kept apart as in
  `_decode_replay` and `_mismatches`. `Freeze` confirms the transitions it can
  and is partial otherwise.
* `EvmCore` (`object_summary`, `historical_balance`, `first_token_transfer`,
  `native_inflow`) and `EvmSpecial` (`nft_activity`, `proxy_history`): windows,
  receipts and positions on the chain; `InChainOrder` is the sort that makes the
  capture order irrelevant to what comes first.
* `FlowPath`: edges from transactions and internal calls, `Walk` with its four
  budgets, `TraceRemerge`, `AggregateOrigins`. `Routes` and `WithinBudget` are
  the reference: all simple paths of the graph.
* `IntelContext`: each query is its bindings in order and a result. A common
  funder never reads complete.
* `BitcoinUtxo`: projections of the node's and of two REST answers to what the
  replay says, for the transaction and each hop, then facts and heuristics. The
  node's answer has no spent value, so a hop beyond the first, whose value is not
  among the outputs of the root transaction, is refused although the replay
  contract allows longer paths. The node tells values in BTC, which are cut off to
  satoshis one by one (`Satoshis`); a value that is no number raises
  `decimal.InvalidOperation`, which no handler catches, and is outside the model.
* `ReplayPackage`: pins, artifacts, and the order of exceptions: `a && b` is
  "`a`, and if it raised nothing, `b`". `"incomplete"` is the analyzer's own
  exception and gives a partial result, `"invalid"` every other one. `CexCluster`,
  `BridgeTransfer`, `MixerFlow`, `DefiLending` and `CaseReconciliation` build on
  it. A partial result is returned before the inputs of the request are
  compared, and a gap met before a contradiction gives partial.

Data are abstract: addresses and hashes are names, words are small numbers with
`UINT256_MAX` as the bound of a raw value, a file is read, missing or altered. A
replay that its pydantic model refuses is one that fails `Parse*`.

`Analyzers` composes them, as `CliRuntime.execute_analysis` does: `input` is what
one analysis is called with, and the action of its kind computes `result`. It
extends all thirteen modules, so definitions that several of them have carry the
analyzer's name (`AuthBindingError`, `CexRequired`). Its constant `Inputs` is any
family of inputs whose replays have the shape the pydantic models give them
(`Formed`, `InputsAssumption`): lists are lists, an optional field is absent or one
value, an observation names artifacts of known capabilities, its index is a
position, amounts are natural numbers (`Worth`) and the budgets of a traversal are
positive (`FlowFormed`). What a `model_validator` refuses is
not assumed; it is part of the analyzers (`Parse*`). `MCAnalyzers` gives `Inputs` its
value: `MCFaults`, `MCReplayInputs`, `MCContextInputs` and
`MCPackageInputs` enumerate the inputs: an intact replay of each kind and what is
left of it after one or two named faults, or, where amounts and graphs matter,
all small replays. The other `MC*` modules give the constants their values.

## 3. Runs

| Run | Instance | What it shows |
|---|---|---|
| `scheduler` | 17 batches of four jobs on three problems: independent, diamond, chain, duplicates, a key shared across problems, cycle, unknown dependency, paused and cancelled jobs; limits 2 problems, 3 jobs, 2 per problem, 1 planner, 1 verifier | all safety properties, `PriorityRespected`, `Termination` |
| `request_pool` | two callers, two keys, a capability with one slot, three tasks | `OneSourceCall`, `FreshAfterWait`, `CallsSettle` |
| `analysis_run` | two processes; two runs of one type, a package run, a restricted run; a good, an unbound and a broken replay; one fault | `ExportsAgree`, `ResultProvenance`, `StatusBacked`, `ShownResultIsStable` |
| `retry` | two processes, two runs, two faults, with fairness | `RetrySavesRows` |
| `submission` | two operators, a problem with two candidates and one with one, two clock readings, two responses, one event of another component, three documents | `TablesAgree`, `DatabaseLoads`, `ToldIsStored`, `ImplementsLog` |
| `storage` | source reads: two callers, two calls; a historical and a latest request; two JSON-RPC sources and a REST source; seven policies; timeout, 4xx and answer; two bodies; two attempts per source. Stages: three workers, two stages, two states, four calls | `CacheBacked`, `CacheIsImmutable`, `PolicyObeyed`, `AttemptLog`, `RetryDiscipline`; `RevisionsInOrder`, `NeverOlder`, `StageNotRepeated` |
| `pipeline_gates` | a plan with two evidence jobs, six AI modes, a candidate, two verifications (symmetric), two values | `ReadyIsVerified`, `ConflictIsFinal`, `OnlyAllowedPlansRun`, `TerminalStays` |
| `analyzers` | the 13 analyzers on some 59,000 inputs: every replay kind intact, with one fault and with every pair of faults; transfer graphs of four nodes and up to three transfers; `UINT256_MAX` 7 | `PathDecided`, `FaultsShow`, `ReportIsWitnessed`, `AmountsAddUp`, `AnswersAgree`, `AuthorityIsBacked`, `OrderOnlyBreaksTies` |
| `resume_recovers`, `every_attempt_recorded`, `ready_is_savable`, `edge_counted_once` | the smallest instances that show it | statements of the documents the code does not keep (section 5) |

What the properties of `analyzers` say. `FaultsShow`: the result is the best
possible exactly when there is no fault; gaps alone give a partial result;
contradictions alone never do. `PathDecided`: a route is a sequence of transfers from
the seed to the terminal that leaves each node by its only edge and visits none
twice; the result is complete exactly when a route is within the budgets and the
replay is complete, and is that route; it is `budget_traversal` exactly when there is
a route and none is within them; no partial path exceeds them. `ReportIsWitnessed`: every
reported fact of a package is in answers whose files have the pinned digests, from
two endpoints where two are asked for; the `*Witnessed` operators say it for an input
and its result, without the analyzers' own operators. A transfer into a hot wallet is
compared with the wallet that was asked for only if the request names one, and a
mixer reports the deposit and the withdrawals, not the events it passed over.
`AmountsAddUp` (one `*AddsUp` operator per analyzer) and `AnswersAgree` recompute
sums, fees, positions and first occurrences from the replay without the
analyzers' operators; the output of a remerge is compared only where no branch was
paid twice (the other case is `EdgeCountedOnce`). Of a Bitcoin transaction the node's answer has neither the
values of the inputs nor the fee, so those are compared in the other answers only; a
hop of the path is compared with the answers about that hop. The first transfer is
the first of the token's `Transfer` events that pay. `AuthorityIsBacked`: allowance and blacklist states at the
requested blocks form the chain a confirmation claims; a state counts only if its
snapshot is of the requested block. `OrderOnlyBreaksTies` compares
with the analysis of the same replay captured in the opposite order. The order does
decide ties, and the property says which: of two codes of one account and block, two
states of one token, two slots of one role and two bridge pins of one provider the
last counts, so each question keeps only its last answer before the capture is
turned round; sanctions actions of one date are listed in the order of the capture,
so the timelines are compared as dates and as sets; two logs that claim one place,
which no chain has, are left out. The inputs hold each of these ties, and the
property fails when any one of the exceptions is dropped. A case
reconciliation and a common funder query never read complete, so of those the
property says only that much.

Why the bounds are enough to be interesting. Four jobs are the smallest number
with a diamond and with more ready jobs than slots; every limit is reached by
some batch, and the retry counters reach `max_attempts` 2. One slot and two keys
make calls queue; three tasks let a caller repeat a key after a shared call, and
since the task numbers run out the pool may come to rest (no deadlock check
there). Two processes and one fault are enough for every pair of transactions of
two commands to interleave and for each gap between two transactions to be cut;
`MaxFaults` is the only counter bound. Two operators and two candidates of one
problem are the smallest race for a problem; two times make the clock go back.
Two calls of two callers are the smallest concurrent miss; the calls are counted
(`MaxCalls`), so `SourceAccess` comes to rest and is not checked for deadlock.
Four calls of three workers let every worker store a checkpoint of one stage and
one of them come back.
The first of the two evidence jobs is always complete; the second may also be
partial, unconfirmed or failed, and every choice of runs and results is tried.
`PipelineGates` comes to rest when its candidate and verifications are used up.
Analyzers decide by the first fault they meet, so two faults are what it takes
for one to mask another; four nodes and three transfers have a cycle, a fork, a
remerge and a path that exceeds each budget by one. An analysis is one step, so
`MCAnalyzers` comes to rest after it.

Fairness. The scheduler coroutine and the callbacks of the pool are run by the
event loop whenever they can run (weak fairness), and executors and source
operations end: HTTP calls carry a timeout and replays are finite files. In
`AnalysisRun`, commands that were started run on, and `FairSpec` says that a run
with a checkpoint and no result is tried again and again (strong fairness of
`Retry`): that is what an operator who resumes, or a scheduler that retries
does; without it nothing obliges anyone to resume a run. Callers are not obliged
to call, cancel or crash. `SourceAccess` and `CheckpointRunner` are checked for
safety only.

## 4. Proofs

`SchedulerProofs` proves for every finite set of jobs, every batch and every
positive limits (`LimitsArePositive`, `JobsAreNumbers`, `ProblemsFinite`,
`BatchesAreBatches`) that `WithinLimits`, `DependenciesFirst`, `NoJobLost`,
`FailureIsolation`, `DuplicatesShareOneRun`, `RetryBudget`, `WorkConserving` and
`PriorityRespected` hold. `IndInv` is the induction hypothesis:

* `CountersExact`: the three counters equal the cardinalities of the task sets.
  `WithinLimits` speaks of the tasks, the code of the counters; each implies the
  other's preservation only with this link.
* `Shape`: which local sets are empty in which phase, that everything pending or
  running is canonical, and that the batch was valid if the loop was entered.
* `Caused`: a job that waits for a dependency has a dependency that is settled
  and not complete. With the acyclic graph this gives `FailureIsolation`: take
  the jobs of a problem that did not complete; a minimal one would have a cause
  of its own.
* `PassedOver`: a ready job that was passed over in this round has no capacity
  until the round ends; from it `WorkConserving` and `PriorityRespected`. The
  lemma `CapacityShrinks` says that a dispatch never makes room.
* `AttemptLeft` is proved on top of it for `RetryBudget`.

`SubmissionProofs` proves for any operators, problems, candidates, responses and
times (`SubmissionAssumption`) that `TypeOK`, `TablesAgree`, `DatabaseLoads` and
`ToldIsStored` hold and that `Submission` implements `SubmissionLog`. `IndInv`
adds `RowsAreSubmitted`: rows of a submission belong to records whose status is
`submitted`. That is why the precondition inside the transaction (status
`submission_ready`) excludes a second submission although every load may be
torn: the proof uses nothing of what the process read earlier. For the
refinement, `Apply` maps to `SubmissionLog!Record` and every other step leaves
the log unchanged (`SameLog`).

`PipelineGatesProofs` proves for any plans, modes, evidence jobs, candidates,
verifications and values (`GatesAssumption`: outcomes and modes are of their
type, `None` is none of the records) that `ReadyIsVerified`, `ConflictIsFinal`,
`TerminalStays`, `OnlyAllowedPlansRun` and `TypeOK` hold. `IndInv` consists of

* `JobsFollowPlan`: jobs of a plan that was never approved do not exist yet, so
  an approval cannot set a collected job back;
* `CandidateBacked`, `VerificationBacked`: candidates and verifications refer to
  collected evidence, and a verification to the results of its candidate, which
  no rework changes;
* `VerdictBacked`: a pass replayed every result and found the collected value;
  with the gate's own comparison of answer and evidence this gives
  `ReadyIsVerified` although the answer may change while it is verified;
* `ReplayedOnce`: what verifications replayed is in the problem's workspace and
  pairwise disjoint, which is why a pass and a conflict about the same evidence
  exclude each other;
* `PlansAllowed`, proved on top of it, for `OnlyAllowedPlansRun`.

`JobStep`, `CandidateStep` and `VerificationStep` say once what a change of one
kind of record preserves; each action is then an instance of one of them.

`RequestPoolProofs` proves `OneSourceCall` and `FreshAfterWait` for any callers,
keys, capabilities and slots (`PoolAssumption`). `IndInv` relates the map to the
tasks: an unfinished task is the entry of its key (`Tracked`), an entry is a task of
its key that has not ended or is still to be forgotten (`EntriesLive`,
`ForgottenEnded`), and a caller that waited is resumed only after its task was
forgotten (`CallersTracked`), which is what a repeated call rests on.

`AnalysisRunProofs` proves `ExportsAgree`, `ResultProvenance`, `StatusBacked` and
`ShownResultIsStable` for any processes, runs, types and replays
(`RootAssumption`). `IndInv` adds, per process, what its local copies may be at each
point (`LocalsOK`), that a run without a row has nothing (`AbsentUntouched`), that
only the first offer of evidence creates a checkpoint (`FirstOffer`), and that the
threads of a worker do not overlap (`WorkerAlone`). The last two are why a
checkpoint, once a process has loaded it or exported from it, is never a different
one.

`SourceAccessProofs` proves `CacheBacked`, `PolicyObeyed` and `CacheIsImmutable` for
any callers, requests, sources, policies, bodies and limits (`AccessAssumption`: the
order of a policy is a non-empty list of allowed sources). Tables only grow; `IndInv`
says of every call that its sources and attempts obey its policy and that what it
has written so far is stored, step by step, before the cache entry is.

`RetryDiscipline` needs more about the loop of one call (`RetryInv`): the attempts at
each source are numbered from 1, each number once (`Numbered`); every attempt but the
last failed, and the next one is at the same source exactly when that one is tried
again (`InTurn`); the sources still to try are new, but for the first one when it is
the source to try again (`Ahead`). The last part is why an attempt at the head of the
list continues the numbering of its source, or begins it with 1.

`AttemptLog` rests on `LogInv`: rows differ in their key (`KeysDiffer`), the numbers of a
run at a provider are 1 to some m (`NoGaps`), and the offset a call has read outside
the transaction is not above what is stored now (`Relies`). If the insert of a call is
accepted, no row of it exists: the offset it read is then still m, and two sources of
its attempts cannot have the same provider, since both would bring the number
m + 1. So what is inserted continues the numbers without a gap, whatever was stored
in between. (That two such sources are refused is the finding
`EveryAttemptRecorded`.)

`CheckpointRunnerProofs` proves `RevisionsInOrder`, `NeverOlder` and
`StageNotRepeated` for any finite set of workers and any stages. A revision about to
be inserted was the next one when it was read, so it is at most the next one now
(`CallsOK`), and if it is free it is exactly the next. Nobody was given a revision
that is not stored (`GivenIsStored`). Those who run a stage and those who stored it
are together no more than the workers (`RoomForRunning`), because whoever starts it
found no row.

`AnalyzerProofs` proves `AuthorityIsBacked`, `ReportIsWitnessed`, `AnswersAgree`,
`PathDecided` and `AmountsAddUp` for every family of inputs that satisfies `InputsAssumption` and every bound of a raw
value: for any number of providers, pins, observations, logs and snapshots, in any
order, with any files missing or altered. An analysis is one step, so the induction
is short (`Called`: a result is the analyzer's result for the input), and the work is
in the analyzers:

* Refusals. A binding check is a list of conditions, each with its error; a result
  that is not refused satisfies the negation of each (`NoneHoldsParts`,
  `NotRefused`). Checks made for every snapshot or log are flattened lists:
  `FlattenHolds` says that such a list refuses nothing only if no element does.
  `FlattenSeq` is recursive, and its property is proved by taking the least length
  that contradicts it (`Smallest`); `LargestExists`, the largest outflow of a
  finite set, is proved in the same way.
* `AuthBacked`: if decoding, `Mismatches` and the bindings raised nothing, the four
  snapshots are unique by label and of the requested blocks, and their values, the
  approval, the trace and the transfer form the chain `AllowanceConsumed` states.
  `FreezeBacked`: the same for either transition, also of a partial result, which
  confirms one and lacks the other.
* Packages. `PackageCompleted`: a complete result raised nothing and bound its inputs; `LoadedIsMade`: an observation
  whose artifacts loaded was made by a pinned provider and its files have the
  pinned digests.
* For each package `*Decoded` (what one observation shows), `*Reconstructed` (what
  holds if nothing was raised: each observation decodes, roles cover every item,
  primary and verifying facts agree), `*Backed` and `*Holds` (the report is
  witnessed). Facts are taken from the primary provider; they stand in the other
  answer because the decoded facts are equal. Endpoints differ because there are
  as many as pins (`EndpointsTold`), or because roles and endpoints are fixed by
  name (`FixedEndpoints`, `ExpectedEndpoints`). A bridge transfer has one provider
  for each chain, and its destination log repeats the depositor and amounts of the
  source log (`CommonParameters`).
* `CaseBacked`: every fixture the request names has a pin, the pin's digests are the
  approved ones, and a pin that loads found both documents with that digest, about
  that fixture and confirmed.

* Answers. `RoleAnswers`: the replay contract admits at most one provider of each
  role, so the answer that is read for a role is that provider's. `RootShown` and
  `HopShown`: the projections of the answers are equal only if the answers themselves
  have the transaction, the block, the spent outpoint and outputs of the same values,
  and outputs of the same values have the same sum (`SameTotal`, without opening the
  fold). `ProxyHolds`: a result is complete only if both slots were captured and each
  check between them held. `FirstMatched`: among the logs that pay one has no earlier
  one (`FirstPlaced`, the least position in the order of block, transaction and log),
  so the choice the sort makes exists and is such a log. `IntelBacked`: each query's
  bindings tie the subjects of the value to those of the request; a common funder
  is never complete.
* Loops and folds. An induction hypothesis is a set here, not an operator: `UpTo` (to a
  bound) and `SubsetInduction` (subsets of a finite set) are proved from a least
  counterexample. With them `LoopExists` and `FoldExists` give every loop its history,
  the function of its intermediate values, and the library's folds are opened to their
  history (`FoldByPosition`, `SumUnfolds`).
* Selections. `KeptEach`: `Kept(s, I)` lists the entries of `s` at the positions `I`,
  each once and in order. The analyzers select with `Kept`, since the prover cannot open
  `SelectSeq`.
* Paths. `WalkIsChain`: what the walk has taken is a chain of edges from the seed, each
  the only one of its node, through distinct nodes (`NodesDistinct`). `RouteIsWalked`: a
  route is forced at every node, so the walk follows it to its end, by induction over its
  length; hence there is at most one route, and the walk finds it or stops at the budget
  (`WalkDecides`). `ConfirmedWithin` and `TraceDecides` carry this through the stages of
  the result to `PathHeld`.
* Sums. `SumIs`: the sum over a finite set does not depend on the order in which elements
  are taken; `SumRenamed`: renaming elements keeps it, if what is left out is zero;
  `SumGrows`: no smaller summands, no smaller sum. `KeptPaid` turns the sum over selected
  positions into the sum over transactions, which differ in their hash
  (`TransactionsDiffer`).
* Amounts. `RemergeHeld`: the history of the loop over the split transactions
  (`BranchesBuilt`) has every branch with the returns from it, and each return belongs to
  one branch when no branch was paid twice (`SplitReturned`, `ReturnsPaid`); the
  hypothesis is needed, see `EdgeCountedOnce`. `OriginsHeld` and `InflowHeld` are sums
  over one selection. `ClusterHeld`: each role has exactly one observation of each item
  (`RoleSum`), so either role's answers add up to the total. `BridgeHeld`: the two logs
  name the same amounts, and the fee is their difference. `SwapHeld`: the receipt has one
  swap log (`OneSwap`), and the amounts reported are those of it (`SwapFound`).

Only model-checked: liveness (`Termination`, `CallsSettle`, `RetrySavesRows`), since
the prover has no fairness; `OrderOnlyBreaksTies`, which compares the analyses of a replay
and of its reversal, so that a proof needs each of the thirteen analyzers opened twice
and, for those that report lists, that `SortSeq` gives both the same list; and
`FaultsShow`, which speaks of the enumerated faults of `MCFaults` and so of the instance
itself.

## 5. Findings

* `ResumeRecovers`: rows and exports of a result are separate transactions. A
  process that stops between them leaves a run that no resume can finish,
  against REQ-P0-CACHE-006.
* `EveryAttemptRecorded`: attempts are counted per source and stored per
  provider. When the fallback source has the provider of the first, the rows
  collide and no attempt of the call is stored, against REQ-P0-CACHE-005.
* `ReadyIsSavable`: the promotion gate keeps references to verifications that
  did not pass, and a document with a ready candidate that has one is invalid.
  Verifying a candidate twice is enough, since a repeated replay is a reused one
  and counts as incomplete.
* `EdgeCountedOnce`: when the seed paid one branch twice, `trace_remerge` counts
  the one return of the branch for both payments, against
  `docs/03_Technical_Specs/15_TASK_014_PATH_CONTRACT_PROPOSAL.md`, which says
  that an original edge is aggregated once.

Behaviour the models contain and no run is about: `scan resume` of a complete run
fails on the rows it stored before and overwrites `complete` with `failed`; result
ids are fixed per analysis type and primary keys of the database, so a second run
of a type in one data root cannot store its result.

## 6. Not modelled, and what is left

Not modelled: cancellation of the coroutine that awaits the scheduler;
input wiring, one process that validates a bundle of files in
sequence; the operations snapshot, a projection to text; rendering of Markdown,
terminal and JSON; field formats of requests, replays and results; the scripts
and the fixture replays and verifiers under `application/task_*.py`, which
recompute one recorded fixture each and keep no state; the provider smoke test and
benchmark.

Left, in order: `SourceAccess` composed with `RequestPool`; an abstract
specification of the pipeline that `PipelineGates` implements; a proof of
`OrderOnlyBreaksTies`, one analyzer at a time.
