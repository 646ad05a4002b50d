---------------------------- MODULE AnalysisRun ----------------------------
(***************************************************************************)
(* One data root: the SQLite database and artifacts that CliRuntime opens  *)
(* (application/cli_runtime.py, adapters/sqlite_storage.py), and the       *)
(* processes that work on it.                                              *)
(*                                                                         *)
(* A data root is used either by `scan analyze` and `scan resume` processes*)
(* (cli.py), any number at once, or by the threads of one                  *)
(* InProcessEvidenceWorker (adapters/evidence.py), which hold a lock per   *)
(* workspace.  Every `with self._connection` block is one step: SQLite     *)
(* commits it or nothing.  Between two of them a process may be killed.    *)
(*                                                                         *)
(* A result is known by the replay it was computed from and by its         *)
(* `resumed` flag: analyzers are functions of request, replay and flag.    *)
(* Source, result and evidence ids are fixed strings of the analysis type, *)
(* and are primary keys of the whole database.                             *)
(***************************************************************************)
EXTENDS Naturals, FiniteSets

CONSTANTS
    Procs,          \* processes or worker threads
    Runs,           \* analysis ids
    Types,          \* analysis types
    TypeOf,         \* the analysis type of a request
    PackageTypes,   \* types whose replay needs its sibling files on every call
    Restricted,     \* requests whose source policy is restricted
    Replays,        \* raw replay bodies
    Outcome,        \* what an analyzer makes of a replay
    MaxFaults,      \* bound on interrupts, errors and crashes in a behaviour
    None

ASSUME RootAssumption ==
    /\ TypeOf \in [Runs -> Types]
    /\ PackageTypes \subseteq Types
    /\ Restricted \subseteq Runs
    /\ Outcome \in [Replays -> [valid: BOOLEAN, rows: BOOLEAN,
                                status: {"complete", "partial", "failed"}]]
    /\ \A r \in Replays : Outcome[r].status # "failed" => Outcome[r].valid /\ Outcome[r].rows
    /\ \A r \in Replays : ~Outcome[r].valid => ~Outcome[r].rows
    /\ None \notin Replays \cup Runs \cup [replay: Replays, resumed: BOOLEAN]
    /\ MaxFaults \in Nat

VARIABLES
    user,       \* who uses this data root: "cli" or "worker"
    status,     \* analysis_runs.status, "absent" without a row
    checkpoint, \* the replay of the latest checkpoint of a run
    rows,       \* for each type, the run that owns the rows with its ids
    exports,    \* the exports of a run: the result each was made from
    proc,       \* local state of each process
    faults      \* faults so far, for the bound

database == <<status, checkpoint, rows, exports>>
vars == <<user, status, checkpoint, rows, exports, proc, faults>>

ExportTypes == {"result_json", "evidence_markdown"}

Idle == [pc |-> "idle", cmd |-> "none", run |-> None, evidence |-> None,
         result |-> None, final |-> None]

Goto(p, pc) == proc' = [proc EXCEPT ![p].pc = pc]
Exit(p) == proc' = [proc EXCEPT ![p] = Idle]

Init ==
    /\ user \in {"cli", "worker"}
    /\ status = [a \in Runs |-> "absent"]
    /\ checkpoint = [a \in Runs |-> None]
    /\ rows = [t \in Types |-> None]
    /\ exports = [a \in Runs |-> [e \in ExportTypes |-> None]]
    /\ proc = [p \in Procs |-> Idle]
    /\ faults = 0

\* The result of a run can be loaded: both exports are there (load_result).
HasResult(a) == \A e \in ExportTypes : exports[a][e] # None

\* The command ends with an error that `analyze` and `resume` record with
\* finish_run, while a worker only raises.
Fail(p) ==
    IF proc[p].cmd = "worker" THEN Exit(p)
    ELSE proc' = [proc EXCEPT ![p].pc = "finishing", ![p].final = "failed"]

-----------------------------------------------------------------------------
(* Starting a command. *)

\* scan analyze: register_request; an analysis_id that exists is refused.
Analyze(p, a, ev) ==
    /\ user = "cli" /\ proc[p].pc = "idle"
    /\ status[a] = "absent"
    /\ status' = [status EXCEPT ![a] = "queued"]
    /\ proc' = [proc EXCEPT ![p] =
            [Idle EXCEPT !.cmd = "analyze", !.run = a, !.evidence = ev,
                         !.pc = IF a \in Restricted THEN "finishing" ELSE "created",
                         !.final = IF a \in Restricted THEN "restricted" ELSE None]]
    /\ UNCHANGED <<user, checkpoint, rows, exports>>

\* scan resume: the saved request of any known run is executed again.
Resume(p, a) ==
    /\ user = "cli" /\ proc[p].pc = "idle"
    /\ status[a] # "absent"
    /\ proc' = [proc EXCEPT ![p] = [Idle EXCEPT !.cmd = "resume", !.run = a, !.pc = "created"]]
    /\ UNCHANGED <<user, database>>

\* _analyze_locked up to execute_analysis: the workspace lock is taken, an
\* unknown request is registered, and a stored result is returned at once.
\* _policy_error of the Evidence Worker turns restricted requests away before.
StartWorker(p, a, ev) ==
    /\ user = "worker" /\ a \notin Restricted
    /\ \A q \in Procs : proc[q].pc = "idle"
    /\ ~HasResult(a)
    /\ status' = [status EXCEPT ![a] = IF @ = "absent" THEN "queued" ELSE @]
    /\ proc' = [proc EXCEPT ![p] =
            [Idle EXCEPT !.cmd = "worker", !.run = a, !.evidence = ev, !.pc = "created"]]
    /\ UNCHANGED <<user, checkpoint, rows, exports>>

\* _analyze_locked with a stored result: it is returned if its replay is the
\* approved one, and refused otherwise; nothing is written.
ReuseResult(p, a, ev) ==
    /\ user = "worker" /\ a \notin Restricted
    /\ \A q \in Procs : proc[q].pc = "idle"
    /\ HasResult(a)
    /\ UNCHANGED <<user, database, proc>>

-----------------------------------------------------------------------------
(* execute_analysis. *)

\* Mutant: a caller that approved no replay is asked for one.
MutCheckpointAccepted(p) ==
    checkpoint[proc[p].run] # None /\ checkpoint[proc[p].run] = proc[p].evidence

\* A saved checkpoint is used unless the caller approved another replay.
CheckpointAccepted(p) ==
    /\ checkpoint[proc[p].run] # None
    /\ proc[p].cmd = "worker" => checkpoint[proc[p].run] = proc[p].evidence

\* Package analyses need the replay's path; workers and resume have none.
PathMissing(p) == TypeOf[proc[p].run] \in PackageTypes /\ proc[p].cmd # "analyze"

\* _load_replay with a checkpoint: the saved replay is analyzed again.
LoadCheckpoint(p) ==
    /\ proc[p].pc = "created" /\ ~PathMissing(p)
    /\ CheckpointAccepted(p)
    /\ proc' = [proc EXCEPT ![p].pc = "analyzing",
            ![p].result = [replay |-> checkpoint[proc[p].run], resumed |-> TRUE]]
    /\ UNCHANGED <<user, database>>

\* Only a replay that matches its contract is checkpointed.
Checkpointed(r) == Outcome[r].valid

\* Mutant: an offered replay is analyzed although a checkpoint names another.
MutLoadOffered(p) ==
    LET a == proc[p].run
        ev == proc[p].evidence
    IN  /\ proc[p].pc = "created" /\ ~PathMissing(p) /\ ev # None
        /\ checkpoint' = [checkpoint EXCEPT
                ![a] = IF @ = None /\ Checkpointed(ev) THEN ev ELSE @]
        /\ proc' = [proc EXCEPT ![p].pc = "analyzing",
                ![p].result = [replay |-> ev, resumed |-> FALSE]]
        /\ UNCHANGED <<user, status, rows, exports>>

\* _load_replay without a checkpoint: the evidence is read, and recorded with
\* a checkpoint if it is valid.
LoadEvidence(p) ==
    LET a == proc[p].run
        ev == proc[p].evidence
    IN  /\ proc[p].pc = "created" /\ ~PathMissing(p)
        /\ checkpoint[a] = None /\ ev # None
        /\ checkpoint' = [checkpoint EXCEPT ![a] = IF Checkpointed(ev) THEN ev ELSE None]
        /\ proc' = [proc EXCEPT ![p].pc = "analyzing",
                ![p].result = [replay |-> ev, resumed |-> FALSE]]
        /\ UNCHANGED <<user, status, rows, exports>>

\* AnalysisUnavailable: no replay, no path, or another replay than approved.
\* Only `analyze` writes a status; `resume` and workers just end.
Unavailable(p) ==
    /\ proc[p].pc = "created"
    /\ \/ PathMissing(p)
       \/ checkpoint[proc[p].run] = None /\ proc[p].evidence = None
       \/ checkpoint[proc[p].run] # None /\ ~CheckpointAccepted(p)
    /\ IF proc[p].cmd = "analyze" THEN Fail(p) ELSE Exit(p)
    /\ UNCHANGED <<user, database>>

\* The analyzer returns its result.
Analyzed(p) ==
    /\ proc[p].pc = "analyzing"
    /\ Goto(p, "analyzed")
    /\ UNCHANGED <<user, database>>

\* Ctrl-C in execute_analysis; `resume` and workers write nothing.
Interrupt(p) ==
    /\ proc[p].pc \in {"created", "analyzing"} /\ proc[p].cmd = "analyze"
    /\ proc' = [proc EXCEPT ![p].pc = "finishing", ![p].final = "interrupted"]
    /\ UNCHANGED <<user, database>>

\* Any other exception in execute_analysis or in save_result: an unreadable
\* artifact, a result that breaks the contract, a full disk.
Error(p) ==
    /\ proc[p].pc \in {"created", "analyzing", "analyzed", "saved", "half"}
    /\ Fail(p)
    /\ UNCHANGED <<user, database>>

-----------------------------------------------------------------------------
(* CliRuntime.save_result. *)

\* Mutant: the rows are written without their primary keys.
MutRowsFree(p) == TRUE

\* The result's ids are not in the tables yet.
RowsFree(p) == Outcome[proc[p].result.replay].rows => rows[TypeOf[proc[p].run]] = None

\* SQLiteStorage.save_result: rows and status in one transaction.
SaveResult(p) ==
    LET a == proc[p].run
        o == Outcome[proc[p].result.replay]
    IN  /\ proc[p].pc = "analyzed" /\ RowsFree(p)
        /\ rows' = IF o.rows THEN [rows EXCEPT ![TypeOf[a]] = a] ELSE rows
        /\ status' = [status EXCEPT ![a] = o.status]
        /\ Goto(p, "saved")
        /\ UNCHANGED <<user, checkpoint, exports>>

\* The insert violates a primary key: the transaction is rolled back.
SaveConflict(p) ==
    /\ proc[p].pc = "analyzed" /\ ~RowsFree(p)
    /\ Fail(p)
    /\ UNCHANGED <<user, database>>

\* Mutant: an export is replaced, not verified.
MutExportFree(p, e) == TRUE

\* record_export inserts, or finds the same artifact.
ExportFree(p, e) == exports[proc[p].run][e] \in {None, proc[p].result}

RecordExport(p, e) ==
    exports' = [exports EXCEPT ![proc[p].run][e] = proc[p].result]

\* ResultExporter.export: the JSON export is recorded,
ExportJson(p) ==
    /\ proc[p].pc = "saved" /\ ExportFree(p, "result_json")
    /\ RecordExport(p, "result_json")
    /\ Goto(p, "half")
    /\ UNCHANGED <<user, status, checkpoint, rows>>

\* then the Markdown export, in a transaction of its own.
ExportMarkdown(p) ==
    /\ proc[p].pc = "half" /\ ExportFree(p, "evidence_markdown")
    /\ RecordExport(p, "evidence_markdown")
    /\ IF proc[p].cmd = "worker" THEN Goto(p, "exported") ELSE Exit(p)
    /\ UNCHANGED <<user, status, checkpoint, rows>>

\* The export id is taken by another artifact.
ExportConflict(p) ==
    /\ \/ proc[p].pc = "saved" /\ ~ExportFree(p, "result_json")
       \/ proc[p].pc = "half" /\ ~ExportFree(p, "evidence_markdown")
    /\ Fail(p)
    /\ UNCHANGED <<user, database>>

\* The worker answers, or fails in _replay_artifact_uri.
EndWorker(p) == proc[p].pc = "exported" /\ Exit(p) /\ UNCHANGED <<user, database>>

\* finish_run: the status is overwritten whatever it is.
FinishRun(p) ==
    /\ proc[p].pc = "finishing"
    /\ status' = [status EXCEPT ![proc[p].run] = proc[p].final]
    /\ Exit(p)
    /\ UNCHANGED <<user, checkpoint, rows, exports>>

\* The process is killed, or ends without writing.
Crash(p) == proc[p].pc # "idle" /\ Exit(p) /\ UNCHANGED <<user, database>>

Start(p) ==
    \E a \in Runs :
        \/ Resume(p, a)
        \/ \E ev \in Replays : Analyze(p, a, ev) \/ StartWorker(p, a, ev) \/ ReuseResult(p, a, ev)
        \/ Analyze(p, a, None)

Progress(p) ==
    \/ LoadCheckpoint(p) \/ LoadEvidence(p) \/ Unavailable(p) \/ Analyzed(p)
    \/ SaveResult(p) \/ SaveConflict(p)
    \/ ExportJson(p) \/ ExportMarkdown(p) \/ ExportConflict(p)
    \/ EndWorker(p) \/ FinishRun(p)

\* Steps that go wrong, at most MaxFaults of them in a behaviour.
Fault(p) ==
    /\ faults < MaxFaults
    /\ faults' = faults + 1
    /\ Interrupt(p) \/ Error(p) \/ Crash(p)

Next == \E p \in Procs : ((Start(p) \/ Progress(p)) /\ UNCHANGED faults) \/ Fault(p)

Spec == Init /\ [][Next]_vars

\* The run is tried again: by `scan resume`, or by a worker that is given the
\* replay of the checkpoint.
Retry(p, a) ==
    /\ ~HasResult(a) /\ checkpoint[a] # None
    /\ Resume(p, a) \/ StartWorker(p, a, checkpoint[a])

\* Commands that are started run on, and a run that has a checkpoint and no
\* result is tried again and again.
FairSpec ==
    /\ Spec
    /\ \A p \in Procs : WF_vars(Progress(p) /\ UNCHANGED faults)
    /\ \A a \in Runs : SF_vars(UNCHANGED faults /\ \E p \in Procs : Retry(p, a))
-----------------------------------------------------------------------------
(* Properties. *)

\* The JSON and the Markdown export of a run are made from one result
\* (DB schema, 5.10), although they are recorded in two transactions and
\* several processes may export the run.
ExportsAgree ==
    \A a \in Runs : exports[a]["evidence_markdown"] # None
        => exports[a]["evidence_markdown"] = exports[a]["result_json"]

\* What `scan show` prints and a worker reuses was computed from the replay
\* the run's checkpoint names, whatever other replays were offered to it.
ResultProvenance ==
    \A a \in Runs : HasResult(a) /\ checkpoint[a] # None
        => exports[a]["result_json"].replay = checkpoint[a]

\* A run that is reported complete or partial has its rows in the database,
\* and its status is the one its checkpointed replay leads to.
StatusBacked ==
    \A a \in Runs : status[a] \in {"complete", "partial"} =>
        /\ rows[TypeOf[a]] = a
        /\ checkpoint[a] # None /\ Outcome[checkpoint[a]].status = status[a]

\* Once a result can be shown it never changes: resuming a finished run does
\* not replace what was exported.
ShownResultIsStable == [][\A a \in Runs : HasResult(a) => exports'[a] = exports[a]]_vars
\* Whatever stops a run after its checkpoint and before its rows are saved,
\* trying it again from the checkpoint gets its type's rows into the database.
RetrySavesRows ==
    \A a \in Runs :
        (checkpoint[a] # None /\ Outcome[checkpoint[a]].rows /\ TypeOf[a] \notin PackageTypes)
            ~> rows[TypeOf[a]] # None
-----------------------------------------------------------------------------
(* What the documents promise and the code does not keep. *)

\* "An interrupted job can be resumed from its checkpoint"
\* (REQ-P0-CACHE-006): a run with a checkpoint gets a result in the end, if
\* the operator keeps resuming it and faults stop.
ResumeRecovers == \A a \in Runs : checkpoint[a] # None ~> HasResult(a)

=============================================================================
