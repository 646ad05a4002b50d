------------------------- MODULE AnalysisRunProofs -------------------------
(***************************************************************************)
(* Proofs about AnalysisRun, for any processes, runs, types and replays:   *)
(* what is stored for a run and what is exported agree with the replay the *)
(* run's checkpoint names, under any interleaving and any faults.          *)
(***************************************************************************)
EXTENDS AnalysisRun, TLAPS

Results == [replay : Replays, resumed : BOOLEAN]
Finals == {"failed", "restricted", "interrupted"}
Loaded == {"analyzing", "analyzed", "saved", "half"}
Statuses == {"absent", "queued", "complete", "partial"} \cup Finals
Locals == [pc : {"idle", "created", "exported", "finishing"} \cup Loaded,
           cmd : {"none", "analyze", "resume", "worker"},
           run : Runs \cup {None}, evidence : Replays \cup {None},
           result : Results \cup {None}, final : Finals \cup {None}]

RootTypes ==
    /\ user \in {"cli", "worker"}
    /\ status \in [Runs -> Statuses]
    /\ checkpoint \in [Runs -> Replays \cup {None}]
    /\ rows \in [Types -> Runs \cup {None}]
    /\ exports \in [Runs -> [ExportTypes -> Results \cup {None}]]
    /\ proc \in [Procs -> Locals]

\* What a process knows: a replay it has loaded is the one of the checkpoint
\* if it is valid, and no other is checkpointed.
LocalOK(s) ==
    /\ s.pc = "idle" => s.run = None
    /\ s.pc # "idle" => s.run \in Runs /\ (s.cmd = "worker" <=> user = "worker")
    /\ s.cmd = "resume" => s.evidence = None
    /\ s.pc = "finishing" => s.final \in Finals
    /\ s.pc \in Loaded =>
        /\ s.result \in Results
        /\ Outcome[s.result.replay].valid => checkpoint[s.run] = s.result.replay
        /\ checkpoint[s.run] # None => checkpoint[s.run] = s.result.replay
    /\ s.pc = "half" => exports[s.run]["result_json"] = s.result

LocalsOK == \A p \in Procs : LocalOK(proc[p])

Untouched(a) == checkpoint[a] = None /\ \A e \in ExportTypes : exports[a][e] = None

\* Nothing is stored for a run that is not registered, and nobody works on it.
AbsentUntouched ==
    \A a \in Runs : status[a] = "absent" =>
        Untouched(a) /\ \A p \in Procs : proc[p].run # a

\* A process of the CLI that still holds evidence is the first to offer any for
\* its run: nothing is stored yet, and the others on the run cannot go on.
FirstOffer ==
    \A p, q \in Procs :
        (user = "cli" /\ proc[p].pc = "created" /\ proc[p].evidence # None) =>
            /\ Untouched(proc[p].run)
            /\ (q # p /\ proc[q].run = proc[p].run) =>
                    proc[q].pc \in {"created", "finishing"} /\ proc[q].evidence = None

\* The lock of the workspace: one worker at a time, on a run without a result.
WorkerAlone ==
    user = "worker" =>
        /\ \A p, q \in Procs : proc[p].pc # "idle" /\ proc[q].pc # "idle" => p = q
        /\ \A p \in Procs : proc[p].pc \in {"created"} \cup Loaded => ~HasResult(proc[p].run)

IndInv ==
    /\ RootTypes /\ LocalsOK /\ AbsentUntouched /\ FirstOffer /\ WorkerAlone
    /\ ExportsAgree /\ ResultProvenance /\ StatusBacked
-----------------------------------------------------------------------------
\* Registering, loading and exporting have not begun.
LEMMA InitHolds == Init => IndInv
<1> SUFFICES ASSUME Init PROVE IndInv
    OBVIOUS
<1>1. RootTypes
    BY DEF Init, RootTypes, Statuses, Finals, Loaded, Locals, Idle, ExportTypes
<1>2. \A p \in Procs : proc[p].pc = "idle" /\ proc[p].run = None /\ proc[p].cmd = "none"
    BY DEF Init, Idle
<1>3. LocalsOK /\ FirstOffer /\ WorkerAlone
    BY <1>2 DEF LocalsOK, LocalOK, FirstOffer, WorkerAlone, Loaded
<1>4. AbsentUntouched
    BY <1>2, RootAssumption DEF Init, AbsentUntouched, Untouched
<1>5. ExportsAgree /\ ResultProvenance /\ StatusBacked
    BY DEF Init, ExportsAgree, ResultProvenance, StatusBacked, HasResult, ExportTypes
<1>6. QED
    BY <1>1, <1>3, <1>4, <1>5 DEF IndInv

-----------------------------------------------------------------------------
(* Steps that write neither a checkpoint nor an export. *)

\* How such a step changes its process: it ends, or it keeps its run and goes
\* on, and it goes on to a replay only from a replay or a checkpoint.
GoesOn(old, s) ==
    \/ s = Idle
    \/ /\ old.pc # "idle" /\ s.pc \notin {"idle", "created"}
       /\ s.run = old.run /\ s.evidence = old.evidence
       /\ s.pc = "exported" => old.pc = "half"
       /\ s.pc \in Loaded => \/ old.pc \in Loaded
                             \/ old.pc = "created" /\ checkpoint[old.run] # None

\* The induction step for all of them.
LEMMA QuietStep ==
    ASSUME IndInv, NEW p \in Procs, NEW s \in Locals, LocalOK(s), GoesOn(proc[p], s),
           proc' = [proc EXCEPT ![p] = s], UNCHANGED <<user, checkpoint, exports>>,
           status' \in [Runs -> Statuses], rows' \in [Types -> Runs \cup {None}],
           \A a \in Runs : status'[a] = "absent" => status[a] = "absent",
           StatusBacked'
    PROVE  IndInv'
<1>1. UNCHANGED <<user, checkpoint, exports>>
    OBVIOUS
<1>2. /\ proc'[p] = s
      /\ \A q \in Procs : q # p => proc'[q] = proc[q]
      /\ proc' \in [Procs -> Locals]
    BY DEF IndInv, RootTypes
<1>3. RootTypes'
    BY <1>1, <1>2 DEF IndInv, RootTypes
<1>4. LocalsOK'
  <2> SUFFICES ASSUME NEW q \in Procs PROVE LocalOK(proc[q])'
      BY DEF LocalsOK
  <2>1. CASE q = p
      BY <1>1, <1>2, <2>1 DEF LocalOK
  <2>2. CASE q # p
      BY <1>1, <1>2, <2>2 DEF LocalOK, IndInv, LocalsOK
  <2>3. QED
      BY <2>1, <2>2
<1>5. AbsentUntouched'
    BY <1>1, <1>2, RootAssumption DEF IndInv, AbsentUntouched, Untouched, GoesOn, Idle
<1>6. FirstOffer'
  <2> SUFFICES ASSUME NEW q \in Procs, NEW r \in Procs, user = "cli",
                      proc'[q].pc = "created", proc'[q].evidence # None
               PROVE  /\ Untouched(proc'[q].run)
                      /\ (r # q /\ proc'[r].run = proc'[q].run) =>
                            /\ proc'[r].pc \in {"created", "finishing"}
                            /\ proc'[r].evidence = None
      BY <1>1 DEF FirstOffer, Untouched
  <2>1. q # p /\ proc'[q] = proc[q] /\ proc[q].run \in Runs
      BY <1>2 DEF GoesOn, Idle, IndInv, LocalsOK, LocalOK
  <2>2. Untouched(proc'[q].run)
      BY <2>1 DEF IndInv, FirstOffer
  <2>3. ASSUME r # q, proc'[r].run = proc'[q].run
        PROVE  proc'[r].pc \in {"created", "finishing"} /\ proc'[r].evidence = None
    <3>1. CASE r # p
        BY <1>2, <2>1, <2>3, <3>1 DEF IndInv, FirstOffer
    <3>2. CASE r = p
      <4>1. s # Idle /\ s.run = proc[p].run /\ s.evidence = proc[p].evidence
          BY <1>2, <2>1, <2>3, <3>2, RootAssumption DEF GoesOn, Idle
      <4>2. /\ proc[p].pc \in {"created", "finishing"} /\ proc[p].evidence = None
            /\ checkpoint[proc[p].run] = None
          BY <1>2, <2>1, <2>3, <3>2, <4>1 DEF IndInv, FirstOffer, Untouched
      <4>3. s.pc \notin Loaded /\ s.pc # "idle"
          BY <4>1, <4>2 DEF GoesOn, Loaded
      <4>4. s.pc # "exported"
          BY <4>1, <4>2 DEF GoesOn
      <4>5. QED
          BY <1>2, <3>2, <4>1, <4>2, <4>3, <4>4 DEF Locals
    <3>3. QED
        BY <3>1, <3>2
  <2>4. QED
      BY <2>2, <2>3
<1>7. WorkerAlone'
  <2> SUFFICES ASSUME user = "worker" PROVE WorkerAlone'
      BY <1>1 DEF WorkerAlone
  <2>1. \A q \in Procs : proc'[q].pc # "idle" => proc[q].pc # "idle"
      BY <1>2 DEF GoesOn, Idle
  <2>2. \A q \in Procs : proc'[q].pc \in {"created"} \cup Loaded =>
            proc[q].pc \in {"created"} \cup Loaded /\ proc'[q].run = proc[q].run
      BY <1>2 DEF GoesOn, Idle, Loaded
  <2>3. QED
      BY <1>1, <2>1, <2>2 DEF IndInv, WorkerAlone, HasResult
<1>8. ExportsAgree' /\ ResultProvenance' /\ StatusBacked'
    BY <1>1 DEF IndInv, ExportsAgree, ResultProvenance, HasResult
<1>9. QED
    BY <1>3, <1>4, <1>5, <1>6, <1>7, <1>8 DEF IndInv

\* The steps among them that write nothing at all.
LEMMA LocalStep ==
    ASSUME IndInv, NEW p \in Procs, NEW s \in Locals, LocalOK(s), GoesOn(proc[p], s),
           proc' = [proc EXCEPT ![p] = s], UNCHANGED <<user, database>>
    PROVE  IndInv'
<1>1. UNCHANGED <<user, status, checkpoint, rows, exports>>
    BY DEF database
<1>2. StatusBacked' /\ status' \in [Runs -> Statuses] /\ rows' \in [Types -> Runs \cup {None}]
    BY <1>1 DEF IndInv, StatusBacked, RootTypes
<1>3. QED
    BY <1>1, <1>2, QuietStep

\* A process that does nothing knows nothing.
LEMMA IdleOK == Idle \in Locals /\ LocalOK(Idle)
BY DEF Idle, Locals, LocalOK, Loaded

\* Ending a command without a write, by itself or killed.
LEMMA ExitStep ==
    ASSUME IndInv, NEW p \in Procs, Exit(p), UNCHANGED <<user, database>>
    PROVE  IndInv'
BY LocalStep, IdleOK DEF Exit, GoesOn

\* Turning to finish_run after an error or an interrupt.
LEMMA FinishingStep ==
    ASSUME IndInv, NEW p \in Procs, NEW f \in Finals, proc[p].pc # "idle",
           proc' = [proc EXCEPT ![p].pc = "finishing", ![p].final = f],
           UNCHANGED <<user, database>>
    PROVE  IndInv'
<1> DEFINE s == [proc[p] EXCEPT !.pc = "finishing", !.final = f]
<1>1. proc[p] \in Locals /\ LocalOK(proc[p])
    BY DEF IndInv, RootTypes, LocalsOK
<1>2. s \in Locals
    BY <1>1 DEF Locals
<1>3. LocalOK(s)
    BY <1>1 DEF LocalOK, Locals, Loaded
<1>4. GoesOn(proc[p], s)
    BY <1>1 DEF GoesOn, Locals, Loaded
<1>5. proc' = [proc EXCEPT ![p] = s]
    BY DEF IndInv, RootTypes
<1>6. QED
    BY <1>2, <1>3, <1>4, <1>5, LocalStep

\* An error: the CLI turns to finish_run, a worker just raises.
LEMMA FailStep ==
    ASSUME IndInv, NEW p \in Procs, proc[p].pc # "idle", Fail(p), UNCHANGED <<user, database>>
    PROVE  IndInv'
BY ExitStep, FinishingStep DEF Fail, Finals

\* _load_replay with a checkpoint loads what the checkpoint names.
LEMMA LoadCheckpointStep ==
    ASSUME IndInv, NEW p \in Procs, LoadCheckpoint(p)
    PROVE  IndInv'
<1> DEFINE x == [replay |-> checkpoint[proc[p].run], resumed |-> TRUE]
           s == [proc[p] EXCEPT !.pc = "analyzing", !.result = x]
<1>1. proc[p] \in Locals /\ LocalOK(proc[p]) /\ proc[p].pc = "created"
    BY DEF IndInv, RootTypes, LocalsOK, LoadCheckpoint
<1>2. checkpoint[proc[p].run] # None /\ UNCHANGED <<user, database>> /\ proc[p].run \in Runs
    BY <1>1 DEF LoadCheckpoint, CheckpointAccepted, LocalOK
<1>3. checkpoint[proc[p].run] \in Replays /\ x \in Results
    BY <1>2 DEF IndInv, RootTypes, Results
<1>4. s \in Locals
    BY <1>1, <1>3 DEF Locals, Loaded
<1>5. LocalOK(s)
    BY <1>1, <1>2, <1>3 DEF LocalOK, Locals
<1>6. GoesOn(proc[p], s)
    BY <1>1, <1>2 DEF GoesOn, Locals, Loaded
<1>7. proc' = [proc EXCEPT ![p] = s]
    BY DEF IndInv, RootTypes, LoadCheckpoint
<1>8. QED
    BY <1>2, <1>4, <1>5, <1>6, <1>7, LocalStep

\* The analyzer returns; nothing is written.
LEMMA AnalyzedStep ==
    ASSUME IndInv, NEW p \in Procs, Analyzed(p)
    PROVE  IndInv'
<1> DEFINE s == [proc[p] EXCEPT !.pc = "analyzed"]
<1>1. /\ proc[p] \in Locals /\ LocalOK(proc[p]) /\ proc[p].pc = "analyzing"
      /\ UNCHANGED <<user, database>>
    BY DEF IndInv, RootTypes, LocalsOK, Analyzed
<1>2. s \in Locals /\ LocalOK(s) /\ GoesOn(proc[p], s)
    BY <1>1 DEF Locals, Loaded, LocalOK, GoesOn
<1>3. proc' = [proc EXCEPT ![p] = s]
    BY DEF IndInv, RootTypes, Analyzed, Goto
<1>4. QED
    BY <1>1, <1>2, <1>3, LocalStep

\* finish_run overwrites the status, but never with "complete" or "partial".
LEMMA FinishRunStep ==
    ASSUME IndInv, NEW p \in Procs, FinishRun(p)
    PROVE  IndInv'
<1>1. /\ proc[p].run \in Runs /\ proc[p].final \in Finals
      /\ status' = [status EXCEPT ![proc[p].run] = proc[p].final]
      /\ proc' = [proc EXCEPT ![p] = Idle] /\ UNCHANGED <<user, checkpoint, rows, exports>>
    BY DEF IndInv, LocalsOK, LocalOK, FinishRun, Exit
<1>2. /\ status' \in [Runs -> Statuses] /\ rows' \in [Types -> Runs \cup {None}]
      /\ \A a \in Runs : status'[a] = "absent" => status[a] = "absent"
    BY <1>1 DEF IndInv, RootTypes, Statuses, Finals
<1>3. StatusBacked'
    BY <1>1 DEF IndInv, RootTypes, StatusBacked, Finals
<1>4. QED
    BY <1>1, <1>2, <1>3, IdleOK, QuietStep DEF GoesOn

\* SQLiteStorage.save_result writes the status of the loaded replay, with the
\* rows, which no run of the type has.
LEMMA SaveResultStep ==
    ASSUME IndInv, NEW p \in Procs, SaveResult(p)
    PROVE  IndInv'
<1> DEFINE s == [proc[p] EXCEPT !.pc = "saved"]
           a == proc[p].run
           o == Outcome[proc[p].result.replay]
<1>1. proc[p] \in Locals /\ LocalOK(proc[p]) /\ proc[p].pc = "analyzed"
    BY DEF IndInv, RootTypes, LocalsOK, SaveResult
<1>2. /\ rows' = IF o.rows THEN [rows EXCEPT ![TypeOf[a]] = a] ELSE rows
      /\ status' = [status EXCEPT ![a] = o.status]
      /\ o.rows => rows[TypeOf[a]] = None
      /\ UNCHANGED <<user, checkpoint, exports>>
    BY DEF SaveResult, RowsFree
<1>3. /\ a \in Runs /\ proc[p].result.replay \in Replays /\ TypeOf[a] \in Types
      /\ o.valid => checkpoint[a] = proc[p].result.replay
    BY <1>1, RootAssumption DEF LocalOK, Loaded, Results
<1>4. /\ o.status \in {"complete", "partial", "failed"}
      /\ o.status # "failed" => o.valid /\ o.rows
    BY <1>3, RootAssumption
<1>5. s \in Locals /\ LocalOK(s) /\ GoesOn(proc[p], s)
    BY <1>1 DEF Locals, Loaded, LocalOK, GoesOn
<1>6. proc' = [proc EXCEPT ![p] = s]
    BY DEF IndInv, RootTypes, SaveResult, Goto
<1>7. /\ status' \in [Runs -> Statuses] /\ rows' \in [Types -> Runs \cup {None}]
      /\ \A b \in Runs : status'[b] = "absent" => status[b] = "absent"
    BY <1>2, <1>3, <1>4 DEF IndInv, RootTypes, Statuses, Finals
<1>8. StatusBacked'
  <2> SUFFICES ASSUME NEW b \in Runs, status'[b] \in {"complete", "partial"}
               PROVE  /\ rows'[TypeOf[b]] = b
                      /\ checkpoint[b] # None /\ Outcome[checkpoint[b]].status = status'[b]
      BY <1>2 DEF StatusBacked
  <2>1. TypeOf[b] \in Types
      BY RootAssumption
  <2>2. CASE b = a
      BY <1>2, <1>3, <1>4, <2>2, RootAssumption DEF IndInv, RootTypes
  <2>3. CASE b # a
    <3>1. /\ rows[TypeOf[b]] = b /\ checkpoint[b] # None
          /\ Outcome[checkpoint[b]].status = status'[b]
        BY <1>2, <1>3, <2>3 DEF IndInv, RootTypes, StatusBacked
    <3>2. o.rows => TypeOf[a] # TypeOf[b]
        BY <1>2, <3>1, RootAssumption
    <3>3. QED
        BY <1>2, <1>3, <2>1, <3>1, <3>2 DEF IndInv, RootTypes
  <2>4. QED
      BY <2>2, <2>3
<1>9. QED
    BY <1>2, <1>5, <1>6, <1>7, <1>8, QuietStep
-----------------------------------------------------------------------------
(* Starting, loading evidence, exporting. *)

\* A command starts: evidence is brought to a run of the CLI only when it is
\* registered, and to a worker only when it is alone and there is no result.
LEMMA StartStep ==
    ASSUME IndInv, NEW p \in Procs, NEW a \in Runs, NEW s \in Locals, LocalOK(s),
           proc[p].pc = "idle", s.pc \in {"created", "finishing"}, s.run = a,
           user = "cli" /\ s.evidence # None => status[a] = "absent",
           user = "worker" => ~HasResult(a) /\ \A q \in Procs : proc[q].pc = "idle",
           status' = [status EXCEPT ![a] = IF @ = "absent" THEN "queued" ELSE @],
           proc' = [proc EXCEPT ![p] = s], UNCHANGED <<user, checkpoint, rows, exports>>
    PROVE  IndInv'
<1>1. /\ proc'[p] = s
      /\ \A q \in Procs : q # p => proc'[q] = proc[q]
      /\ proc' \in [Procs -> Locals]
    BY DEF IndInv, RootTypes
<1>2. /\ status' \in [Runs -> Statuses] /\ status'[a] # "absent"
      /\ \A b \in Runs : b # a => status'[b] = status[b]
      /\ \A b \in Runs : status'[b] \in {"complete", "partial"} => status'[b] = status[b]
    BY DEF IndInv, RootTypes, Statuses
<1>3. RootTypes'
    BY <1>1, <1>2 DEF IndInv, RootTypes
<1>4. LocalsOK'
  <2> SUFFICES ASSUME NEW q \in Procs PROVE LocalOK(proc[q])'
      BY DEF LocalsOK
  <2>1. CASE q = p
      BY <1>1, <2>1 DEF LocalOK
  <2>2. CASE q # p
      BY <1>1, <2>2 DEF LocalOK, IndInv, LocalsOK
  <2>3. QED
      BY <2>1, <2>2
<1>5. AbsentUntouched'
    BY <1>1, <1>2 DEF IndInv, AbsentUntouched, Untouched
<1>6. FirstOffer'
  <2> SUFFICES ASSUME NEW q \in Procs, NEW r \in Procs, user = "cli",
                      proc'[q].pc = "created", proc'[q].evidence # None
               PROVE  /\ Untouched(proc'[q].run)
                      /\ (r # q /\ proc'[r].run = proc'[q].run) =>
                            /\ proc'[r].pc \in {"created", "finishing"}
                            /\ proc'[r].evidence = None
      BY DEF FirstOffer, Untouched
  <2>1. CASE q = p
      BY <1>1, <2>1 DEF IndInv, AbsentUntouched
  <2>2. CASE q # p /\ r # p
      BY <1>1, <2>2 DEF IndInv, FirstOffer
  <2>3. CASE q # p /\ r = p
    <3>1. Untouched(proc'[q].run)
        BY <1>1, <2>3 DEF IndInv, FirstOffer
    <3>2. proc'[r].run = proc'[q].run => s.evidence = None
        BY <1>1, <2>3 DEF IndInv, AbsentUntouched
    <3>3. QED
        BY <1>1, <2>3, <3>1, <3>2
  <2>4. QED
      BY <2>1, <2>2, <2>3
<1>7. WorkerAlone'
    BY <1>1 DEF WorkerAlone, HasResult, Loaded
<1>8. ExportsAgree' /\ ResultProvenance'
    BY DEF IndInv, ExportsAgree, ResultProvenance, HasResult
<1>9. StatusBacked'
    BY <1>2 DEF IndInv, StatusBacked
<1>10. QED
    BY <1>3, <1>4, <1>5, <1>6, <1>7, <1>8, <1>9 DEF IndInv

\* Whoever loads evidence is the only one on its run that gets any further, so
\* the new checkpoint contradicts no replay and no export.
LEMMA LoadEvidenceStep ==
    ASSUME IndInv, NEW p \in Procs, LoadEvidence(p)
    PROVE  IndInv'
<1> DEFINE a == proc[p].run
           ev == proc[p].evidence
           s == [proc[p] EXCEPT !.pc = "analyzing",
                                !.result = [replay |-> ev, resumed |-> FALSE]]
<1>1. proc[p] \in Locals /\ LocalOK(proc[p]) /\ proc[p].pc = "created" /\ a \in Runs
    BY DEF IndInv, RootTypes, LocalsOK, LocalOK, LoadEvidence
<1>2. /\ checkpoint[a] = None /\ ev \in Replays
      /\ checkpoint' = [checkpoint EXCEPT ![a] = IF Outcome[ev].valid THEN ev ELSE None]
      /\ UNCHANGED <<user, status, rows, exports>>
    BY <1>1 DEF LoadEvidence, Checkpointed, Locals
<1>3. /\ checkpoint' \in [Runs -> Replays \cup {None}]
      /\ \A b \in Runs : b # a => checkpoint'[b] = checkpoint[b]
      /\ checkpoint'[a] \in {ev, None} /\ (Outcome[ev].valid => checkpoint'[a] = ev)
    BY <1>1, <1>2 DEF IndInv, RootTypes
<1>4. /\ s \in Locals /\ s.pc = "analyzing" /\ s.run = a /\ s.cmd = proc[p].cmd
      /\ s.evidence = ev /\ s.result \in Results /\ s.result.replay = ev
    BY <1>1, <1>2 DEF Locals, Loaded, Results
<1>5. proc' = [proc EXCEPT ![p] = s]
    BY DEF IndInv, RootTypes, LoadEvidence
<1> HIDE DEF s
<1>6. /\ proc'[p] = s
      /\ \A q \in Procs : q # p => proc'[q] = proc[q]
      /\ proc' \in [Procs -> Locals]
    BY <1>4, <1>5 DEF IndInv, RootTypes
<1>7. \A q \in Procs : q # p /\ proc[q].run = a =>
            /\ proc[q].pc \in {"created", "finishing"}
            /\ user = "cli" => proc[q].evidence = None
            /\ user # "worker"
    BY <1>1, <1>2, RootAssumption
       DEF IndInv, FirstOffer, WorkerAlone, RootTypes, LocalsOK, LocalOK
<1>8. ~HasResult(a)
    BY <1>1, <1>2, RootAssumption
       DEF IndInv, FirstOffer, WorkerAlone, RootTypes, HasResult, Untouched, ExportTypes
<1>9. RootTypes'
    BY <1>2, <1>3, <1>6 DEF IndInv, RootTypes
<1>10. LocalsOK'
  <2> SUFFICES ASSUME NEW q \in Procs PROVE LocalOK(proc[q])'
      BY DEF LocalsOK
  <2>1. CASE q = p
      BY <1>1, <1>2, <1>3, <1>4, <1>6, <2>1 DEF LocalOK, Loaded
  <2>2. CASE q # p /\ proc[q].run = a
      BY <1>1, <1>2, <1>6, <1>7, <2>2 DEF LocalOK, IndInv, LocalsOK, Loaded
  <2>3. CASE q # p /\ proc[q].run # a
      BY <1>2, <1>3, <1>6, <2>3 DEF LocalOK, IndInv, LocalsOK, Loaded
  <2>4. QED
      BY <2>1, <2>2, <2>3
<1>11. AbsentUntouched'
  <2>1. status[a] # "absent" /\ \A q \in Procs : proc'[q].run = proc[q].run
      BY <1>1, <1>4, <1>6 DEF IndInv, AbsentUntouched
  <2>2. QED
      BY <1>2, <1>3, <2>1 DEF IndInv, AbsentUntouched, Untouched
<1>12. FirstOffer'
  <2> SUFFICES ASSUME NEW q \in Procs, NEW r \in Procs, user = "cli",
                      proc'[q].pc = "created", proc'[q].evidence # None
               PROVE  /\ Untouched(proc[q].run)'
                      /\ (r # q /\ proc'[r].run = proc'[q].run) =>
                            /\ proc'[r].pc \in {"created", "finishing"}
                            /\ proc'[r].evidence = None
      BY <1>2 DEF FirstOffer
  <2>1. q # p /\ proc'[q] = proc[q] /\ proc[q].run \in Runs
      BY <1>4, <1>6 DEF IndInv, LocalsOK, LocalOK
  <2>2. proc[q].run # a
      BY <1>7, <2>1
  <2>3. Untouched(proc[q].run)'
      BY <1>2, <1>3, <2>1, <2>2 DEF IndInv, FirstOffer, Untouched
  <2>4. ASSUME r # q, proc'[r].run = proc'[q].run
        PROVE  proc'[r].pc \in {"created", "finishing"} /\ proc'[r].evidence = None
    <3>1. r # p /\ proc'[r] = proc[r]
        BY <1>4, <1>6, <2>1, <2>2, <2>4
    <3>2. QED
        BY <2>1, <2>4, <3>1 DEF IndInv, FirstOffer
  <2>5. QED
      BY <2>3, <2>4
<1>13. WorkerAlone'
  <2>1. \A q \in Procs : proc'[q].pc # "idle" => proc[q].pc # "idle"
      BY <1>1, <1>6
  <2>2. \A q \in Procs : proc'[q].pc \in {"created"} \cup Loaded =>
            proc[q].pc \in {"created"} \cup Loaded /\ proc'[q].run = proc[q].run
      BY <1>1, <1>4, <1>6
  <2>3. QED
      BY <1>2, <2>1, <2>2 DEF IndInv, WorkerAlone, HasResult
<1>14. ExportsAgree'
    BY <1>2 DEF IndInv, ExportsAgree
<1>15. ResultProvenance'
    BY <1>2, <1>3, <1>8 DEF IndInv, ResultProvenance, HasResult
<1>16. StatusBacked'
    BY <1>2, <1>3 DEF IndInv, StatusBacked
<1>17. QED
    BY <1>9, <1>10, <1>11, <1>12, <1>13, <1>14, <1>15, <1>16 DEF IndInv

\* An export is recorded where there is none, or where it is already: it
\* changes nothing that another process relies on.
LEMMA ExportStep ==
    ASSUME IndInv, NEW p \in Procs, NEW e \in ExportTypes, NEW s \in Locals,
           proc[p].pc \in Loaded, ExportFree(p, e), RecordExport(p, e),
           s = Idle \/ (s.pc \in {"half", "exported"} /\ s.run = proc[p].run),
           proc' = [proc EXCEPT ![p] = s], UNCHANGED <<user, status, checkpoint, rows>>,
           LocalOK(s)', ExportsAgree', ResultProvenance',
           user = "worker" /\ s.pc = "half" => ~HasResult(s.run)'
    PROVE  IndInv'
<1> DEFINE a == proc[p].run
<1>1. a \in Runs /\ proc[p].result \in Results /\ None \notin Results
    BY RootAssumption DEF IndInv, LocalsOK, LocalOK, Loaded, Results
<1>2. /\ exports' \in [Runs -> [ExportTypes -> Results \cup {None}]]
      /\ \A b \in Runs : b # a => exports'[b] = exports[b]
      /\ \A f \in ExportTypes : exports[a][f] # None => exports'[a][f] = exports[a][f]
    BY <1>1 DEF RecordExport, ExportFree, IndInv, RootTypes
<1>3. /\ proc'[p] = s
      /\ \A q \in Procs : q # p => proc'[q] = proc[q]
      /\ proc' \in [Procs -> Locals]
    BY DEF IndInv, RootTypes
<1>4. RootTypes'
    BY <1>2, <1>3 DEF IndInv, RootTypes
<1>5. LocalsOK'
  <2> SUFFICES ASSUME NEW q \in Procs PROVE LocalOK(proc[q])'
      BY DEF LocalsOK
  <2>1. CASE q = p
      BY <1>3, <2>1 DEF LocalOK
  <2>2. CASE q # p
    <3>1. LocalOK(proc[q]) /\ proc'[q] = proc[q]
        BY <1>3, <2>2 DEF IndInv, LocalsOK
    <3>2. proc[q].pc = "half" => exports'[proc[q].run]["result_json"] = proc[q].result
        BY <1>1, <1>2, <3>1 DEF LocalOK, Loaded, ExportTypes
    <3>3. QED
        BY <3>1, <3>2 DEF LocalOK
  <2>3. QED
      BY <2>1, <2>2
<1>6. AbsentUntouched'
  <2>1. status[a] # "absent"
      BY <1>1 DEF IndInv, AbsentUntouched
  <2>2. \A q \in Procs : proc'[q].run \in {proc[q].run, None}
      BY <1>3 DEF Idle
  <2>3. QED
      BY <1>2, <2>1, <2>2, RootAssumption DEF IndInv, AbsentUntouched, Untouched
<1>7. FirstOffer'
  <2> SUFFICES ASSUME NEW q \in Procs, NEW r \in Procs, user = "cli",
                      proc'[q].pc = "created", proc'[q].evidence # None
               PROVE  /\ Untouched(proc[q].run)'
                      /\ (r # q /\ proc'[r].run = proc'[q].run) =>
                            /\ proc'[r].pc \in {"created", "finishing"}
                            /\ proc'[r].evidence = None
      BY DEF FirstOffer
  <2>1. q # p /\ proc'[q] = proc[q] /\ proc[q].run \in Runs
      BY <1>3 DEF Idle, IndInv, LocalsOK, LocalOK
  <2>2. proc[q].run # a
      BY <2>1 DEF IndInv, FirstOffer, Loaded
  <2>3. Untouched(proc[q].run)'
      BY <1>2, <2>1, <2>2 DEF IndInv, FirstOffer, Untouched
  <2>4. ASSUME r # q, proc'[r].run = proc'[q].run
        PROVE  proc'[r].pc \in {"created", "finishing"} /\ proc'[r].evidence = None
    <3>1. r # p /\ proc'[r] = proc[r]
        BY <1>3, <2>1, <2>2, <2>4, RootAssumption DEF Idle
    <3>2. QED
        BY <2>1, <2>4, <3>1 DEF IndInv, FirstOffer
  <2>5. QED
      BY <2>3, <2>4
<1>8. WorkerAlone'
  <2> SUFFICES ASSUME user = "worker" PROVE WorkerAlone'
      BY DEF WorkerAlone
  <2>1. \A q \in Procs : q # p => proc'[q].pc = "idle"
      BY <1>3 DEF IndInv, WorkerAlone, Loaded
  <2>2. s.pc \in {"created"} \cup Loaded => s.pc = "half"
      BY DEF Idle, Loaded
  <2>3. ASSUME NEW q \in Procs, proc'[q].pc \in {"created"} \cup Loaded
        PROVE  ~HasResult(proc[q].run)'
      BY <1>3, <2>1, <2>2, <2>3 DEF Loaded, HasResult
  <2>4. QED
      BY <2>1, <2>3 DEF WorkerAlone
<1>9. StatusBacked'
    BY DEF IndInv, StatusBacked
<1>10. QED
    BY <1>4, <1>5, <1>6, <1>7, <1>8, <1>9 DEF IndInv

\* The JSON export of a run that has a Markdown export is its own result again.
LEMMA ExportJsonStep ==
    ASSUME IndInv, NEW p \in Procs, ExportJson(p)
    PROVE  IndInv'
<1> DEFINE a == proc[p].run
<1>1. /\ proc[p] \in Locals /\ LocalOK(proc[p]) /\ proc[p].pc = "saved" /\ a \in Runs
      /\ proc[p].result \in Results /\ None \notin Results
    BY RootAssumption DEF IndInv, RootTypes, LocalsOK, LocalOK, ExportJson, Loaded, Results
<1>2. /\ ExportFree(p, "result_json") /\ RecordExport(p, "result_json")
      /\ UNCHANGED <<user, status, checkpoint, rows>>
    BY DEF ExportJson
<1>3. PICK s \in Locals :
        /\ proc' = [proc EXCEPT ![p] = s]
        /\ s.pc = "half" /\ s.run = a /\ s.result = proc[p].result
        /\ s.cmd = proc[p].cmd /\ s.evidence = proc[p].evidence
  <2> DEFINE x == [proc[p] EXCEPT !.pc = "half"]
  <2>1. proc' = [proc EXCEPT ![p] = x] /\ x \in Locals
      BY <1>1 DEF IndInv, RootTypes, ExportJson, Goto, Locals, Loaded
  <2>2. QED
      BY <1>1, <2>1 DEF Locals
<1>4. /\ \A b \in Runs : b # a => exports'[b] = exports[b]
      /\ exports'[a]["result_json"] = proc[p].result
      /\ exports[a]["result_json"] \in {None, proc[p].result}
      /\ exports'[a]["evidence_markdown"] = exports[a]["evidence_markdown"]
    BY <1>1, <1>2 DEF RecordExport, ExportFree, IndInv, RootTypes, ExportTypes
<1>5. LocalOK(s)'
    BY <1>1, <1>2, <1>3, <1>4 DEF LocalOK, Loaded
<1>6. ExportsAgree'
    BY <1>1, <1>4 DEF IndInv, ExportsAgree
<1>7. \A b \in Runs : HasResult(b)' => HasResult(b)
    BY <1>1, <1>4 DEF IndInv, ExportsAgree, HasResult, ExportTypes
<1>8. ResultProvenance'
    BY <1>1, <1>2, <1>4 DEF LocalOK, Loaded, IndInv, ResultProvenance, HasResult, ExportTypes
<1>9. user = "worker" => ~HasResult(s.run)'
    BY <1>1, <1>3, <1>7 DEF IndInv, WorkerAlone, Loaded
<1>10. QED
    BY <1>1, <1>2, <1>3, <1>5, <1>6, <1>8, <1>9, ExportStep DEF ExportTypes, Loaded

\* The Markdown export follows a JSON export of the same result.
LEMMA ExportMarkdownStep ==
    ASSUME IndInv, NEW p \in Procs, ExportMarkdown(p)
    PROVE  IndInv'
<1> DEFINE a == proc[p].run
<1>1. /\ proc[p] \in Locals /\ LocalOK(proc[p]) /\ proc[p].pc = "half" /\ a \in Runs
      /\ proc[p].result \in Results /\ None \notin Results
    BY RootAssumption DEF IndInv, RootTypes, LocalsOK, LocalOK, ExportMarkdown, Loaded, Results
<1>2. /\ ExportFree(p, "evidence_markdown") /\ RecordExport(p, "evidence_markdown")
      /\ UNCHANGED <<user, status, checkpoint, rows>>
    BY DEF ExportMarkdown
<1>3. PICK s \in Locals :
        /\ proc' = [proc EXCEPT ![p] = s]
        /\ \/ s = Idle
           \/ /\ s.pc = "exported" /\ s.run = a
              /\ s.cmd = proc[p].cmd /\ s.evidence = proc[p].evidence
  <2>1. CASE proc[p].cmd = "worker"
    <3> DEFINE x == [proc[p] EXCEPT !.pc = "exported"]
    <3>1. proc' = [proc EXCEPT ![p] = x] /\ x \in Locals
        BY <1>1, <2>1 DEF IndInv, RootTypes, ExportMarkdown, Goto, Locals
    <3>2. QED
        BY <1>1, <3>1 DEF Locals
  <2>2. CASE proc[p].cmd # "worker"
      BY <2>2, IdleOK DEF ExportMarkdown, Exit
  <2>3. QED
      BY <2>1, <2>2
<1>4. /\ \A b \in Runs : b # a => exports'[b] = exports[b]
      /\ exports'[a]["evidence_markdown"] = proc[p].result
      /\ exports'[a]["result_json"] = exports[a]["result_json"]
      /\ exports[a]["result_json"] = proc[p].result
    BY <1>1, <1>2 DEF RecordExport, IndInv, RootTypes, ExportTypes, LocalOK
<1>5. LocalOK(s)'
    BY <1>1, <1>2, <1>3 DEF LocalOK, Loaded, Idle
<1>6. ExportsAgree'
    BY <1>4 DEF IndInv, ExportsAgree
<1>7. ResultProvenance'
    BY <1>1, <1>2, <1>4 DEF LocalOK, Loaded, IndInv, ResultProvenance, HasResult, ExportTypes
<1>8. s.pc # "half"
    BY <1>3 DEF Idle
<1>9. /\ s = Idle \/ (s.pc \in {"half", "exported"} /\ s.run = proc[p].run)
      /\ "evidence_markdown" \in ExportTypes /\ proc[p].pc \in Loaded
      /\ proc' = [proc EXCEPT ![p] = s]
    BY <1>1, <1>3 DEF ExportTypes, Loaded
<1>10. QED
    BY <1>2, <1>5, <1>6, <1>7, <1>8, <1>9, ExportStep

-----------------------------------------------------------------------------
(* The four properties. *)

\* A command starts with a run of its own state.
LEMMA StartsHold ==
    ASSUME IndInv, NEW p \in Procs, Start(p)
    PROVE  IndInv'
<1>1. ASSUME NEW a \in Runs, Resume(p, a) PROVE IndInv'
  <2> DEFINE s == [Idle EXCEPT !.cmd = "resume", !.run = a, !.pc = "created"]
  <2>1. /\ s \in Locals /\ s.pc = "created" /\ s.run = a /\ s.evidence = None
        /\ s.cmd = "resume"
      BY DEF Idle, Locals
  <2>2. /\ proc[p].pc = "idle" /\ user = "cli" /\ status[a] # "absent"
        /\ proc' = [proc EXCEPT ![p] = s] /\ UNCHANGED <<user, status, checkpoint, rows, exports>>
      BY <1>1 DEF Resume, database
  <2> HIDE DEF s
  <2>3. LocalOK(s)
      BY <2>1, <2>2 DEF LocalOK, Loaded
  <2>4. status' = [status EXCEPT ![a] = IF @ = "absent" THEN "queued" ELSE @]
      BY <2>2 DEF IndInv, RootTypes
  <2>5. QED
      BY <2>1, <2>2, <2>3, <2>4, StartStep
<1>2. ASSUME NEW a \in Runs, NEW ev \in Replays \cup {None}, Analyze(p, a, ev) PROVE IndInv'
  <2> DEFINE s == [Idle EXCEPT !.cmd = "analyze", !.run = a, !.evidence = ev,
                         !.pc = IF a \in Restricted THEN "finishing" ELSE "created",
                         !.final = IF a \in Restricted THEN "restricted" ELSE None]
  <2>1. /\ s \in Locals /\ s.pc \in {"created", "finishing"} /\ s.run = a
        /\ s.cmd = "analyze" /\ (s.pc = "finishing" => s.final \in Finals)
      BY DEF Idle, Locals, Finals
  <2>2. /\ proc[p].pc = "idle" /\ user = "cli" /\ status[a] = "absent"
        /\ status' = [status EXCEPT ![a] = "queued"]
        /\ proc' = [proc EXCEPT ![p] = s] /\ UNCHANGED <<user, checkpoint, rows, exports>>
      BY <1>2 DEF Analyze
  <2> HIDE DEF s
  <2>3. LocalOK(s)
      BY <2>1, <2>2 DEF LocalOK, Loaded
  <2>4. status' = [status EXCEPT ![a] = IF @ = "absent" THEN "queued" ELSE @]
      BY <2>2 DEF IndInv, RootTypes
  <2>5. QED
      BY <2>1, <2>2, <2>3, <2>4, StartStep
<1>3. ASSUME NEW a \in Runs, NEW ev \in Replays, StartWorker(p, a, ev) PROVE IndInv'
  <2> DEFINE s == [Idle EXCEPT !.cmd = "worker", !.run = a, !.evidence = ev, !.pc = "created"]
  <2>1. s \in Locals /\ s.pc = "created" /\ s.run = a /\ s.cmd = "worker"
      BY DEF Idle, Locals
  <2>2. /\ \A q \in Procs : proc[q].pc = "idle"
        /\ user = "worker" /\ ~HasResult(a)
        /\ status' = [status EXCEPT ![a] = IF @ = "absent" THEN "queued" ELSE @]
        /\ proc' = [proc EXCEPT ![p] = s] /\ UNCHANGED <<user, checkpoint, rows, exports>>
      BY <1>3 DEF StartWorker
  <2> HIDE DEF s
  <2>3. LocalOK(s)
      BY <2>1, <2>2 DEF LocalOK, Loaded
  <2>4. QED
      BY <2>1, <2>2, <2>3, StartStep
<1>4. ASSUME NEW a \in Runs, NEW ev \in Replays, ReuseResult(p, a, ev) PROVE IndInv'
  <2>1. UNCHANGED <<user, status, checkpoint, rows, exports, proc>>
      BY <1>4 DEF ReuseResult, database
  <2>2. QED
      BY <2>1 DEF IndInv, RootTypes, LocalsOK, LocalOK, AbsentUntouched, FirstOffer, WorkerAlone,
                  ExportsAgree, ResultProvenance, StatusBacked, Untouched, HasResult
<1>5. QED
    BY <1>1, <1>2, <1>3, <1>4 DEF Start

\* Every step, faults included, keeps the invariant.
LEMMA NextHolds == IndInv /\ [Next]_vars => IndInv'
<1> SUFFICES ASSUME IndInv, [Next]_vars PROVE IndInv'
    OBVIOUS
<1>1. ASSUME NEW p \in Procs, Progress(p) PROVE IndInv'
  <2>1. CASE Unavailable(p)
      BY <2>1, ExitStep, FailStep DEF Unavailable
  <2>2. CASE SaveConflict(p) \/ ExportConflict(p)
      BY <2>2, FailStep DEF SaveConflict, ExportConflict
  <2>3. CASE EndWorker(p)
      BY <2>3, ExitStep DEF EndWorker
  <2>4. QED
      BY <1>1, <2>1, <2>2, <2>3, LoadCheckpointStep, LoadEvidenceStep, AnalyzedStep,
         SaveResultStep, ExportJsonStep, ExportMarkdownStep, FinishRunStep DEF Progress
<1>2. ASSUME NEW p \in Procs, Fault(p) PROVE IndInv'
  <2>1. CASE Interrupt(p)
      BY <2>1, FinishingStep DEF Interrupt, Finals
  <2>2. CASE Error(p)
      BY <2>2, FailStep DEF Error
  <2>3. CASE Crash(p)
      BY <2>3, ExitStep DEF Crash
  <2>4. QED
      BY <1>2, <2>1, <2>2, <2>3 DEF Fault
<1>3. CASE UNCHANGED vars
    BY <1>3 DEF vars, IndInv, RootTypes, LocalsOK, LocalOK, AbsentUntouched, FirstOffer, WorkerAlone,
                ExportsAgree, ResultProvenance, StatusBacked, Untouched, HasResult
<1>4. QED
    BY <1>1, <1>2, <1>3, StartsHold DEF Next

\* The induction for the theorems below.
LEMMA Inductive == Spec => []IndInv
BY InitHolds, NextHolds, PTL DEF Spec

\* ResultExporter.export: the two exports of a run are made from one result,
\* although they are recorded in two transactions and by several processes.
THEOREM ExportsMatch == Spec => []ExportsAgree
<1>1. IndInv => ExportsAgree
    BY DEF IndInv
<1>2. QED
    BY <1>1, Inductive, PTL

\* _load_replay and load_result: what is shown for a run was computed from the
\* replay that its checkpoint names.
THEOREM ResultsComeFromCheckpoint == Spec => []ResultProvenance
<1>1. IndInv => ResultProvenance
    BY DEF IndInv
<1>2. QED
    BY <1>1, Inductive, PTL

\* SQLiteStorage.save_result and finish_run: a run that is reported complete or
\* partial has its rows, and the status its checkpointed replay leads to.
THEOREM StatusIsBacked == Spec => []StatusBacked
<1>1. IndInv => StatusBacked
    BY DEF IndInv
<1>2. QED
    BY <1>1, Inductive, PTL

\* record_export: a result that can be shown never changes.
THEOREM ShownResultStays == Spec => ShownResultIsStable
<1>1. IndInv /\ [Next]_vars => [\A a \in Runs : HasResult(a) => exports'[a] = exports[a]]_vars
  <2> SUFFICES ASSUME IndInv, Next PROVE \A a \in Runs : HasResult(a) => exports'[a] = exports[a]
      OBVIOUS
  <2>1. ASSUME NEW p \in Procs, NEW e \in ExportTypes, ExportFree(p, e), RecordExport(p, e),
               proc[p].pc \in Loaded
        PROVE  \A a \in Runs : HasResult(a) => exports'[a] = exports[a]
    <3>1. proc[p].run \in Runs
        BY <2>1 DEF IndInv, LocalsOK, LocalOK, Loaded
    <3>2. HasResult(proc[p].run) => exports[proc[p].run][e] = proc[p].result
        BY <2>1 DEF HasResult, ExportFree
    <3>3. QED
        BY <2>1, <3>1, <3>2 DEF RecordExport, IndInv, RootTypes
  <2>2. ASSUME NEW p \in Procs, ExportJson(p) \/ ExportMarkdown(p)
        PROVE  \A a \in Runs : HasResult(a) => exports'[a] = exports[a]
      BY <2>1, <2>2 DEF ExportJson, ExportMarkdown, ExportTypes, Loaded
  <2>3. ASSUME NEW p \in Procs, Start(p) \/ Fault(p) PROVE UNCHANGED exports
      BY <2>3 DEF Start, Resume, Analyze, StartWorker, ReuseResult, Fault, Interrupt, Error, Crash,
                  database
  <2>4. ASSUME NEW p \in Procs, Progress(p), ~ExportJson(p), ~ExportMarkdown(p)
        PROVE  UNCHANGED exports
      BY <2>4 DEF Progress, LoadCheckpoint, LoadEvidence, Unavailable, Analyzed, SaveResult,
                  SaveConflict, ExportConflict, EndWorker, FinishRun, database
  <2>5. QED
      BY <2>2, <2>3, <2>4 DEF Next
<1>2. QED
    BY <1>1, Inductive, PTL DEF Spec, ShownResultIsStable
=============================================================================
