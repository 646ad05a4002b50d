---------------------------- MODULE PipelineGates ----------------------------
(***************************************************************************)
(* The gates that one problem passes from plan to submission-ready answer: *)
(* PlannerService (application/planner.py), EvidenceWorkerService          *)
(* (application/evidence_worker.py), CandidateBuilder, IndependentVerifier *)
(* and CandidatePromotionGate (application/candidate_verifier.py), with    *)
(* the status transitions of domain/operations.py.                         *)
(*                                                                         *)
(* The services take records and return records; the operator who keeps    *)
(* them is external and moves statuses only as _TRANSITIONS allows.        *)
(* Evidence and verification await their adapters, so records change       *)
(* between the check of a command and its outcome.  A command that a gate  *)
(* refuses changes nothing and is not a step, except for evidence jobs,    *)
(* which fail.  Records of one problem of an active competition only.      *)
(***************************************************************************)

CONSTANTS
    Plans,
    Modes,          \* AI execution modes
    Leaves,         \* evidence jobs, each with its analysis
    PlanOf,
    TypeOf,         \* analysis type, which fixes the ids of the results
    Candidates,
    Verifications,
    Values,         \* values of a result
    Outcomes,       \* what the analysis of each leaf may give
    None

ModeType == [rule: {"rules_gated", "rule_restricted", "allowed"}, planning: BOOLEAN,
             problem_data: BOOLEAN, operator_approved: BOOLEAN, adapter: BOOLEAN]
OutcomeType == [status: {"complete", "partial", "failed"}, value: Values, confirmed: BOOLEAN]

\* A job with its result; a candidate; a verification, with its command while
\* it runs.
JobType == [status: {"none", "queued", "running", "complete", "partial", "failed", "cancelled"},
            result: OutcomeType \cup {None}]
Partial(S) == UNION {[D -> S] : D \in SUBSET Leaves}
CandidateType ==
    [status: {"draft", "review_required", "rejected", "submission_ready"}, plan: Plans,
     results: SUBSET Leaves, answer: Partial(Values), uncertain: BOOLEAN, refs: SUBSET Verifications]
VerificationType ==
    [status: {"running", "pass", "conflict", "incomplete"}, candidate: Candidates,
     results: SUBSET Leaves, answer: Partial(Values), runs: SUBSET Leaves,
     replayed: Partial(Values \cup {None})]

ASSUME GatesAssumption ==
    /\ Modes \subseteq ModeType /\ Outcomes \in [Leaves -> SUBSET OutcomeType]
    /\ PlanOf \in [Leaves -> Plans] /\ None \notin Values
    /\ None \notin OutcomeType /\ None \notin CandidateType /\ None \notin VerificationType

VARIABLES
    problem,        \* ProblemRecord.status
    active,         \* ProblemRecord.active_plan_id
    mode,           \* mode of each plan
    planner,        \* status of the planner job of each plan
    plan,           \* PlanHypothesis.status, "none" before there is one
    job,            \* evidence jobs and their results
    candidate,
    verification,
    workspace       \* analyses stored in the verifier's workspace of the problem

planning == <<active, mode, planner, plan>>
vars == <<problem, active, mode, planner, plan, job, candidate, verification, workspace>>

Init ==
    /\ problem = "queued" /\ active = None /\ workspace = {}
    /\ mode \in [Plans -> Modes]
    /\ planner = [p \in Plans |-> IF mode[p].rule = "allowed" THEN "queued" ELSE "waiting"]
    /\ plan = [p \in Plans |-> "none"]
    /\ job = [j \in Leaves |-> [status |-> "none", result |-> None]]
    /\ candidate = [c \in Candidates |-> None]
    /\ verification = [v \in Verifications |-> None]

\* _TRANSITIONS for a problem.
ProblemTransitions(s) ==
    CASE s = "queued" -> {"running"}
      [] s = "running" -> {"partial", "verifying", "review_required"}
      [] s = "partial" -> {"verifying", "review_required"}
      [] s = "verifying" -> {"review_required", "submission_ready"}
      [] s = "review_required" -> {"verifying", "submission_ready"}
      [] OTHER -> {}

AdvanceProblem(s) ==
    /\ s \in ProblemTransitions(problem)
    /\ problem' = s
    /\ UNCHANGED <<planning, job, candidate, verification, workspace>>

-----------------------------------------------------------------------------
(* Planner. *)

\* Mutant: data of the problem needs no approval of the operator.
MutPlannerAllowed(p) ==
    LET m == mode[p]
    IN  m.rule = "allowed" /\ m.planning /\ planner[p] = "queued" /\ m.adapter

\* PlannerService._policy_error: the adapter may be called.
PlannerAllowed(p) ==
    LET m == mode[p]
    IN  /\ m.rule = "allowed" /\ m.planning
        /\ m.problem_data => m.operator_approved
        /\ planner[p] = "queued"
        /\ m.adapter

\* PlannerService.execute: the plan is proposed, unless the adapter times out
\* or fails, or its answer breaks the contract, a budget or the guard, or
\* cannot be stored.  One step with the awaited adapter: the command holds its own
\* copy of the mode, and no record is read after the await.  A blocked command
\* returns no plan.
PlannerExecute(p, good) ==
    /\ plan[p] \in {"none", "rules_gated"} /\ PlannerAllowed(p)
    /\ planner' = [planner EXCEPT ![p] = IF good THEN "complete" ELSE "failed"]
    /\ plan' = IF good THEN [plan EXCEPT ![p] = "proposed"] ELSE plan
    /\ UNCHANGED <<problem, active, mode, job, candidate, verification, workspace>>

\* The operator selects another mode, or approves the use of problem data.
SelectMode(p, m) ==
    /\ planner[p] \in {"waiting", "queued"}
    /\ mode' = [mode EXCEPT ![p] = m]
    /\ planner' = [planner EXCEPT ![p] = IF m.rule = "allowed" THEN "queued" ELSE "waiting"]
    /\ UNCHANGED <<problem, active, plan, job, candidate, verification, workspace>>

\* The operator may keep a plan of a gated mode, without leaf jobs or an output.
GatePlan(p) ==
    /\ planner[p] = "waiting" /\ plan[p] = "none" /\ mode[p].rule = "rules_gated"
    /\ plan' = [plan EXCEPT ![p] = "rules_gated"]
    /\ UNCHANGED <<problem, active, mode, planner, job, candidate, verification, workspace>>

\* The operator decides; the leaf jobs of an approved plan are queued.
ApprovePlan(p) ==
    /\ plan[p] = "proposed" /\ \A q \in Plans : plan[q] # "approved"
    /\ plan' = [plan EXCEPT ![p] = "approved"] /\ active' = p
    /\ job' = [j \in Leaves |-> IF PlanOf[j] = p THEN [job[j] EXCEPT !.status = "queued"] ELSE job[j]]
    /\ UNCHANGED <<problem, mode, planner, candidate, verification, workspace>>

DismissPlan(p) ==
    /\ plan[p] \in {"proposed", "approved"}
    /\ plan' = [plan EXCEPT ![p] = IF @ = "proposed" THEN "rejected" ELSE "superseded"]
    /\ UNCHANGED <<problem, active, mode, planner, job, candidate, verification, workspace>>

-----------------------------------------------------------------------------
(* Evidence. *)

\* EvidenceWorkerService._policy_error, for the request that the leaf describes.
EvidenceAllowed(j) ==
    /\ problem \in {"queued", "running", "partial"}
    /\ active = PlanOf[j] /\ plan[PlanOf[j]] = "approved"

\* A job is handed to the worker, which fails it or calls its adapter.
StartEvidence(j) ==
    /\ job[j].status = "queued"
    /\ job' = [job EXCEPT ![j].status = IF EvidenceAllowed(j) THEN "running" ELSE "failed"]
    /\ UNCHANGED <<problem, planning, candidate, verification, workspace>>

\* _completed and _failed; the status is that of the analysis.
FinishEvidence(j, o) ==
    /\ job[j].status = "running"
    /\ job' = [job EXCEPT ![j] = [status |-> o.status, result |-> IF o.status = "failed" THEN None ELSE o]]
    /\ UNCHANGED <<problem, planning, candidate, verification, workspace>>

CancelJob(j) ==
    /\ job[j].status \in {"queued", "running"}
    /\ job' = [job EXCEPT ![j].status = "cancelled"]
    /\ UNCHANGED <<problem, planning, candidate, verification, workspace>>

-----------------------------------------------------------------------------
(* Candidates. *)

\* _common_policy_error
CommonPolicy(p) ==
    /\ problem \in {"running", "partial", "verifying", "review_required"}
    /\ active = p /\ plan[p] = "approved"

\* _evidence_run_policy_error and _scoped_analysis_maps: evidence that was
\* collected for the plan, no two runs with the same result ids.
EvidenceRuns(p, runs) ==
    /\ runs # {}
    /\ \A j \in runs : PlanOf[j] = p /\ job[j].status \in {"complete", "partial"}
    /\ \A i, j \in runs : TypeOf[i] = TypeOf[j] => i = j

\* _canonical_answer
Answer(results) == [j \in results |-> job[j].result.value]

\* CandidateBuilder.build
BuildCandidate(c, p, runs, results, uncertain) ==
    /\ candidate[c] = None
    /\ CommonPolicy(p) /\ EvidenceRuns(p, runs)
    /\ results # {} /\ results \subseteq runs
    /\ candidate' = [candidate EXCEPT ![c] =
            [status |-> "draft", plan |-> p, results |-> results, answer |-> Answer(results),
             uncertain |-> uncertain, refs |-> {}]]
    /\ UNCHANGED <<problem, planning, job, verification, workspace>>

Open(c) == candidate[c] # None /\ candidate[c].status \in {"draft", "review_required"}

\* The operator reworks a candidate that is under review, or rejects one.
ReworkCandidate(c, answer, uncertain) ==
    /\ Open(c)
    /\ candidate' = [candidate EXCEPT ![c].status = "draft", ![c].answer = answer,
                                      ![c].uncertain = uncertain]
    /\ UNCHANGED <<problem, planning, job, verification, workspace>>

RejectCandidate(c) ==
    /\ Open(c)
    /\ candidate' = [candidate EXCEPT ![c].status = "rejected"]
    /\ UNCHANGED <<problem, planning, job, verification, workspace>>

-----------------------------------------------------------------------------
(* Independent verification. *)

Nothing == [j \in {} |-> None]

\* IndependentVerifier.verify: the command with its candidate is fixed, then
\* the runs are replayed one after the other.
StartVerification(v, c, runs) ==
    /\ verification[v] = None /\ Open(c)
    /\ CommonPolicy(candidate[c].plan) /\ EvidenceRuns(candidate[c].plan, runs)
    /\ candidate[c].results \subseteq runs
    /\ verification' = [verification EXCEPT ![v] =
            [status |-> "running", candidate |-> c, results |-> candidate[c].results,
             answer |-> candidate[c].answer, runs |-> runs, replayed |-> Nothing]]
    /\ UNCHANGED <<problem, planning, job, candidate, workspace>>

Todo(v) == verification[v].runs \ DOMAIN verification[v].replayed

Replaying(v, j) ==
    /\ verification[v] # None /\ verification[v].status = "running"
    /\ j \in Todo(v)

\* Mutant: every verification has a workspace of its own.
MutFresh(j) == TRUE

\* The workspace is the problem's: a stored analysis is reused, and a second
\* one of its type cannot be stored beside it.
Fresh(j) == \A k \in workspace : TypeOf[k] # TypeOf[j]

\* A fresh replay finds a value, or not all the evidence of the result.
Replay(v, j, value) ==
    /\ Replaying(v, j) /\ Fresh(j)
    /\ workspace' = workspace \cup {j}
    /\ verification' = [verification EXCEPT ![v].replayed =
            [k \in DOMAIN @ \cup {j} |-> IF k = j THEN value ELSE @[k]]]
    /\ UNCHANGED <<problem, planning, job, candidate>>

\* The record that is kept: the checks that were made, not the command.
Closed(r, status, checked) == [r EXCEPT !.status = status, !.replayed = checked, !.answer = Nothing]

\* _incomplete: the adapter fails, before or after it stored the result, or
\* its answer is a reused one.
ReplayFails(v, j, stored) ==
    /\ Replaying(v, j)
    /\ Fresh(j) \/ ~stored
    /\ workspace' = IF stored THEN workspace \cup {j} ELSE workspace
    /\ verification' = [verification EXCEPT ![v] = Closed(@, "incomplete", Nothing)]
    /\ UNCHANGED <<problem, planning, job, candidate>>

\* _build_verification: the candidate's answer, the collected results and the
\* replayed ones are compared.
Verdict(v) ==
    LET r == verification[v]
    IN  IF \E j \in r.results : r.replayed[j] = None THEN "incomplete"
        ELSE IF \A j \in r.results :
                    /\ job[j].result.value = r.replayed[j]
                    /\ r.answer[j] = r.replayed[j]
        THEN "pass" ELSE "conflict"

FinishVerification(v) ==
    /\ verification[v] # None /\ verification[v].status = "running" /\ Todo(v) = {}
    /\ verification' = [verification EXCEPT ![v] = Closed(@, Verdict(v), @.replayed)]
    /\ UNCHANGED <<problem, planning, job, candidate, workspace>>

-----------------------------------------------------------------------------
(* CandidatePromotionGate. *)

\* Mutant: the status of the candidate is not looked at.
MutMayPromote(c, v, runs) ==
    /\ verification[v] # None /\ verification[v].candidate = c /\ verification[v].status # "running"
    /\ EvidenceRuns(candidate[c].plan, runs) /\ candidate[c].results \subseteq runs

\* _promotion_policy_error and the scope check; the plan and the problem are
\* not looked at again.
MayPromote(c, v, runs) ==
    /\ Open(c)
    /\ verification[v] # None /\ verification[v].candidate = c /\ verification[v].status # "running"
    /\ EvidenceRuns(candidate[c].plan, runs) /\ candidate[c].results \subseteq runs

\* Mutant: the gate trusts the answer of a candidate that was verified.
MutAllowsPromotion(c, v, runs) ==
    /\ verification[v].status = "pass"
    /\ \A j \in runs : job[j].status = "complete"
    /\ ~candidate[c].uncertain
    /\ runs \subseteq verification[v].runs
    /\ candidate[c].results \subseteq verification[v].results
    /\ \A j \in candidate[c].results : job[j].result.confirmed

\* _verification_allows_promotion
AllowsPromotion(c, v, runs) ==
    /\ verification[v].status = "pass"
    /\ \A j \in runs : job[j].status = "complete"
    /\ ~candidate[c].uncertain
    /\ runs \subseteq verification[v].runs
    /\ candidate[c].results \subseteq verification[v].results
    /\ candidate[c].answer = Answer(candidate[c].results)
    /\ \A j \in candidate[c].results : job[j].result.confirmed

Promote(c, v, runs) ==
    /\ MayPromote(c, v, runs)
    /\ candidate' = [candidate EXCEPT
            ![c].status = IF AllowsPromotion(c, v, runs) THEN "submission_ready" ELSE "review_required",
            ![c].refs = @ \cup {v}]
    /\ UNCHANGED <<problem, planning, job, verification, workspace>>
-----------------------------------------------------------------------------
Operator ==
    \/ \E s \in {"running", "partial", "verifying", "review_required", "submission_ready"} : AdvanceProblem(s)
    \/ \E p \in Plans : GatePlan(p) \/ ApprovePlan(p) \/ DismissPlan(p) \/ \E m \in Modes : SelectMode(p, m)
    \/ \E j \in Leaves : CancelJob(j)
    \/ \E c \in Candidates : RejectCandidate(c)
    \/ \E c \in Candidates, uncertain \in BOOLEAN : candidate[c] # None /\
            \E answer \in [candidate[c].results -> Values] : ReworkCandidate(c, answer, uncertain)

Workers ==
    \/ \E p \in Plans, good \in BOOLEAN : PlannerExecute(p, good)
    \/ \E j \in Leaves : StartEvidence(j) \/ \E o \in Outcomes[j] : FinishEvidence(j, o)
    \/ \E c \in Candidates, p \in Plans, runs \in SUBSET Leaves, uncertain \in BOOLEAN :
            \E results \in SUBSET runs : BuildCandidate(c, p, runs, results, uncertain)
    \/ \E v \in Verifications :
        \/ \E c \in Candidates, runs \in SUBSET Leaves : StartVerification(v, c, runs) \/ Promote(c, v, runs)
        \/ \E j \in Leaves, value \in Values \cup {None} : Replay(v, j, value)
        \/ \E j \in Leaves, stored \in BOOLEAN : ReplayFails(v, j, stored)
        \/ FinishVerification(v)

Next == Operator \/ Workers

Spec == Init /\ [][Next]_vars
-----------------------------------------------------------------------------
(* Properties. *)

Ready(c) == candidate[c] # None /\ candidate[c].status = "submission_ready"

Collected(j) == job[j].status \in {"complete", "partial"}

\* The records of the operations contract.
RecordTypes ==
    /\ plan \in [Plans -> {"none", "rules_gated", "proposed", "approved", "rejected", "superseded"}]
    /\ job \in [Leaves -> JobType]
    /\ candidate \in [Candidates -> CandidateType \cup {None}]
    /\ verification \in [Verifications -> VerificationType \cup {None}]
    /\ workspace \subseteq Leaves

\* Statuses and records are those of the contract, and a job has a result if
\* and only if evidence was collected.
TypeOK ==
    /\ problem \in {"queued", "running", "partial", "verifying", "review_required", "submission_ready"}
    /\ active \in Plans \cup {None} /\ mode \in [Plans -> Modes]
    /\ planner \in [Plans -> {"waiting", "queued", "complete", "failed"}]
    /\ RecordTypes
    /\ \A j \in Leaves : (job[j].result # None) <=> Collected(j)

\* A submission-ready candidate has, for every result it uses, complete
\* evidence that is a confirmed fact, and one verification of it, a pass, in
\* which a replay of that evidence found the very answer that is submitted,
\* however operators reworked the candidate while it was being verified
\* (REQ-OPS-VERIFY-001, 002, 003).
ReadyIsVerified ==
    \A c \in Candidates : Ready(c) =>
        /\ ~candidate[c].uncertain
        /\ \E v \in candidate[c].refs :
            /\ verification[v].status = "pass" /\ verification[v].candidate = c
            /\ \A j \in candidate[c].results :
                /\ job[j].status = "complete" /\ job[j].result.confirmed
                /\ j \in DOMAIN verification[v].replayed
                /\ candidate[c].answer[j] = verification[v].replayed[j]

\* A conflict is never outvoted (REQ-OPS-VERIFY-004): a replay that contradicted
\* the candidate's evidence excludes a later pass, because nothing is replayed
\* twice in the workspace of a problem.
ConflictIsFinal ==
    \A c \in Candidates : Ready(c) =>
        \A v \in Verifications : verification[v] # None /\ verification[v].status = "conflict" =>
            candidate[c].results \cap verification[v].results = {}

\* No evidence is collected for a plan that was not proposed under a mode the
\* rules and the operator allow and then approved by the operator.
OnlyAllowedPlansRun ==
    \A j \in Leaves : job[j].status \in {"running", "complete", "partial"} =>
        /\ plan[PlanOf[j]] \in {"approved", "superseded"}
        /\ LET m == mode[PlanOf[j]]
           IN  m.rule = "allowed" /\ (m.problem_data => m.operator_approved)

Decided(c) == candidate[c] # None /\ candidate[c].status \in {"rejected", "submission_ready"}

\* "A terminal status is not set back": jobs, plans and verifications that
\* ended, rejected candidates and ready ones keep their status, whatever late
\* outcome arrives.
TerminalStays ==
    [][/\ \A j \in Leaves : job[j].status \in {"complete", "partial", "failed", "cancelled"} => job'[j] = job[j]
       /\ \A p \in Plans : plan[p] \in {"rejected", "superseded"} => plan'[p] = plan[p]
       /\ \A c \in Candidates : Decided(c) => candidate'[c] = candidate[c]
       /\ \A v \in Verifications : verification[v] # None /\ verification[v].status # "running" =>
            verification'[v] = verification[v]]_vars
-----------------------------------------------------------------------------
(* What the contract asserts and the gate does not keep. *)

\* "submission-ready candidate requires passing verifications": a ready
\* candidate can be saved, because the document it is part of is accepted.
ReadyIsSavable ==
    \A c \in Candidates : Ready(c) => \A v \in candidate[c].refs : verification[v].status = "pass"
=============================================================================
