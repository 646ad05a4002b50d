------------------------ MODULE PipelineGatesProofs ------------------------
(***************************************************************************)
(* For any plans, modes, evidence jobs, candidates and verifications: what *)
(* becomes submission-ready was replayed independently with the same       *)
(* answer, no conflict is outvoted, and terminal statuses stay.            *)
(***************************************************************************)
EXTENDS PipelineGates, TLAPS

\* Jobs are queued by the approval of their plan, and collected jobs have a
\* result.
JobsFollowPlan ==
    \A j \in Leaves :
        /\ plan[PlanOf[j]] \notin {"approved", "superseded"} => job[j].status = "none"
        /\ (job[j].result # None) <=> Collected(j)

CandidateBacked(c) ==
    candidate[c] # None =>
        /\ candidate[c].results # {}
        /\ \A j \in candidate[c].results : Collected(j)

\* A verification is about the results of its candidate.
VerificationBacked(v) ==
    verification[v] # None =>
        /\ candidate[verification[v].candidate] # None
        /\ candidate[verification[v].candidate].results = verification[v].results
        /\ verification[v].results \subseteq verification[v].runs
        /\ \A j \in verification[v].runs : Collected(j)

\* A pass and a conflict rest on a replay of every result; a pass on equal ones.
VerdictBacked(v) ==
    verification[v] # None /\ verification[v].status \in {"pass", "conflict"} =>
        \A j \in verification[v].results :
            /\ j \in DOMAIN verification[v].replayed
            /\ verification[v].status = "pass" => verification[v].replayed[j] = job[j].result.value

\* What was replayed is in the workspace, and no two verifications share it.
ReplayedOnce ==
    \A v \in Verifications : verification[v] # None =>
        /\ DOMAIN verification[v].replayed \subseteq workspace
        /\ \A w \in Verifications : verification[w] # None /\ v # w =>
            DOMAIN verification[v].replayed \cap DOMAIN verification[w].replayed = {}

ReadyBacked(c) ==
    Ready(c) =>
        /\ ~candidate[c].uncertain
        /\ \E v \in candidate[c].refs :
            /\ verification[v] # None
            /\ verification[v].status = "pass" /\ verification[v].candidate = c
            /\ \A j \in candidate[c].results :
                /\ job[j].status = "complete" /\ job[j].result.confirmed
                /\ candidate[c].answer[j] = job[j].result.value

Backed ==
    /\ \A c \in Candidates : CandidateBacked(c) /\ ReadyBacked(c)
    /\ \A v \in Verifications : VerificationBacked(v) /\ VerdictBacked(v)
    /\ ReplayedOnce

IndInv == RecordTypes /\ JobsFollowPlan /\ Backed
-----------------------------------------------------------------------------
LEMMA NothingType == ASSUME NEW S PROVE Nothing \in Partial(S) /\ DOMAIN Nothing = {}
<1>1. Nothing \in [{} -> S] BY DEF Nothing
<1>2. {} \in SUBSET Leaves OBVIOUS
<1> QED BY <1>1, <1>2 DEF Partial, Nothing

LEMMA PartialType == ASSUME NEW S, NEW D \in SUBSET Leaves, NEW f \in [D -> S] PROVE f \in Partial(S)
BY DEF Partial

LEMMA InitInv == Init => IndInv
<1> SUFFICES ASSUME Init PROVE IndInv OBVIOUS
<1>1. RecordTypes BY DEF Init, RecordTypes, JobType
<1>2. JobsFollowPlan BY DEF Init, JobsFollowPlan, Collected
<1>3. Backed
  BY DEF Init, Backed, CandidateBacked, ReadyBacked, Ready, VerificationBacked, VerdictBacked, ReplayedOnce
<1> QED BY <1>1, <1>2, <1>3 DEF IndInv
-----------------------------------------------------------------------------
(* Steps that change neither candidates nor verifications. *)

\* Collected evidence is never changed, so what rests on it stays.
LEMMA JobStep ==
    ASSUME RecordTypes, Backed, RecordTypes',
           candidate' = candidate, verification' = verification, workspace' = workspace,
           \A j \in Leaves : Collected(j) => job'[j] = job[j]
    PROVE  Backed'
<1>1. \A c \in Candidates : candidate[c] # None => candidate[c] \in CandidateType BY DEF RecordTypes
<1>2. \A v \in Verifications : verification[v] # None => verification[v] \in VerificationType BY DEF RecordTypes
<1>3. ASSUME NEW c \in Candidates PROVE CandidateBacked(c)' /\ ReadyBacked(c)'
  <2>1. CandidateBacked(c) /\ ReadyBacked(c) BY DEF Backed
  <2>2. CandidateBacked(c)' BY <1>1, <2>1 DEF CandidateBacked, Collected, CandidateType
  <2>3. ReadyBacked(c)'
    BY <1>1, <2>1 DEF ReadyBacked, CandidateBacked, Ready, Collected, CandidateType
  <2> QED BY <2>2, <2>3
<1>4. ASSUME NEW v \in Verifications PROVE VerificationBacked(v)' /\ VerdictBacked(v)'
  <2>1. VerificationBacked(v) /\ VerdictBacked(v) BY DEF Backed
  <2>2. VerificationBacked(v)' BY <1>2, <2>1 DEF VerificationBacked, Collected, VerificationType
  <2>3. VerdictBacked(v)'
    BY <1>2, <2>1 DEF VerdictBacked, VerificationBacked, Collected, VerificationType
  <2> QED BY <2>2, <2>3
<1>5. ReplayedOnce' BY DEF Backed, ReplayedOnce
<1> QED BY <1>3, <1>4, <1>5 DEF Backed

EvidenceKept ==
    /\ plan' \in [Plans -> {"none", "rules_gated", "proposed", "approved", "rejected", "superseded"}] /\ job' \in [Leaves -> JobType] /\ JobsFollowPlan'
    /\ \A j \in Leaves : Collected(j) => job'[j] = job[j]

\* The planner, the evidence worker and the operator's decisions on plans and
\* jobs leave collected evidence alone.
LEMMA EvidenceSteps ==
    ASSUME IndInv,
           \/ \E p \in Plans : GatePlan(p) \/ ApprovePlan(p) \/ DismissPlan(p)
                                \/ \E good \in BOOLEAN : PlannerExecute(p, good)
           \/ \E j \in Leaves : StartEvidence(j) \/ CancelJob(j) \/ \E o \in Outcomes[j] : FinishEvidence(j, o)
    PROVE  IndInv'
<1> USE GatesAssumption
<1>0. RecordTypes /\ JobsFollowPlan /\ Backed BY DEF IndInv
<1>1. /\ candidate' = candidate /\ verification' = verification /\ workspace' = workspace
  BY DEF GatePlan, ApprovePlan, DismissPlan, PlannerExecute, StartEvidence, CancelJob, FinishEvidence
<1>2. EvidenceKept
  <2>1. ASSUME NEW p \in Plans, GatePlan(p) PROVE EvidenceKept
    BY <1>0, <2>1 DEF EvidenceKept, GatePlan, RecordTypes, JobsFollowPlan, Collected, JobType
  <2>2. ASSUME NEW p \in Plans, ApprovePlan(p) PROVE EvidenceKept
    BY <1>0, <2>2 DEF EvidenceKept, ApprovePlan, RecordTypes, JobsFollowPlan, Collected, JobType
  <2>3. ASSUME NEW p \in Plans, DismissPlan(p) PROVE EvidenceKept
    BY <1>0, <2>3 DEF EvidenceKept, DismissPlan, RecordTypes, JobsFollowPlan, Collected, JobType
  <2>4. ASSUME NEW p \in Plans, NEW good \in BOOLEAN, PlannerExecute(p, good) PROVE EvidenceKept
    BY <1>0, <2>4 DEF EvidenceKept, PlannerExecute, RecordTypes, JobsFollowPlan, Collected, JobType
  <2>5. ASSUME NEW j \in Leaves, StartEvidence(j) PROVE EvidenceKept
    BY <1>0, <2>5 DEF EvidenceKept, StartEvidence, planning, RecordTypes, JobsFollowPlan, Collected, JobType
  <2>6. ASSUME NEW j \in Leaves, CancelJob(j) PROVE EvidenceKept
    BY <1>0, <2>6 DEF EvidenceKept, CancelJob, planning, RecordTypes, JobsFollowPlan, Collected, JobType
  <2>7. ASSUME NEW j \in Leaves, NEW o \in Outcomes[j], FinishEvidence(j, o) PROVE EvidenceKept
    <3>1. o \in OutcomeType OBVIOUS
    <3>2. o.status \in {"complete", "partial", "failed"} BY <3>1 DEF OutcomeType
    <3> QED
      BY <1>0, <2>7, <3>1, <3>2 DEF EvidenceKept, FinishEvidence, planning, RecordTypes, JobsFollowPlan, Collected, JobType
  <2> QED BY <2>1, <2>2, <2>3, <2>4, <2>5, <2>6, <2>7
<1>3. RecordTypes' BY <1>0, <1>1, <1>2 DEF RecordTypes, EvidenceKept
<1>4. Backed' BY <1>0, <1>1, <1>2, <1>3, JobStep DEF EvidenceKept
<1> QED BY <1>2, <1>3, <1>4 DEF IndInv, EvidenceKept

\* Problem statuses, modes and stuttering touch none of these records.
LEMMA OtherSteps ==
    ASSUME IndInv,
           \/ \E s \in {"running", "partial", "verifying", "review_required", "submission_ready"} : AdvanceProblem(s)
           \/ \E p \in Plans, m \in Modes : SelectMode(p, m)
           \/ UNCHANGED vars
    PROVE  IndInv'
<1>1. /\ plan' = plan /\ job' = job /\ candidate' = candidate
      /\ verification' = verification /\ workspace' = workspace
  BY DEF AdvanceProblem, SelectMode, planning, vars
<1>2. RecordTypes' BY <1>1 DEF IndInv, RecordTypes
<1>3. JobsFollowPlan' BY <1>1 DEF IndInv, JobsFollowPlan, Collected
<1>4. Backed' BY <1>1, <1>2, JobStep DEF IndInv
<1> QED BY <1>2, <1>3, <1>4 DEF IndInv
-----------------------------------------------------------------------------
(* Steps on one candidate. *)

\* A candidate c is replaced by one with the same results; verifications of it
\* still fit, and the others are not touched.
LEMMA CandidateStep ==
    ASSUME IndInv, NEW c \in Candidates, NEW new \in CandidateType,
           plan' = plan, job' = job, verification' = verification, workspace' = workspace,
           candidate' = [candidate EXCEPT ![c] = new],
           new.results # {}, \A j \in new.results : Collected(j),
           candidate[c] # None => new.results = candidate[c].results,
           ReadyBacked(c)'
    PROVE  IndInv'
<1> USE GatesAssumption
<1>0. RecordTypes /\ JobsFollowPlan /\ Backed BY DEF IndInv
<1>1. RecordTypes' BY <1>0 DEF RecordTypes
<1>2. JobsFollowPlan' BY <1>0 DEF JobsFollowPlan, Collected
<1>3. candidate'[c] = new /\ \A d \in Candidates \ {c} : candidate'[d] = candidate[d] BY <1>0 DEF RecordTypes
<1>4. ASSUME NEW d \in Candidates PROVE CandidateBacked(d)' /\ ReadyBacked(d)'
  <2>1. CASE d = c BY <1>3, <2>1 DEF CandidateBacked, Collected
  <2>2. CASE d # c
    <3>1. CandidateBacked(d) /\ ReadyBacked(d) BY <1>0 DEF Backed
    <3> QED BY <1>3, <2>2, <3>1 DEF CandidateBacked, ReadyBacked, Ready, Collected
  <2> QED BY <2>1, <2>2
<1>5. ASSUME NEW v \in Verifications PROVE VerificationBacked(v)' /\ VerdictBacked(v)'
  <2>1. VerificationBacked(v) /\ VerdictBacked(v) BY <1>0 DEF Backed
  <2>2. verification[v] # None => verification[v].candidate \in Candidates
    BY <1>0 DEF RecordTypes, VerificationType
  <2>3. VerificationBacked(v)' BY <1>3, <2>1, <2>2 DEF VerificationBacked, Collected
  <2> QED BY <2>1, <2>3 DEF VerdictBacked
<1>6. ReplayedOnce' BY <1>0 DEF Backed, ReplayedOnce
<1> QED BY <1>1, <1>2, <1>4, <1>5, <1>6 DEF IndInv, Backed

LEMMA AnswerType ==
    ASSUME RecordTypes, JobsFollowPlan, NEW results \in SUBSET Leaves, \A j \in results : Collected(j)
    PROVE  Answer(results) \in [results -> Values]
<1>1. ASSUME NEW j \in results PROVE job[j].result.value \in Values
  <2>1. job[j].result \in OutcomeType BY DEF RecordTypes, JobType, JobsFollowPlan
  <2> QED BY <2>1 DEF OutcomeType
<1> QED BY <1>1 DEF Answer

\* CandidateBuilder.build.
LEMMA BuildStep ==
    ASSUME IndInv, NEW c \in Candidates, NEW p \in Plans, NEW runs \in SUBSET Leaves,
           NEW results \in SUBSET runs, NEW uncertain \in BOOLEAN,
           BuildCandidate(c, p, runs, results, uncertain)
    PROVE  IndInv'
<1> DEFINE new == [status |-> "draft", plan |-> p, results |-> results, answer |-> Answer(results),
                   uncertain |-> uncertain, refs |-> {}]
<1>0. RecordTypes /\ JobsFollowPlan BY DEF IndInv
<1>1. results \in SUBSET Leaves /\ \A j \in results : Collected(j)
  BY DEF BuildCandidate, EvidenceRuns, Collected
<1>2. Answer(results) \in Partial(Values) BY <1>0, <1>1, AnswerType, PartialType
<1>3. new \in CandidateType BY <1>1, <1>2 DEF CandidateType
<1>4. /\ plan' = plan /\ job' = job /\ verification' = verification /\ workspace' = workspace
      /\ candidate' = [candidate EXCEPT ![c] = new] /\ candidate[c] = None /\ new.results # {}
  BY DEF BuildCandidate, planning
<1>5. candidate'[c] = new BY <1>0, <1>4 DEF RecordTypes
<1>6. ReadyBacked(c)' BY <1>5 DEF ReadyBacked, Ready
<1> HIDE DEF new
<1>7. new.results = results BY DEF new
<1> QED BY <1>1, <1>3, <1>4, <1>6, <1>7, CandidateStep

\* The operator's rework or rejection.
LEMMA OperatorStep ==
    ASSUME IndInv, NEW c \in Candidates,
           \/ RejectCandidate(c)
           \/ candidate[c] # None /\ \E uncertain \in BOOLEAN, answer \in [candidate[c].results -> Values] :
                ReworkCandidate(c, answer, uncertain)
    PROVE  IndInv'
<1>0. RecordTypes /\ JobsFollowPlan /\ Backed BY DEF IndInv
<1>1. candidate[c] # None /\ candidate[c] \in CandidateType
  BY <1>0 DEF RejectCandidate, Open, RecordTypes
<1>2. candidate[c].results \in SUBSET Leaves /\ candidate[c].results # {}
      /\ \A j \in candidate[c].results : Collected(j)
  BY <1>0, <1>1 DEF CandidateType, Backed, CandidateBacked
<1>3. CASE RejectCandidate(c)
  <2> DEFINE new == [candidate[c] EXCEPT !.status = "rejected"]
  <2>1. new \in CandidateType /\ new.results = candidate[c].results /\ new.status = "rejected"
    BY <1>1 DEF CandidateType
  <2>2. /\ plan' = plan /\ job' = job /\ verification' = verification /\ workspace' = workspace
        /\ candidate' = [candidate EXCEPT ![c] = new]
    BY <1>3 DEF RejectCandidate, planning
  <2>3. candidate'[c] = new BY <1>0, <2>2 DEF RecordTypes
  <2>4. ReadyBacked(c)' BY <2>1, <2>3 DEF ReadyBacked, Ready
  <2> HIDE DEF new
  <2> QED BY <1>1, <1>2, <2>1, <2>2, <2>4, CandidateStep
<1>4. ASSUME NEW uncertain \in BOOLEAN, NEW answer \in [candidate[c].results -> Values],
             ReworkCandidate(c, answer, uncertain)
      PROVE  IndInv'
  <2> DEFINE new == [candidate[c] EXCEPT !.status = "draft", !.answer = answer, !.uncertain = uncertain]
  <2>1. answer \in Partial(Values) BY <1>2, PartialType
  <2>2. new \in CandidateType /\ new.results = candidate[c].results /\ new.status = "draft"
    BY <1>1, <2>1 DEF CandidateType
  <2>3. /\ plan' = plan /\ job' = job /\ verification' = verification /\ workspace' = workspace
        /\ candidate' = [candidate EXCEPT ![c] = new]
    BY <1>4 DEF ReworkCandidate, planning
  <2>4. candidate'[c] = new BY <1>0, <2>3 DEF RecordTypes
  <2>5. ReadyBacked(c)' BY <2>2, <2>4 DEF ReadyBacked, Ready
  <2> HIDE DEF new
  <2> QED BY <1>1, <1>2, <2>2, <2>3, <2>5, CandidateStep
<1> QED BY <1>3, <1>4

\* CandidatePromotionGate.promote: the gate compares the answer with the
\* evidence once more, so a pass for an earlier answer is not enough.
LEMMA PromoteStep ==
    ASSUME IndInv, NEW c \in Candidates, NEW v \in Verifications, NEW runs \in SUBSET Leaves,
           Promote(c, v, runs)
    PROVE  IndInv'
<1> DEFINE status == IF AllowsPromotion(c, v, runs) THEN "submission_ready" ELSE "review_required"
<1> DEFINE new == [candidate[c] EXCEPT !.status = status, !.refs = @ \cup {v}]
<1>0. RecordTypes /\ JobsFollowPlan /\ Backed BY DEF IndInv
<1>1. candidate[c] # None /\ candidate[c] \in CandidateType
  BY <1>0 DEF Promote, MayPromote, Open, RecordTypes
<1>2. /\ candidate[c].results \in SUBSET Leaves /\ candidate[c].results # {}
      /\ \A j \in candidate[c].results : Collected(j)
  BY <1>0, <1>1 DEF CandidateType, Backed, CandidateBacked
<1>3. new \in CandidateType BY <1>1 DEF CandidateType
<1>4. /\ new.status = status /\ new.results = candidate[c].results /\ v \in new.refs
      /\ new.answer = candidate[c].answer /\ new.uncertain = candidate[c].uncertain
  BY <1>1 DEF CandidateType
<1>5. /\ plan' = plan /\ job' = job /\ verification' = verification /\ workspace' = workspace
      /\ candidate' = [candidate EXCEPT ![c] = new]
  BY DEF Promote, planning
<1>6. candidate'[c] = new BY <1>0, <1>5 DEF RecordTypes
<1>7. ASSUME AllowsPromotion(c, v, runs)
      PROVE  /\ ~candidate[c].uncertain
             /\ verification[v] # None /\ verification[v].status = "pass" /\ verification[v].candidate = c
             /\ \A j \in candidate[c].results :
                /\ job[j].status = "complete" /\ job[j].result.confirmed
                /\ candidate[c].answer[j] = job[j].result.value
  BY <1>7 DEF AllowsPromotion, Promote, MayPromote, Answer
<1>8. ReadyBacked(c)'
  <2>1. CASE ~AllowsPromotion(c, v, runs) BY <1>4, <1>6, <2>1 DEF ReadyBacked, Ready
  <2>2. CASE AllowsPromotion(c, v, runs)
    <3> HIDE DEF new
    <3> QED BY <1>4, <1>5, <1>6, <1>7, <2>2 DEF ReadyBacked
  <2> QED BY <2>1, <2>2
<1> HIDE DEF new, status
<1> QED BY <1>1, <1>2, <1>3, <1>4, <1>5, <1>8, CandidateStep
-----------------------------------------------------------------------------
(* Steps on one verification. *)

\* A verification v that had no verdict is replaced by new; what was replayed
\* elsewhere is not replayed again.
LEMMA VerificationStep ==
    ASSUME IndInv, NEW v \in Verifications, NEW new \in VerificationType,
           verification[v] # None => verification[v].status = "running",
           plan' = plan, job' = job, candidate' = candidate, workspace' \subseteq Leaves,
           workspace \subseteq workspace',
           verification' = [verification EXCEPT ![v] = new],
           VerificationBacked(v)', VerdictBacked(v)',
           DOMAIN new.replayed \subseteq workspace',
           \A w \in Verifications \ {v} : verification[w] # None =>
                DOMAIN new.replayed \cap DOMAIN verification[w].replayed = {}
    PROVE  IndInv'
<1> USE GatesAssumption
<1>0. RecordTypes /\ JobsFollowPlan /\ Backed BY DEF IndInv
<1>1. RecordTypes' BY <1>0 DEF RecordTypes
<1>2. JobsFollowPlan' BY <1>0 DEF JobsFollowPlan, Collected
<1>3. verification'[v] = new /\ \A w \in Verifications \ {v} : verification'[w] = verification[w]
  BY <1>0 DEF RecordTypes
<1>4. ASSUME NEW c \in Candidates PROVE CandidateBacked(c)' /\ ReadyBacked(c)'
  <2>1. CandidateBacked(c) /\ ReadyBacked(c) BY <1>0 DEF Backed
  <2>2. CandidateBacked(c)' BY <2>1 DEF CandidateBacked, Collected
  <2>3. Ready(c) => candidate[c].refs \subseteq Verifications
    BY <1>0 DEF Ready, RecordTypes, CandidateType
  <2>4. ReadyBacked(c)' BY <1>3, <2>1, <2>3 DEF ReadyBacked, Ready
  <2> QED BY <2>2, <2>4
<1>5. ASSUME NEW w \in Verifications PROVE VerificationBacked(w)' /\ VerdictBacked(w)'
  <2>1. CASE w = v BY <2>1
  <2>2. CASE w # v
    <3>1. VerificationBacked(w) /\ VerdictBacked(w) BY <1>0 DEF Backed
    <3> QED BY <1>3, <2>2, <3>1 DEF VerificationBacked, VerdictBacked, Collected
  <2> QED BY <2>1, <2>2
<1>6. ReplayedOnce'
  <2>1. ReplayedOnce BY <1>0 DEF Backed
  <2> QED BY <1>3, <2>1 DEF ReplayedOnce
<1> QED BY <1>1, <1>2, <1>4, <1>5, <1>6 DEF IndInv, Backed

\* The command of a verification is accepted.
LEMMA StartStep ==
    ASSUME IndInv, NEW v \in Verifications, NEW c \in Candidates, NEW runs \in SUBSET Leaves,
           StartVerification(v, c, runs)
    PROVE  IndInv'
<1> DEFINE new == [status |-> "running", candidate |-> c, results |-> candidate[c].results,
                   answer |-> candidate[c].answer, runs |-> runs, replayed |-> Nothing]
<1>0. RecordTypes BY DEF IndInv
<1>1. candidate[c] # None /\ candidate[c] \in CandidateType
  BY <1>0 DEF StartVerification, Open, RecordTypes
<1>2. Nothing \in Partial(Values \cup {None}) /\ DOMAIN Nothing = {} BY NothingType
<1>3. new \in VerificationType BY <1>1, <1>2 DEF CandidateType, VerificationType
<1>4. /\ plan' = plan /\ job' = job /\ candidate' = candidate /\ workspace' = workspace
      /\ verification[v] = None /\ verification' = [verification EXCEPT ![v] = new]
      /\ candidate[c].results \subseteq runs /\ \A j \in runs : Collected(j)
  BY DEF StartVerification, EvidenceRuns, planning, Collected
<1>5. verification'[v] = new BY <1>0, <1>4 DEF RecordTypes
<1>6. VerificationBacked(v)' /\ VerdictBacked(v)'
  BY <1>1, <1>4, <1>5 DEF VerificationBacked, VerdictBacked, Collected
<1>7. DOMAIN new.replayed = {} BY <1>2
<1> HIDE DEF new
<1> QED BY <1>0, <1>3, <1>4, <1>6, <1>7, VerificationStep DEF RecordTypes

\* A fresh replay adds a leaf that no verification has replayed.
LEMMA ReplayStep ==
    ASSUME IndInv, NEW v \in Verifications, NEW j \in Leaves, NEW value \in Values \cup {None},
           Replay(v, j, value)
    PROVE  IndInv'
<1> DEFINE old == verification[v]
<1> DEFINE replayed == [k \in DOMAIN old.replayed \cup {j} |-> IF k = j THEN value ELSE old.replayed[k]]
<1> DEFINE new == [old EXCEPT !.replayed = replayed]
<1>0. RecordTypes /\ Backed BY DEF IndInv
<1>1. old # None /\ old \in VerificationType /\ old.status = "running" /\ j \in old.runs
  BY <1>0 DEF Replay, Replaying, Todo, RecordTypes
<1>2. PICK D \in SUBSET Leaves : old.replayed \in [D -> Values \cup {None}]
  BY <1>1 DEF VerificationType, Partial
<1>3. replayed \in [D \cup {j} -> Values \cup {None}] BY <1>2
<1>4. replayed \in Partial(Values \cup {None}) BY <1>3, PartialType
<1>5. /\ new \in VerificationType /\ new.replayed = replayed /\ new.status = "running"
      /\ new.candidate = old.candidate /\ new.results = old.results /\ new.runs = old.runs
  BY <1>1, <1>4 DEF VerificationType
<1>6. /\ plan' = plan /\ job' = job /\ candidate' = candidate /\ workspace' = workspace \cup {j}
      /\ verification' = [verification EXCEPT ![v] = new] /\ j \notin workspace
  BY DEF Replay, Fresh, planning
<1>7. verification'[v] = new BY <1>0, <1>6 DEF RecordTypes
<1>8. VerificationBacked(v)' /\ VerdictBacked(v)'
  <2>1. VerificationBacked(v) BY <1>0 DEF Backed
  <2> HIDE DEF new
  <2> QED BY <1>1, <1>5, <1>6, <1>7, <2>1 DEF VerificationBacked, VerdictBacked, Collected
<1>9. DOMAIN new.replayed = DOMAIN old.replayed \cup {j} BY <1>5
<1>10. /\ DOMAIN new.replayed \subseteq workspace'
       /\ \A w \in Verifications \ {v} : verification[w] # None =>
            DOMAIN new.replayed \cap DOMAIN verification[w].replayed = {}
  <2> HIDE DEF new
  <2> QED BY <1>0, <1>1, <1>6, <1>9 DEF Backed, ReplayedOnce
<1> HIDE DEF new
<1> QED BY <1>0, <1>1, <1>5, <1>6, <1>8, <1>10, VerificationStep DEF RecordTypes

\* IndependentVerifier._incomplete and the verdict of _build_verification.
LEMMA CloseStep ==
    ASSUME IndInv, NEW v \in Verifications,
           \/ FinishVerification(v)
           \/ \E j \in Leaves, stored \in BOOLEAN : ReplayFails(v, j, stored)
    PROVE  IndInv'
<1> DEFINE old == verification[v]
<1>0. RecordTypes /\ Backed BY DEF IndInv
<1>1. old # None /\ old \in VerificationType /\ old.status = "running"
  BY <1>0 DEF FinishVerification, ReplayFails, Replaying, RecordTypes
<1>2. VerificationBacked(v) BY <1>0 DEF Backed
<1>3. Nothing \in Partial(Values) /\ Nothing \in Partial(Values \cup {None}) /\ DOMAIN Nothing = {}
  BY NothingType
<1>4. ASSUME FinishVerification(v) PROVE IndInv'
  <2> DEFINE new == Closed(old, Verdict(v), old.replayed)
  <2>1. Verdict(v) \in {"pass", "conflict", "incomplete"} BY DEF Verdict
  <2>2. /\ new \in VerificationType /\ new.replayed = old.replayed /\ new.status = Verdict(v)
        /\ new.candidate = old.candidate /\ new.results = old.results /\ new.runs = old.runs
    BY <1>1, <1>3, <2>1 DEF Closed, VerificationType
  <2>3. /\ plan' = plan /\ job' = job /\ candidate' = candidate /\ workspace' = workspace
        /\ verification' = [verification EXCEPT ![v] = new] /\ Todo(v) = {}
    BY <1>4 DEF FinishVerification, planning
  <2> HIDE DEF new
  <2>4. verification'[v] = new BY <1>0, <2>3 DEF RecordTypes
  <2>5. VerificationBacked(v)' BY <1>1, <1>2, <2>2, <2>3, <2>4 DEF VerificationBacked, Collected
  <2>6. \A j \in old.results : j \in DOMAIN old.replayed
    BY <1>1, <1>2, <2>3 DEF Todo, VerificationBacked
  <2>7. Verdict(v) = "pass" => \A j \in old.results : old.replayed[j] = job[j].result.value
    BY DEF Verdict
  <2>8. VerdictBacked(v)' BY <2>2, <2>3, <2>4, <2>6, <2>7 DEF VerdictBacked
  <2>9. /\ DOMAIN new.replayed \subseteq workspace'
        /\ \A w \in Verifications \ {v} : verification[w] # None =>
             DOMAIN new.replayed \cap DOMAIN verification[w].replayed = {}
    BY <1>0, <1>1, <2>2, <2>3 DEF Backed, ReplayedOnce
  <2> QED BY <1>0, <1>1, <2>2, <2>3, <2>5, <2>8, <2>9, VerificationStep DEF RecordTypes
<1>5. ASSUME NEW j \in Leaves, NEW stored \in BOOLEAN, ReplayFails(v, j, stored) PROVE IndInv'
  <2> DEFINE new == Closed(old, "incomplete", Nothing)
  <2>1. /\ new \in VerificationType /\ new.replayed = Nothing /\ new.status = "incomplete"
        /\ new.candidate = old.candidate /\ new.results = old.results /\ new.runs = old.runs
    BY <1>1, <1>3 DEF Closed, VerificationType
  <2>2. /\ plan' = plan /\ job' = job /\ candidate' = candidate
        /\ workspace' = workspace \/ workspace' = workspace \cup {j}
        /\ verification' = [verification EXCEPT ![v] = new]
    BY <1>5 DEF ReplayFails, planning
  <2> HIDE DEF new
  <2>3. verification'[v] = new BY <1>0, <2>2 DEF RecordTypes
  <2>4. VerificationBacked(v)' /\ VerdictBacked(v)'
    BY <1>1, <1>2, <2>1, <2>2, <2>3 DEF VerificationBacked, VerdictBacked, Collected
  <2>5. workspace \subseteq workspace' /\ workspace' \subseteq Leaves BY <1>0, <2>2 DEF RecordTypes
  <2>6. DOMAIN new.replayed = {} BY <1>3, <2>1
  <2> QED BY <1>1, <2>1, <2>2, <2>4, <2>5, <2>6, VerificationStep
<1> QED BY <1>4, <1>5
-----------------------------------------------------------------------------
LEMMA NextInv == IndInv /\ [Next]_vars => IndInv'
<1> SUFFICES ASSUME IndInv, [Next]_vars PROVE IndInv' OBVIOUS
<1>1. CASE UNCHANGED vars BY <1>1, OtherSteps
<1>2. CASE Operator
  <2>1. CASE \E s \in {"running", "partial", "verifying", "review_required", "submission_ready"} : AdvanceProblem(s)
    BY <2>1, OtherSteps
  <2>2. CASE \E p \in Plans, m \in Modes : SelectMode(p, m) BY <2>2, OtherSteps
  <2>3. CASE \E p \in Plans : GatePlan(p) \/ ApprovePlan(p) \/ DismissPlan(p) BY <2>3, EvidenceSteps
  <2>4. CASE \E j \in Leaves : CancelJob(j) BY <2>4, EvidenceSteps
  <2>5. CASE \E c \in Candidates : RejectCandidate(c) BY <2>5, OperatorStep
  <2>6. CASE \E c \in Candidates, uncertain \in BOOLEAN : candidate[c] # None /\
                \E answer \in [candidate[c].results -> Values] : ReworkCandidate(c, answer, uncertain)
    BY <2>6, OperatorStep
  <2> QED BY <1>2, <2>1, <2>2, <2>3, <2>4, <2>5, <2>6 DEF Operator
<1>3. CASE Workers
  <2>1. CASE \E p \in Plans, good \in BOOLEAN : PlannerExecute(p, good)
    BY <2>1, EvidenceSteps
  <2>2. CASE \E j \in Leaves : StartEvidence(j) \/ \E o \in Outcomes[j] : FinishEvidence(j, o)
    BY <2>2, EvidenceSteps
  <2>3. CASE \E c \in Candidates, p \in Plans, runs \in SUBSET Leaves, uncertain \in BOOLEAN :
                \E results \in SUBSET runs : BuildCandidate(c, p, runs, results, uncertain)
    BY <2>3, BuildStep
  <2>4. CASE \E v \in Verifications, c \in Candidates, runs \in SUBSET Leaves :
                StartVerification(v, c, runs) \/ Promote(c, v, runs)
    BY <2>4, StartStep, PromoteStep
  <2>5. CASE \E v \in Verifications, j \in Leaves, value \in Values \cup {None} : Replay(v, j, value)
    BY <2>5, ReplayStep
  <2>6. CASE \E v \in Verifications :
                FinishVerification(v) \/ \E j \in Leaves, stored \in BOOLEAN : ReplayFails(v, j, stored)
    BY <2>6, CloseStep
  <2> QED BY <1>3, <2>1, <2>2, <2>3, <2>4, <2>5, <2>6 DEF Workers
<1> QED BY <1>1, <1>2, <1>3 DEF Next

\* The induction hypothesis holds in every reachable state.
THEOREM GatesInvariant == Spec => []IndInv
<1> QED BY InitInv, NextInv, PTL DEF Spec

\* The pass that made a candidate ready.
LEMMA PassOfReady ==
    ASSUME IndInv, NEW c \in Candidates, Ready(c)
    PROVE  /\ ~candidate[c].uncertain
           /\ \E v \in candidate[c].refs :
                /\ v \in Verifications /\ verification[v] # None
                /\ verification[v].status = "pass" /\ verification[v].candidate = c
                /\ \A j \in candidate[c].results :
                    /\ job[j].status = "complete" /\ job[j].result.confirmed
                    /\ j \in DOMAIN verification[v].replayed
                    /\ candidate[c].answer[j] = verification[v].replayed[j]
<1>1. ReadyBacked(c) /\ candidate[c].refs \subseteq Verifications
  BY DEF IndInv, Backed, RecordTypes, CandidateType, Ready
<1>2. PICK v \in candidate[c].refs :
            /\ verification[v] # None
            /\ verification[v].status = "pass" /\ verification[v].candidate = c
            /\ \A j \in candidate[c].results :
                /\ job[j].status = "complete" /\ job[j].result.confirmed
                /\ candidate[c].answer[j] = job[j].result.value
  BY <1>1 DEF ReadyBacked
<1>3. v \in Verifications /\ VerificationBacked(v) /\ VerdictBacked(v) BY <1>1 DEF IndInv, Backed
<1>4. \A j \in candidate[c].results :
        j \in DOMAIN verification[v].replayed /\ verification[v].replayed[j] = job[j].result.value
  BY <1>2, <1>3 DEF VerificationBacked, VerdictBacked
<1> QED BY <1>1, <1>2, <1>3, <1>4 DEF ReadyBacked

\* A ready candidate was verified: its answer was found by an independent
\* replay of complete, confirmed evidence, however records changed meanwhile.
THEOREM ReadyVerified == Spec => []ReadyIsVerified
<1>1. IndInv => ReadyIsVerified BY PassOfReady DEF ReadyIsVerified
<1> QED BY <1>1, GatesInvariant, PTL

\* No conflict about the evidence of a ready candidate exists: the pass and the
\* conflict would both have replayed it in the workspace of the problem.
THEOREM ConflictFinal == Spec => []ConflictIsFinal
<1>1. IndInv => ConflictIsFinal
  <2> SUFFICES ASSUME IndInv, NEW c \in Candidates, Ready(c), NEW w \in Verifications,
                      verification[w] # None, verification[w].status = "conflict",
                      NEW j \in candidate[c].results, j \in verification[w].results
               PROVE  FALSE
    BY DEF ConflictIsFinal
  <2>1. PICK v \in Verifications :
            /\ verification[v] # None /\ verification[v].status = "pass"
            /\ j \in DOMAIN verification[v].replayed
    BY PassOfReady
  <2>2. j \in DOMAIN verification[w].replayed BY DEF IndInv, Backed, VerdictBacked
  <2>3. v # w BY <2>1
  <2> QED BY <2>1, <2>2, <2>3 DEF IndInv, Backed, ReplayedOnce
<1> QED BY <1>1, GatesInvariant, PTL
-----------------------------------------------------------------------------
\* What a step does to records that are at their end.
KeepJobs == \A j \in Leaves : job[j].status \in {"complete", "partial", "failed", "cancelled"} => job'[j] = job[j]
KeepPlans == \A p \in Plans : plan[p] \in {"rejected", "superseded"} => plan'[p] = plan[p]
KeepCandidates == \A c \in Candidates : Decided(c) => candidate'[c] = candidate[c]
KeepVerifications ==
    \A v \in Verifications : verification[v] # None /\ verification[v].status # "running" =>
        verification'[v] = verification[v]

\* Terminal statuses of jobs, plans, candidates and verifications stay.
THEOREM TerminalStatusesStay == Spec => TerminalStays
<1> USE GatesAssumption
<1>1. IndInv /\ [Next]_vars => KeepJobs /\ KeepPlans /\ KeepCandidates /\ KeepVerifications
  <2> SUFFICES ASSUME IndInv, [Next]_vars PROVE KeepJobs /\ KeepPlans /\ KeepCandidates /\ KeepVerifications
    OBVIOUS
  <2>0. RecordTypes /\ JobsFollowPlan BY DEF IndInv
  <2>1. CASE job' = job /\ plan' = plan /\ candidate' = candidate /\ verification' = verification
    BY <2>1 DEF KeepJobs, KeepPlans, KeepCandidates, KeepVerifications
  <2>2. CASE UNCHANGED vars BY <2>1, <2>2 DEF vars
  <2>3. ASSUME NEW p \in Plans,
               \/ ApprovePlan(p) \/ DismissPlan(p) \/ GatePlan(p)
               \/ \E good \in BOOLEAN : PlannerExecute(p, good)
        PROVE  KeepJobs /\ KeepPlans /\ KeepCandidates /\ KeepVerifications
    <3>1. candidate' = candidate /\ verification' = verification
      BY <2>3 DEF ApprovePlan, DismissPlan, GatePlan, PlannerExecute
    <3>2. KeepJobs
      BY <2>0, <2>3 DEF ApprovePlan, DismissPlan, GatePlan, PlannerExecute, KeepJobs, RecordTypes, JobsFollowPlan
    <3>3. KeepPlans
      BY <2>0, <2>3 DEF ApprovePlan, DismissPlan, GatePlan, PlannerExecute, KeepPlans, RecordTypes
    <3> QED BY <3>1, <3>2, <3>3 DEF KeepCandidates, KeepVerifications
  <2>4. ASSUME NEW j \in Leaves, StartEvidence(j) \/ CancelJob(j) \/ \E o \in Outcomes[j] : FinishEvidence(j, o)
        PROVE  KeepJobs /\ KeepPlans /\ KeepCandidates /\ KeepVerifications
    <3>1. plan' = plan /\ candidate' = candidate /\ verification' = verification
      BY <2>4 DEF StartEvidence, CancelJob, FinishEvidence, planning
    <3>2. KeepJobs BY <2>0, <2>4 DEF StartEvidence, CancelJob, FinishEvidence, KeepJobs, RecordTypes
    <3> QED BY <3>1, <3>2 DEF KeepPlans, KeepCandidates, KeepVerifications
  <2>5. ASSUME NEW c \in Candidates,
               \/ RejectCandidate(c)
               \/ \E answer, uncertain : ReworkCandidate(c, answer, uncertain)
               \/ \E p, runs, results, uncertain : BuildCandidate(c, p, runs, results, uncertain)
               \/ \E v, runs : Promote(c, v, runs)
        PROVE  KeepJobs /\ KeepPlans /\ KeepCandidates /\ KeepVerifications
    <3>1. job' = job /\ plan' = plan /\ verification' = verification
      BY <2>5 DEF RejectCandidate, ReworkCandidate, BuildCandidate, Promote, planning
    <3>2. KeepCandidates
      BY <2>0, <2>5 DEF RejectCandidate, ReworkCandidate, BuildCandidate, Promote, MayPromote, Open, Decided,
                        KeepCandidates, RecordTypes
    <3> QED BY <3>1, <3>2 DEF KeepJobs, KeepPlans, KeepVerifications
  <2>6. ASSUME NEW v \in Verifications,
               \/ FinishVerification(v)
               \/ \E c, runs : StartVerification(v, c, runs)
               \/ \E j, value : Replay(v, j, value)
               \/ \E j, stored : ReplayFails(v, j, stored)
        PROVE  KeepJobs /\ KeepPlans /\ KeepCandidates /\ KeepVerifications
    <3>1. job' = job /\ plan' = plan /\ candidate' = candidate
      BY <2>6 DEF FinishVerification, StartVerification, Replay, ReplayFails, planning
    <3>2. KeepVerifications
      BY <2>0, <2>6 DEF FinishVerification, StartVerification, Replay, ReplayFails, Replaying, KeepVerifications, RecordTypes
    <3> QED BY <3>1, <3>2 DEF KeepJobs, KeepPlans, KeepCandidates
  <2>7. CASE (\E s : AdvanceProblem(s)) \/ (\E p, m : SelectMode(p, m))
    BY <2>1, <2>7 DEF AdvanceProblem, SelectMode, planning
  <2>8. CASE Operator BY <2>3, <2>4, <2>5, <2>7, <2>8 DEF Operator
  <2>9. CASE Workers BY <2>3, <2>4, <2>5, <2>6, <2>9 DEF Workers
  <2> QED BY <2>2, <2>8, <2>9 DEF Next
<1> QED BY <1>1, GatesInvariant, PTL DEF Spec, TerminalStays, KeepJobs, KeepPlans, KeepCandidates, KeepVerifications
-----------------------------------------------------------------------------
\* The other half of the state: what a plan that was proposed came from.
PlansAllowed ==
    /\ problem \in {"queued", "running", "partial", "verifying", "review_required", "submission_ready"}
    /\ active \in Plans \cup {None} /\ mode \in [Plans -> Modes]
    /\ planner \in [Plans -> {"waiting", "queued", "complete", "failed"}]
    /\ \A p \in Plans : plan[p] \notin {"none", "rules_gated"} =>
        /\ planner[p] = "complete" /\ mode[p].rule = "allowed"
        /\ mode[p].problem_data => mode[p].operator_approved

LEMMA PlansAllowedHolds == Spec => []PlansAllowed
<1> USE GatesAssumption
<1>1. Init => PlansAllowed BY DEF Init, PlansAllowed
<1>2. IndInv /\ PlansAllowed /\ [Next]_vars => PlansAllowed'
  <2> SUFFICES ASSUME RecordTypes, PlansAllowed, [Next]_vars PROVE PlansAllowed' BY DEF IndInv
  <2>1. CASE UNCHANGED <<problem, planning>> BY <2>1 DEF PlansAllowed, planning
  <2>2. CASE UNCHANGED vars BY <2>1, <2>2 DEF vars, planning
  <2>3. ASSUME NEW s \in {"running", "partial", "verifying", "review_required", "submission_ready"}, AdvanceProblem(s)
        PROVE  PlansAllowed'
    BY <2>3 DEF AdvanceProblem, PlansAllowed, planning
  <2>4. ASSUME NEW p \in Plans, NEW m \in Modes, SelectMode(p, m) PROVE PlansAllowed'
    BY <2>4 DEF SelectMode, PlansAllowed
  <2>5. ASSUME NEW p \in Plans, ApprovePlan(p) PROVE PlansAllowed'
    BY <2>5 DEF ApprovePlan, PlansAllowed, RecordTypes
  <2>6. ASSUME NEW p \in Plans, DismissPlan(p) PROVE PlansAllowed'
    BY <2>6 DEF DismissPlan, PlansAllowed, RecordTypes
  <2>7. ASSUME NEW p \in Plans, GatePlan(p) PROVE PlansAllowed'
    BY <2>7 DEF GatePlan, PlansAllowed, RecordTypes
  <2>8. ASSUME NEW p \in Plans, NEW good \in BOOLEAN, PlannerExecute(p, good) PROVE PlansAllowed'
    BY <2>8 DEF PlannerExecute, PlannerAllowed, PlansAllowed, RecordTypes
  <2>9. CASE Operator
    <3>1. CASE \/ \E j \in Leaves : CancelJob(j)
               \/ \E c \in Candidates : RejectCandidate(c) \/ \E answer, uncertain : ReworkCandidate(c, answer, uncertain)
      BY <2>1, <3>1 DEF CancelJob, RejectCandidate, ReworkCandidate
    <3> QED BY <2>3, <2>4, <2>5, <2>6, <2>7, <2>9, <3>1 DEF Operator
  <2>10. CASE Workers
    <3>1. CASE \/ \E j \in Leaves : StartEvidence(j) \/ \E o : FinishEvidence(j, o)
               \/ \E c, p, runs, results, uncertain : BuildCandidate(c, p, runs, results, uncertain)
               \/ \E v, c, runs : StartVerification(v, c, runs) \/ Promote(c, v, runs)
               \/ \E v, j, value : Replay(v, j, value)
               \/ \E v, j, stored : ReplayFails(v, j, stored)
               \/ \E v : FinishVerification(v)
      BY <2>1, <3>1 DEF StartEvidence, FinishEvidence, BuildCandidate, StartVerification, Promote, Replay, ReplayFails, FinishVerification
    <3> QED BY <2>8, <2>10, <3>1 DEF Workers
  <2> QED BY <2>2, <2>9, <2>10 DEF Next
<1> QED BY <1>1, <1>2, GatesInvariant, PTL DEF Spec

\* Evidence is collected only for plans that an allowed mode proposed and the
\* operator approved.
THEOREM PlansThatRun == Spec => []OnlyAllowedPlansRun
<1>1. IndInv /\ PlansAllowed => OnlyAllowedPlansRun
  <2> SUFFICES ASSUME IndInv, PlansAllowed, NEW j \in Leaves,
                      job[j].status \in {"running", "complete", "partial"}
               PROVE  /\ plan[PlanOf[j]] \in {"approved", "superseded"}
                      /\ mode[PlanOf[j]].rule = "allowed"
                      /\ mode[PlanOf[j]].problem_data => mode[PlanOf[j]].operator_approved
    BY DEF OnlyAllowedPlansRun
  <2>1. PlanOf[j] \in Plans /\ plan[PlanOf[j]] \in {"approved", "superseded"}
    BY GatesAssumption DEF IndInv, JobsFollowPlan
  <2> QED BY <2>1 DEF PlansAllowed
<1> QED BY <1>1, GatesInvariant, PlansAllowedHolds, PTL

\* The type invariant.
THEOREM GatesTypes == Spec => []TypeOK
<1>1. IndInv /\ PlansAllowed => TypeOK BY DEF IndInv, PlansAllowed, JobsFollowPlan, TypeOK
<1> QED BY <1>1, GatesInvariant, PlansAllowedHolds, PTL
=============================================================================
