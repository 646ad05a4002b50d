--------------------------- MODULE MCPipelineGates ---------------------------
(* A plan with leaves of two types.                                          *)
EXTENDS PipelineGates, TLC

MCPlanOf == [j \in Leaves |-> "p1"]
MCTypeOf == [j \in Leaves |-> j]

Mode(rule, planningOnly, data, approved, adapter) ==
    [rule |-> rule, planning |-> planningOnly, problem_data |-> data, operator_approved |-> approved,
     adapter |-> adapter]
MCModes ==
    {Mode("rules_gated", TRUE, TRUE, TRUE, TRUE), Mode("rule_restricted", TRUE, FALSE, FALSE, TRUE),
     Mode("allowed", FALSE, FALSE, FALSE, TRUE), Mode("allowed", TRUE, TRUE, FALSE, TRUE),
     Mode("allowed", TRUE, FALSE, FALSE, FALSE), Mode("allowed", TRUE, TRUE, TRUE, TRUE)}
AllowedMode == {Mode("allowed", TRUE, FALSE, FALSE, TRUE)}

Outcome(status, confirmed) == [status |-> status, value |-> "x", confirmed |-> confirmed]
MCOutcomes == [j \in Leaves |-> {Outcome("complete", TRUE)} \cup
    IF j = "dex" THEN {}
    ELSE {Outcome("complete", FALSE), Outcome("partial", TRUE), Outcome("failed", FALSE)}]
VerificationSymmetry == Permutations(Verifications)

Complete == [j \in Leaves |-> {Outcome("complete", TRUE)}]
=============================================================================
