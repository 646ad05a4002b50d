SPECIFICATION Spec
CONSTANTS
    Plans = {"p1"}
    Modes <- AllowedMode
    Leaves = {"dex"}
    PlanOf <- MCPlanOf
    TypeOf <- MCTypeOf
    Candidates = {"c1"}
    Verifications = {v1, v2}
    Values = {"x"}
    Outcomes <- Complete
    None = None
INVARIANTS
    ReadyIsSavable
CHECK_DEADLOCK FALSE
