SPECIFICATION Spec
CONSTANTS
    Plans = {"p1"}
    Modes <- MCModes
    Leaves = {"dex", "freeze"}
    PlanOf <- MCPlanOf
    TypeOf <- MCTypeOf
    Candidates = {"c1"}
    Verifications = {v1, v2}
    Values = {"x", "y"}
    Outcomes <- MCOutcomes
    None = None
SYMMETRY VerificationSymmetry
INVARIANTS
    ReadyIsVerified
    ConflictIsFinal
    OnlyAllowedPlansRun
PROPERTIES
    TerminalStays
CHECK_DEADLOCK FALSE
