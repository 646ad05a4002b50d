CONSTANTS
    UINT256_MAX = 7
    Missing = Missing
    Inputs <- MCInputs
SPECIFICATION Spec
INVARIANTS
    PathDecided
    FaultsShow
    ReportIsWitnessed
    AmountsAddUp
    AnswersAgree
    AuthorityIsBacked
    OrderOnlyBreaksTies
CHECK_DEADLOCK FALSE
