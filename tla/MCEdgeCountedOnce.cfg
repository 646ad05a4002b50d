CONSTANTS
    UINT256_MAX = 7
    Missing = Missing
    Inputs <- MCInputs
SPECIFICATION Spec
INVARIANT EdgeCountedOnce
CHECK_DEADLOCK FALSE
