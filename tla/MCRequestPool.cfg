SPECIFICATION FairSpec
CONSTANTS
    Callers = {"a", "b"}
    Keys = {"k1", "k2"}
    Capabilities = {"archive_state"}
    CapabilityOf <- MCCapabilityOf
    Limit <- MCLimit
    Tasks <- MCTasks
INVARIANTS
    OneSourceCall
PROPERTIES
    FreshAfterWait
    CallsSettle
CHECK_DEADLOCK FALSE
