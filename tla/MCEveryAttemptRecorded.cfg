SPECIFICATION Spec
CONSTANTS
    Callers = {"a"}
    Runs = {"run"}
    Requests = {"fixed"}
    Fixed = {"fixed"}
    RequestKind <- MCRequestKind
    Sources = {"main", "spare"}
    AdapterKind <- MCAdapterKind
    ProviderOf <- MCProviderOf
    SharedProvider = TRUE
    Policies <- TwoSources
    Replies = {"http_4xx", "ok"}
    Bodies = {"x"}
    MaxAttempts = 1
    MaxCalls = 1
    None = None
INVARIANT
    EveryAttemptRecorded
CHECK_DEADLOCK FALSE
