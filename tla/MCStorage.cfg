SPECIFICATION MCSpec
CONSTANTS
    Callers = {"a", "b"}
    Runs = {"run"}
    Requests = {"fixed", "latest"}
    Fixed = {"fixed"}
    RequestKind <- MCRequestKind
    Sources = {"main", "spare", "rest"}
    AdapterKind <- MCAdapterKind
    ProviderOf <- MCProviderOf
    SharedProvider = FALSE
    Policies <- MCPolicies
    Replies = {"timeout", "http_4xx", "ok"}
    Bodies = {"x", "y"}
    MaxAttempts = 2
    MaxCalls = 2
    None = None
    NoState = NoState
    Workers = {"a", "b", "c"}
    Stages = {"collect", "decode"}
    States = {"x", "y"}
    MaxStarts = 4
INVARIANTS
    CacheBacked
    PolicyObeyed
    AttemptLog
    RetryDiscipline
    RevisionsInOrder
    NeverOlder
    StageNotRepeated
PROPERTIES
    CacheIsImmutable
CHECK_DEADLOCK FALSE
