SPECIFICATION FairSpec
CONSTANTS
    Jobs <- MCJobs
    Problems = {"p1", "p2", "p3"}
    Roles = {"planner", "evidence", "verifier"}
    Types = {"planner", "evidence", "verifier"}
    Keys = {"k1", "k2", "k3", "k4"}
    Batches <- MCBatches
    MaxActiveProblems = 2
    MaxActiveJobs = 3
    MaxActiveJobsPerProblem = 2
    MaxPlannerJobs = 1
    MaxVerifierJobs = 1
INVARIANTS
    WithinLimits
    DependenciesFirst
    NoJobLost
    FailureIsolation
    DuplicatesShareOneRun
    RetryBudget
    WorkConserving
PROPERTIES
    PriorityRespected
    Termination
