SPECIFICATION Spec
CONSTANTS
    Operators = {a, b}
    c1 = c1
    c2 = c2
    c3 = c3
    q1 = q1
    q2 = q2
    Problems = {q1, q2}
    Candidates = {c1, c2, c3}
    ProblemOf <- MCProblemOf
    Responses = {correct, incorrect}
    Notes = {n}
    Times = {1, 2}
    Created = 1
    Bundles <- MCBundles
    None = None
SYMMETRY MCSymmetry
INVARIANTS
    TablesAgree
    DatabaseLoads
    ToldIsStored
PROPERTIES
    ImplementsLog
