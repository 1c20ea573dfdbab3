SPECIFICATION Spec
CONSTANTS
    e1 = e1
    e2 = e2
    w1 = w1
    w2 = w2
    c1 = c1
    Episodes = {e1, e2}
    Workers = {w1, w2}
    Clients = {c1}
    None = None
    Lease = 1
    Skew <- EqualClocks
    MaxAttempts = 1
    MaxSteps = 1
    MaxFaults = 0
    MaxOpen = 2
SYMMETRY Symmetry
INVARIANTS
    ExperimentSynced
