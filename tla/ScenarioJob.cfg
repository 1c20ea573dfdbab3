SPECIFICATION FairSpec
CONSTANTS
    j1 = j1
    j2 = j2
    f1 = f1
    Jobs = {j1, j2}
    Workers = {w1, w2}
    None = None
    FactoryOf <- OneFactory
    SourceOf <- NoSources
    Lease = 1
    Deadline = 2
    MaxAttempts = 2
    MaxFaults = 1
INVARIANTS
    QueueSafe
PROPERTIES
    ImplementsLeasedJob
    JobEnds
