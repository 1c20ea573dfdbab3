SPECIFICATION FairSpec
CONSTANTS
    e1 = e1
    e2 = e2
    w1 = w1
    w2 = w2
    c1 = c1
    Episodes = {e1}
    Workers = {w1, w2}
    Clients = {c1}
    None = None
    Lease = 1
    Skew <- SkewedClocks
    MaxAttempts = 2
    MaxSteps = 2
    MaxFaults = 2
    MaxOpen = 2
INVARIANTS
    ResultsAreWhole
    AttemptsAreExclusive
    ExperimentSynced
PROPERTIES
    OldAttemptsFrozen
    RunningEnds
    QueuedIsTaken
    StopEnds
