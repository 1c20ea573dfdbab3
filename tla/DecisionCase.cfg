SPECIFICATION FairSpec
CONSTANTS
    Cases = {c1}
    Workers = {w1, w2}
    NoCase = NoCase
    LeaseTicks = 2
    MaxAttempts = 2
    MaxRevision = 6
    MaxFaults = 2
INVARIANTS
    RowConsistent
    AuditTrail
    StaleClaimFenced
PROPERTIES
    TriggerNeverFires
    LeaseHonoured
    LiveOwnerIsHeard
    ImplementsLeasedJob
    ClaimEnds
    PendingIsClaimed
    StopCompletes
