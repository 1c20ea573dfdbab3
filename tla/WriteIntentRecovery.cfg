SPECIFICATION Spec
CONSTANTS
    u = u
    v = v
    Users <- TwoUsers
    Nobody = Nobody
    Hooks <- OnlyJournal
    MaxKeys = 1
    MaxTries = 2
    MaxSwitches = 0
    MaxDenials = 1
INVARIANTS
    UnknownOutcomesRecoverable
CHECK_DEADLOCK FALSE
