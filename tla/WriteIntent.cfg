SPECIFICATION Spec
CONSTANTS
    u = u
    v = v
    Users <- TwoUsers
    Nobody = Nobody
    Hooks <- AllHooks
    MaxKeys = 2
    MaxTries = 2
    MaxSwitches = 2
    MaxDenials = 1
INVARIANTS
    VerdictsAreTrue
    NoSilentRepeat
SYMMETRY People
CHECK_DEADLOCK FALSE
