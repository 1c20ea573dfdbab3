SPECIFICATION LaterSpec
CONSTANTS
    a1 = a1
    k1 = k1
    k2 = k2
    k3 = k3
    k4 = k4
    k5 = k5
    c1 = c1
    c2 = c2
    s1 = s1
    s2 = s2
    x1 = x1
    p1 = p1
    p2 = p2
    i1 = i1
    i2 = i2
    Actors = {a1}
    Keys = {k1, k2, k3, k4, k5}
    Cases = {c1, c2}
    Snapshots = {s1, s2}
    Contents = {x1}
    Plans = {p1, p2}
    ValidPlans = {p1, p2}
    Schedules = {i1, i2}
    ScheduleOf <- TwoIdentities
    None = None
    MaxInFlight = 2
SYMMETRY FreeKeys
INVARIANTS
    PublishedAsApproved
    ReadsCanBeActedOn
    ReceiptPerEffect
PROPERTIES
    DecidedOnUntouchedBasis
    CommandTriggersNeverFire
    ImplementsPublication
