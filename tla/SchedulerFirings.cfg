SPECIFICATION Spec
CONSTANTS
    s1 = s1
    s2 = s2
    g1 = g1
    NoOwner = NoOwner
    Schedulers = {s1}
    Triggers = {g1}
    Owners = {s1, g1}
    Minute = 1
    Specs <- FiringSpecs
    ManualTimes = {1}
    MaxTime = 2
    MaxRev = 2
    MaxGen = 2
    MaxLeader = 1
    Faults = {"crash", "uncertain", "reject", "expire", "admin", "drain"}
    MaxFaults = 2
INVARIANTS
    FailedIsFenced
    UnlinkedIsCurrent
    OneInFlight
PROPERTIES
    SettledIsFinal
CHECK_DEADLOCK FALSE
