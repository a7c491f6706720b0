SPECIFICATION FairSpec
CONSTANTS
    s1 = s1
    s2 = s2
    g1 = g1
    NoOwner = NoOwner
    Schedulers = {s1, s2}
    Triggers = {}
    Owners = {s1, s2}
    Minute = 1
    Specs <- LivenessSpecs
    ManualTimes = {}
    MaxTime = 2
    MaxRev = 1
    MaxGen = 1
    MaxLeader = 2
    Faults = {"crash", "uncertain", "expire"}
    MaxFaults = 1
PROPERTIES
    NothingSkipped
    AcceptedSettles
    RecurrenceContinues
