SPECIFICATION FairSpec
CONSTANTS
    s1 = s1
    s2 = s2
    g1 = g1
    NoOwner = NoOwner
    Schedulers = {s1}
    Triggers = {g1}
    Owners = {s1, g1}
    Minute = 1
    Specs <- LivenessSpecs
    ManualTimes = {1}
    MaxTime = 1
    MaxRev = 1
    MaxGen = 1
    MaxLeader = 1
    Faults = {}
    MaxFaults = 0
PROPERTIES
    RecurrenceContinues
