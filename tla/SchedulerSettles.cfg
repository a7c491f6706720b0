SPECIFICATION FairSpec
CONSTANTS
    s1 = s1
    s2 = s2
    g1 = g1
    NoOwner = NoOwner
    Schedulers = {s1}
    Triggers = {}
    Owners = {s1}
    Minute = 1
    Specs <- LivenessSpecs
    ManualTimes = {}
    MaxTime = 1
    MaxRev = 1
    MaxGen = 1
    MaxLeader = 1
    Faults = {"uncertain", "reject"}
    MaxFaults = 2
PROPERTIES
    AcceptedSettles
