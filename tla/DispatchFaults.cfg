\* Two dispatchers and the flow runs they create, without operators: crashes,
\* lost answers, expired leases and dead workers, two of them in a behaviour.
SPECIFICATION FairSpec
CONSTANTS
  d1 = d1
  d2 = d2
  o1 = o1
  o2 = o2
  NoOwner = NoOwner
  Dispatchers = {d1, d2}
  Operators = {}
  Scheduled = FALSE
  MaxGenerations = 2
  Faults = {"crash", "lost", "client", "expire", "die"}
  MaxFaults = 2
  MaxRuns = 3
  MaxToken = 5
  MaxRev = 0
INVARIANTS
  LinkedIsCurrent
PROPERTIES
  RearmedIsUnexecuted
  AcceptedIsDelivered
