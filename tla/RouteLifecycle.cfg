\* Two operators who retire, reactivate and clean up the route against one
\* dispatcher, its flow runs and its clients.
SPECIFICATION Spec
CONSTANTS
  d1 = d1
  d2 = d2
  o1 = o1
  o2 = o2
  NoOwner = NoOwner
  Dispatchers = {d1}
  Operators = {o1, o2}
  Scheduled = TRUE
  MaxGenerations = 1
  Faults = {"crash", "delete"}
  MaxFaults = 1
  MaxRuns = 1
  MaxToken = 2
  MaxRev = 5
SYMMETRY Symmetry
INVARIANTS
  RetiredIsQuiet
  DeletedIsUnused
