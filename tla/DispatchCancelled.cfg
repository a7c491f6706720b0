\* The answer of one create is lost while its submission is being cancelled.
SPECIFICATION FairSpec
CONSTANTS
  d1 = d1
  d2 = d2
  o1 = o1
  o2 = o2
  NoOwner = NoOwner
  Dispatchers = {d1}
  Operators = {}
  Scheduled = FALSE
  MaxGenerations = 1
  Faults = {"lost"}
  MaxFaults = 1
  MaxRuns = 3
  MaxToken = 4
  MaxRev = 0
PROPERTIES
  CancelledIsResolved
