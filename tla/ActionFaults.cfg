\* Two workers on the actions of one client, with a fault between any calls.
SPECIFICATION FairSpec
CONSTANTS
  provision = provision
  cleanup = cleanup
  prepare = prepare
  preview = preview
  w1 = w1
  w2 = w2
  Jobs = {provision, cleanup, prepare, preview}
  Kind <- Kinds
  Parent <- Parents
  Workers = {w1, w2}
  NoWorker = NoWorker
  NoJob = NoJob
  Scenarios <- Managed
  Faults = {"crash", "store", "commit", "stall", "deny", "reject"}
  MaxFaults = 1
  MaxDeadlines = 2
INVARIANTS
  CleanedIsGone
  ReceiptsAreTrue
  UnrecordedIsRecoverable
  CancelledNeverAccepted
PROPERTIES
  AcceptedEnds
