\* Two workers on the actions of one client, whose leases may run out before or
\* after the deadlines, with a fault between any calls.
SPECIFICATION Spec
CONSTANTS
  provision = provision
  cleanup = cleanup
  prepare = prepare
  preview = preview
  w1 = w1
  w2 = w2
  Jobs = {provision, cleanup, prepare, preview}
  Kind <- Kinds
  Parent <- Parents
  Workers = {w1, w2}
  NoWorker = NoWorker
  NoJob = NoJob
  Scenarios <- AnyLease
  Faults = {"crash", "store", "commit", "stall", "deny", "reject"}
  MaxFaults = 1
  MaxDeadlines = 2
INVARIANTS
  CleanedIsGone
  ReceiptsAreTrue
  UnrecordedIsRecoverable
  CancelledNeverAccepted
SYMMETRY AnyWorker
