\* The actions without any fault: a preparation whose deadline passes while its
\* run is accepted.
SPECIFICATION Spec
CONSTANTS
  provision = provision
  cleanup = cleanup
  prepare = prepare
  preview = preview
  w1 = w1
  w2 = w2
  Jobs = {provision, cleanup, prepare, preview}
  Kind <- Kinds
  Parent <- Parents
  Workers = {w1, w2}
  NoWorker = NoWorker
  NoJob = NoJob
  Scenarios <- Managed
  Faults = {"crash", "store", "commit", "stall", "deny", "reject"}
  MaxFaults = 0
  MaxDeadlines = 2
INVARIANTS
  AcceptedKeepsReceipt
SYMMETRY AnyWorker
