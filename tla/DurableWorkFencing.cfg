\* One submission and its checkpoint, two racing owners, three fences: every
\* interleaving of lease, attempt, effect, result, checkpoint and cancellation calls.
SPECIFICATION Spec
CONSTANTS
  Submission = {s1}
  Owner = {o1, o2}
  NoOwner = NoOwner
  Report = {r1}
  NoReport = NoReport
  Checkpoint = {c1}
  NoSubmission = NoSubmission
  TTL = 1
  AdmissionLimit = 1
  EffectInput = {"none", "pending", "committed", "failed", "unknown"}
  MaxToken = 3
  MaxVersion = 2
SYMMETRY Symmetry
INVARIANTS
  TypeOK
  AttemptsAreFenced
  ResolvedTogether
  AbandonedRunHasReceipt
PROPERTIES
  SupersededIsInert
  CheckpointMovesForward
  ImplementsFencing
