\* Two submissions under an admission limit of one, sharing one checkpoint:
\* who may write it, in which order, across fences and submissions.
SPECIFICATION Spec
CONSTANTS
  Submission = {s1, s2}
  Owner = {o1, o2}
  NoOwner = NoOwner
  Report = {}
  NoReport = NoReport
  Checkpoint = {c1}
  NoSubmission = NoSubmission
  TTL = 1
  AdmissionLimit = 1
  EffectInput = {}
  MaxToken = 2
  MaxVersion = 3
SYMMETRY SubmissionSymmetry
INVARIANTS
  AdmissionRespected
PROPERTIES
  CheckpointMovesForward
