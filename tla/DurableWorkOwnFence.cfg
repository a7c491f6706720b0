\* One owner, two fences, any caller: a terminal write may come from an attempt
\* of an earlier fence, presented with the token of the present lease.
SPECIFICATION Spec
CONSTANTS
  Submission = {s1}
  Owner = {o1}
  NoOwner = NoOwner
  Report = {}
  NoReport = NoReport
  Checkpoint = {}
  NoSubmission = NoSubmission
  TTL = 1
  AdmissionLimit = 1
  EffectInput = {}
  MaxToken = 2
  MaxVersion = 0
PROPERTIES
  TerminalWriteByOwnFence
