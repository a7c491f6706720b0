\* Two hosts, one submission, one fault: a crash for good, a stall past the
\* lease, a quota or report store failure, or a run that raises.  Everything
\* accepted is still resolved.  (ExecutionHostRenewal.cfg has the outage.)
SPECIFICATION FairSpec
CONSTANTS
  Submission = {s1}
  NoSubmission = NoSubmission
  Host = {h1, h2}
  Owner = {h1, h2}
  OwnerOf <- OwnIdentity
  NoOwner = NoOwner
  NoReport = NoReport
  TTL = 1
  Faults = {"crash", "stall", "quota", "report", "runner"}
  MaxFaults = 1
  MaxToken = 3
PROPERTIES
  AcceptedIsResolved
  CancelTakesEffect
  MirroredIsDelivered
