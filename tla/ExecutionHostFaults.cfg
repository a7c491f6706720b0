\* Two hosts with identities of their own, one submission, and two faults of any
\* kind, between any two calls of either host.
SPECIFICATION Spec
CONSTANTS
  Submission = {s1}
  NoSubmission = NoSubmission
  Host = {h1, h2}
  Owner = {h1, h2}
  OwnerOf <- OwnIdentity
  NoOwner = NoOwner
  NoReport = NoReport
  TTL = 1
  Faults = {"crash", "restart", "stall", "outage", "quota", "report", "runner", "event", "confirm"}
  MaxFaults = 2
  MaxToken = 3
SYMMETRY Symmetry
INVARIANTS
  EtlAtMostOnce
  EffectsAreHonest
  DeliveredIsStored
  NoQuotaLeak
  QuotaCoversRun
PROPERTIES
  ImplementsOnce
