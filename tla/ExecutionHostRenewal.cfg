\* One polling host whose lease monitor meets one store outage: the next tick
\* renews the live lease of its own unfinished attempt instead of recovering it.
SPECIFICATION FairSpec
CONSTANTS
  Submission = {s1}
  NoSubmission = NoSubmission
  Host = {h1}
  Owner = {h1}
  OwnerOf <- OwnIdentity
  NoOwner = NoOwner
  NoReport = NoReport
  TTL = 2
  Faults = {"outage"}
  MaxFaults = 1
  MaxToken = 3
PROPERTIES
  AcceptedIsResolved
