\* A host crashes between its report and its effect receipt, the provider
\* confirms the commit, and the recovering host finds the stronger receipt.
SPECIFICATION Spec
CONSTANTS
  Submission = {s1}
  NoSubmission = NoSubmission
  Host = {h1}
  Owner = {h1}
  OwnerOf <- OwnIdentity
  NoOwner = NoOwner
  NoReport = NoReport
  TTL = 1
  Faults = {"crash", "restart", "confirm"}
  MaxFaults = 1
  MaxToken = 3
INVARIANTS
  ReceiptNeverBlocksClosing
