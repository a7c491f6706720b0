\* Two scopes of unequal weight, one admission key in each, one claimant and
\* callers without a claim, up to two reservations of each key.
SPECIFICATION Spec
CONSTANTS
  sA = sA
  sB = sB
  Scope = {sA, sB}
  ScopeOrder <- TwoScopes
  Weight <- FirstTwice
  Key = {k1}
  Claim = {c1}
  NoClaim = NoClaim
  Units = {1, 2}
  Limit = 3
  MaxReservations = 2
INVARIANTS
  UsageIsHeld
  ChargedIsOwned
  WithinLimit
PROPERTIES
  IdleOwnerStarvesNobody
