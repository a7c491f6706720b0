\* Three attempts with the same key and two faults of any kind between any two
\* of their calls.
SPECIFICATION Spec
CONSTANTS
  Attempt = {a1, a2, a3}
  NoClaim = NoClaim
  Faults = {"crash", "admit", "receipt", "durable", "read", "cancel", "release"}
  MaxFaults = 2
  MaxReservations = 3
SYMMETRY Symmetry
CHECK_DEADLOCK FALSE
INVARIANTS
  AcceptedIsCharged
  RecoveredIsFenced
  RowMatchesReceipt
