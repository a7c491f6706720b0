\* Two overlapping attempts with the same key, none of which fails, though
\* each may be refused.
SPECIFICATION Spec
CONSTANTS
  Attempt = {a1, a2}
  NoClaim = NoClaim
  Faults = {}
  MaxFaults = 0
  MaxReservations = 3
SYMMETRY Symmetry
CHECK_DEADLOCK FALSE
INVARIANT AcceptedInputsAreLeased
