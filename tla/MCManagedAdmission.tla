------------------------- MODULE MCManagedAdmission -------------------------
(* Symmetry for the runs of ManagedAdmission.                              *)
EXTENDS ManagedAdmission, TLC

Symmetry == Permutations(Attempt)
============================================================================
