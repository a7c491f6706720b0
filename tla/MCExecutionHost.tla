-------------------------- MODULE MCExecutionHost --------------------------
(* Owner identities and symmetry for the runs of ExecutionHost.            *)
EXTENDS ExecutionHost, TLC

\* Every host has an owner_id of its own.
OwnIdentity == [h \in Host |-> h]

Symmetry == Permutations(Host)
============================================================================
