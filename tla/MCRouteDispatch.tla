--------------------------- MODULE MCRouteDispatch ---------------------------
(***************************************************************************)
(* Instances of RouteDispatch for TLC.                                     *)
(***************************************************************************)
EXTENDS RouteDispatch, TLC

CONSTANTS d1, d2, o1, o2

Symmetry == Permutations(Operators)
=============================================================================
