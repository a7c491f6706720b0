--------------------------- MODULE MCActionWorker ---------------------------
(***************************************************************************)
(* Instances of ActionWorker for TLC: a table that is provisioned and      *)
(* cleaned up, the preparation of a run, or a preview.                     *)
(***************************************************************************)
EXTENDS ActionWorker, TLC

CONSTANTS provision, cleanup, prepare, preview, w1, w2

Kinds == [j \in Jobs |-> CASE j = provision -> "provision"
                           [] j = cleanup -> "cleanup"
                           [] j = prepare -> "prepare"
                           [] j = preview -> "preview"]

Parents == [j \in Jobs |-> IF j = cleanup THEN provision ELSE NoJob]

\* The table under the managed configuration; the other actions also under
\* leases that run out before the deadline.
Managed == {[jobs |-> {provision, cleanup}, covers |-> TRUE],
            [jobs |-> {prepare}, covers |-> FALSE],
            [jobs |-> {preview}, covers |-> FALSE]}

AnyLease == [jobs : {{provision, cleanup}, {prepare}, {preview}}, covers : BOOLEAN]

AnyWorker == Permutations(Workers)
=============================================================================
