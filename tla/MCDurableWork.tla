--------------------------- MODULE MCDurableWork ---------------------------
(* Model values and symmetry for the runs of DurableWork.                  *)
EXTENDS DurableWork, TLC

Symmetry == Permutations(Owner) \cup Permutations(Report)

\* Submissions are interchangeable as long as no checkpoint names one.
SubmissionSymmetry == Permutations(Submission) \cup Permutations(Owner)
============================================================================
