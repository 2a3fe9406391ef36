--------------------------- MODULE MCRunLifecycle ---------------------------
(* Small instances of RunLifecycle for TLC. *)
EXTENDS RunLifecycle, TLC

CONSTANTS r1, r2, p1, p2, d1, d2

\* Only for safety.
Interchangeable == Permutations(Runs) \cup Permutations(Pipelines) \cup Permutations(Deciders)
=============================================================================
