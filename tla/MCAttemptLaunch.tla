--------------------------- MODULE MCAttemptLaunch ---------------------------
(* AttemptLaunch for TLC. *)
EXTENDS AttemptLaunch, TLC

\* The operations differ in nothing but their name.
ProcSymmetry == Permutations(Proc)
=============================================================================
