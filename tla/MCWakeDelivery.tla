--------------------------- MODULE MCWakeDelivery ---------------------------
(***************************************************************************)
(* WakeDelivery for TLC.  Runs differ only in what they are doing, and     *)
(* models only in their name, so the safety configurations explore them up *)
(* to renaming.                                                            *)
(***************************************************************************)
EXTENDS WakeDelivery, TLC

RunSymmetry == Permutations(Run)
RunAndModelSymmetry == RunSymmetry \cup Permutations(Model)
=============================================================================
