---------------------------- MODULE MCWorkbenchRuns ----------------------------
(* Finite instances of the workbench runs for TLC. *)
EXTENDS WorkbenchRuns, TLC

CONSTANTS w1, w2, r1, r2, s1, s2

LoopSymmetry == Permutations(Workers)
=============================================================================
