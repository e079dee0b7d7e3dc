---------------------------- MODULE CheckedInput ----------------------------
(* The input of the calculation that a state checks. *)
VARIABLE input
=============================================================================
