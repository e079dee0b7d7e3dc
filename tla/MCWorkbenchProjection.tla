----------------------- MODULE MCWorkbenchProjection -----------------------
(* Two datasets with two events and one event. *)
EXTENDS WorkbenchProjection

CONSTANTS d1, d2, e1, e2, e3

MCDatasetOf == [e \in Events |-> IF e = e3 THEN d2 ELSE d1]
=============================================================================
