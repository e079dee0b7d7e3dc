------------------------------ MODULE Optional ------------------------------
(* A value that may be missing: None in the code, or an exception instead. *)
Nothing == <<>>
Some(x) == <<x>>
=============================================================================
