---------------------------- MODULE MCUploadCache ----------------------------
(* A finite instance of the upload cache for TLC. *)
EXTENDS UploadCache

CONSTANTS h1, h2, h3, u1, u2, u3
=============================================================================
