------------------------------- MODULE Option -------------------------------
(* The absent value of an Option. *)
CONSTANT None
=============================================================================
