----------------------------- MODULE MCOperators ----------------------------
(* Model checking the operators, one at a time.                            *)
EXTENDS Operators

=============================================================================
