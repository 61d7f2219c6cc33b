----------------------------- MODULE MCOperator -----------------------------
(* An instance of Operator for TLC.                                        *)
EXTENDS Operator

=============================================================================
