---------------------------- MODULE MCReadiness ----------------------------
(* An instance of Readiness for TLC.                                       *)
EXTENDS Readiness

CONSTANTS w1, w2

=============================================================================
