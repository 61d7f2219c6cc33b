----------------------------- MODULE MCKeyPool -----------------------------
(* An instance of KeyPool for TLC.                                         *)
EXTENDS KeyPool

CONSTANTS t1, t2, a, b, c1, c2

=============================================================================
