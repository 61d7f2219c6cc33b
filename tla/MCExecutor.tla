----------------------------- MODULE MCExecutor -----------------------------
(* Instances of Executor for TLC.                                          *)
EXTENDS Executor

CONSTANTS t1, t2, n1, n2

(* Slugs that give every tenant a container name of its own.               *)
OwnNames == [t \in Tenants |-> IF t = t1 THEN n1 ELSE n2]

(* Slugs such as "a.b" and "a_b", which give one name.                     *)
SharedName == [t \in Tenants |-> n1]

=============================================================================
