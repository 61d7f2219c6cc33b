----------------------------- MODULE MCJobQueue -----------------------------
(* Instances of JobQueue for TLC.                                          *)
EXTENDS JobQueue, TLC

(* Workers and handlers are interchangeable.                               *)
Symmetry == Permutations(Workers) \cup Permutations(Handlers)

=============================================================================
