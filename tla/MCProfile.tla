----------------------------- MODULE MCProfile -----------------------------
(* Instances of Profile for TLC.                                           *)
EXTENDS Profile, TLC

(* openai needs OPENAI_API_KEY; a provider of another name needs nothing.  *)
OneRequired == [p \in Providers |-> IF p = "openai" THEN {"OPENAI_API_KEY"} ELSE {}]

(* Handlers are interchangeable.                                           *)
Symmetry == Permutations(Handlers)

=============================================================================
