------------------------------ MODULE MCCasting -----------------------------
(* Casting on small instances: model values for people, tokens, requests.   *)
EXTENDS Casting, TLC

Symmetry == Permutations(Voters) \cup Permutations(Tokens) \cup Permutations(Requests)
=============================================================================
