----------------------------- MODULE MCLifecycle ----------------------------
(* Lifecycle on small instances: two officials, one or two handlers.         *)
EXTENDS Lifecycle, TLC

Symmetry == Permutations(Officials) \cup Permutations(Requests)
=============================================================================
