------------------------------ MODULE MCResults ------------------------------
(* Results on small instances; people and handlers are interchangeable.      *)
EXTENDS Results, TLC

Setting(custody, overlap, tallies) == [custody |-> custody, overlap |-> overlap, tallies |-> tallies]

(* Two tallies by handlers that overlap, three by handlers that do not.      *)
Reviews == {Setting("SYSTEM", TRUE, 2), Setting("TRUSTEES", TRUE, 2), Setting("TRUSTEES", FALSE, 3)}
OneByOne == {Setting("TRUSTEES", FALSE, 3)}

Symmetry == Permutations(Officials) \cup Permutations(Requests) \cup Permutations(Trustees)
=============================================================================
