------------------------------ MODULE MCPublic -------------------------------
(* The review of results and what the public may check of them, side by      *)
(* side: they share no state, "view" tells which of them moves.              *)
EXTENDS MCResults, Bulletin

CONSTANTS k1, k2

VARIABLE view

MCPeople == 1..5
MCTrackers == 1..5
MCKeys == {k1, k2}
MCCustodies == {[threshold |-> 1, shares |-> 2], [threshold |-> 2, shares |-> 3], [threshold |-> 3, shares |-> 3]}

MCInit ==
    /\ Init /\ BulletinInit
    /\ view \in {"review", "bulletin"}
    /\ view = "bulletin" => setting = Setting("SYSTEM", TRUE, 2)
    /\ view = "review" => heedful

(* What may happen beside the plain course of an election, at most two of    *)
(* them in one behaviour.                                                    *)
Extras == Cardinality({x \in 1..4 : CASE x = 1 -> Len(snapshots) > 1
                                      [] x = 2 -> signer.own # FirstKey
                                      [] x = 3 -> InState("SUSPENDED") # {}
                                      [] x = 4 -> Len(tallies) > 1})

(* Keys and bigger boards are looked at without extras. Voters are           *)
(* interchangeable: the first vote, the last is suspended.                   *)
BulletinBound ==
    /\ Extras <= 2
    /\ \/ stage \in {"DRAFT", "REVIEW", "APPROVED"}
       \/ stage = "SCHEDULED" /\ Extras = 0
       \/ polynomial.coefficients = <<1, 3>>
    /\ InState("VOTED") = 1..Cardinality(board) /\ InState("SUSPENDED") \subseteq {5}
    /\ Cardinality(board) = 1 => board \subseteq {1, 2}
    /\ Cardinality(board) > 1 => heedful /\ Extras = 0
    /\ \A p, q \in InState("VOTED") : p < q => receipts[p] < receipts[q]

MCNext ==
    /\ UNCHANGED view
    /\ \/ view = "review" /\ Next /\ UNCHANGED bulletinVars
       \/ view = "bulletin" /\ BulletinNext /\ BulletinBound' /\ UNCHANGED vars

MCSpec == MCInit /\ [][MCNext]_<<view, vars, bulletinVars>>
=============================================================================
