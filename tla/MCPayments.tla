------------------------------ MODULE MCPayments ------------------------------
(* Payments on small instances; handlers are interchangeable.                *)
EXTENDS Payments, TLC

Symmetry == Permutations(Requests)

Setting(rough, risks, disputes, ids) ==
    [rough |-> rough, risks |-> risks, disputes |-> disputes, refunds |-> ids]

(* Calm with everything; rough with chargebacks, and rough with refunds.     *)
Purchases == {Setting(FALSE, TRUE, TRUE, RefundIds), Setting(TRUE, TRUE, TRUE, {}),
              Setting(TRUE, FALSE, FALSE, RefundIds)}

(* Calm, with nothing but refunds. *)
TwoRefunds == {Setting(FALSE, FALSE, FALSE, RefundIds)}
=============================================================================
