----------------------------- MODULE PaidVotes ------------------------------
(***************************************************************************)
(* What a purchase of votes promises, with no statuses, webhooks, holds or *)
(* sweeps: money is taken once and for all, the votes are counted once and *)
(* only for money taken before, and votes that were reversed are not       *)
(* counted again.  Payments is shown to implement it.                      *)
(***************************************************************************)
EXTENDS Naturals

VARIABLES paid,       \* the gateway took the money, if only to give it back
          counted,    \* credits that count
          reversed    \* credits that were taken back

vars == <<paid, counted, reversed>>

Init == ~paid /\ counted = 0 /\ reversed = 0

Charge ==
    /\ ~paid
    /\ paid' = TRUE
    /\ UNCHANGED <<counted, reversed>>

(* The one credit there ever is, of money that was taken. *)
Credit ==
    /\ paid
    /\ counted = 0 /\ reversed = 0
    /\ counted' = 1
    /\ UNCHANGED <<paid, reversed>>

Reverse ==
    /\ counted = 1
    /\ counted' = 0 /\ reversed' = 1
    /\ UNCHANGED paid

Next == Charge \/ Credit \/ Reverse

Spec == Init /\ [][Next]_vars
=============================================================================
