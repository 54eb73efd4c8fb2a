-------------------------------- MODULE Limits --------------------------------
(***************************************************************************)
(* What one person may buy in a paid election: the caps on votes, on one   *)
(* contestant and on a package, and the limits of a discount code, checked *)
(* at checkout against what was credited by then, and what becomes of the  *)
(* purchases afterwards.                                                   *)
(*                                                                         *)
(* Grain of atomicity.  The quote reads without a lock and the payment is  *)
(* created later; confirming one, with its hold and its credit, is one     *)
(* transaction.  "oneByOne" tells whether a purchase is settled before the *)
(* next begins.  The gateway's part is module Payments.                    *)
(***************************************************************************)
EXTENDS Naturals, FiniteSets, FiniteSetsExt

CONSTANTS
    Sales,        \* payments that may be made
    Buyers,       \* <<email, phone>>, either may be Blank
    Blank,
    Contestants,
    MaxAtOnce,    \* max_votes_per_transaction
    MaxPerVoter, MaxOnContestant, MaxPackages,    \* per person
    MaxUses, PerPayer                      \* of the discount code

ASSUME LimitsAssumption ==
    /\ IsFiniteSet(Sales)
    /\ Buyers # {} /\ \A b \in Buyers : b = <<b[1], b[2]>> /\ b # <<Blank, Blank>>
    /\ \A n \in {MaxAtOnce, MaxPerVoter, MaxOnContestant, MaxPackages, MaxUses, PerPayer} : n \in Nat

VARIABLES
    oneByOne,
    sale,       \* the Payment rows, and the ledger: "live" votes
    redeemedBy, \* DiscountCode.redemptions_count
    checkout    \* what was quoted and is about to be saved

limitVars == <<oneByOne, sale, redeemedBy, checkout>>

SaleRow == [status : {"none", "PENDING", "SUCCESS", "FAILED", "REFUNDED", "DISPUTED", "REVERSED"},
            buyer : Buyers, contestant : Contestants, votes : Nat, package : BOOLEAN, code : BOOLEAN,
            held : BOOLEAN, credited : BOOLEAN, live : BOOLEAN]

Unsold == [status |-> "none"]
NoCheckout == [votes |-> 0]
Made == {s \in Sales : sale[s] # Unsold}
VotesIn(S) == MapThenSumSet(LAMBDA s : sale[s].votes, S)

(* Nothing is under way that may still be credited or taken back.            *)
Settled == checkout = NoCheckout /\ \A s \in Made :
    sale[s].status \in {"FAILED", "REFUNDED", "REVERSED"} \/ (sale[s].status = "SUCCESS" /\ sale[s].credited)

-----------------------------------------------------------------------------
(* Mutant of SamePerson: both the email and the phone must be the same.      *)
SamePersonByBoth(b, c) == b = c

(* _payer_scope: either is enough; what is not given tells nothing.          *)
SamePerson(b, c) == \E i \in 1..2 : b[i] # Blank /\ b[i] = c[i]

(* "prior" in quote(): what is credited and not refunded or disputed.        *)
Prior(b) == {s \in Made : sale[s].status = "SUCCESS" /\ sale[s].credited /\ SamePerson(b, sale[s].buyer)}

(* The caps. (The cap of a position and the cap on the money spent are sums  *)
(* over the same payments.)                                                  *)
WithinCaps(b, contestant, n, package) ==
    /\ VotesIn(Prior(b)) + n <= MaxPerVoter
    /\ VotesIn({s \in Prior(b) : sale[s].contestant = contestant}) + n <= MaxOnContestant
    /\ package => Cardinality({s \in Prior(b) : sale[s].package}) < MaxPackages

(* DiscountCode.is_available, and its limit by the payer's email.            *)
CodeUsable(b) ==
    /\ redeemedBy < MaxUses
    /\ b[1] # Blank =>
         Cardinality({s \in Made : sale[s].status = "SUCCESS" /\ sale[s].code /\ sale[s].buyer[1] = b[1]}) < PerPayer

LimitsInit ==
    /\ oneByOne \in BOOLEAN
    /\ sale = [s \in Sales |-> Unsold]
    /\ redeemedBy = 0
    /\ checkout = NoCheckout

(* quote, and the risk assessed at checkout ...                              *)
Quote(b, contestant, n, package, code, held) ==
    /\ checkout = NoCheckout /\ (oneByOne => Settled)
    /\ WithinCaps(b, contestant, n, package)
    /\ code => CodeUsable(b)
    /\ checkout' = [status |-> "PENDING", buyer |-> b, contestant |-> contestant, votes |-> n,
                    package |-> package, code |-> code, held |-> held, credited |-> FALSE, live |-> FALSE]
    /\ UNCHANGED <<oneByOne, sale, redeemedBy>>

(* ... and the payment is saved, or the checkout refused or abandoned.       *)
Save(s) ==
    /\ checkout # NoCheckout /\ sale[s] = Unsold
    /\ sale' = [sale EXCEPT ![s] = checkout]
    /\ checkout' = NoCheckout
    /\ UNCHANGED <<oneByOne, redeemedBy>>

Refuse ==
    /\ checkout # NoCheckout
    /\ checkout' = NoCheckout
    /\ UNCHANGED <<oneByOne, sale, redeemedBy>>

(* credit_votes: once, of a successful payment that is not held.             *)
Credits(row) == row.status = "SUCCESS" /\ ~row.held /\ ~row.credited

SaleBecomes(s, row) ==
    /\ sale' = [sale EXCEPT ![s] = IF Credits(row) THEN [row EXCEPT !.credited = TRUE, !.live = TRUE] ELSE row]
    /\ redeemedBy' = IF Credits(row) /\ row.code THEN redeemedBy + 1 ELSE redeemedBy
    /\ UNCHANGED <<oneByOne, checkout>>

(* apply_gateway_result: paid, at once or after all; fraud may hold it.      *)
Confirm(s, held) ==
    /\ sale[s].status = "PENDING" \/ (sale[s].status = "FAILED" /\ ~oneByOne)
    /\ SaleBecomes(s, [sale[s] EXCEPT !.status = "SUCCESS", !.held = held \/ sale[s].held])

Fail(s) ==
    /\ sale[s].status = "PENDING"
    /\ SaleBecomes(s, [sale[s] EXCEPT !.status = "FAILED"])

(* release_held_payment. *)
Release(s) ==
    /\ sale[s].status = "SUCCESS" /\ sale[s].held
    /\ SaleBecomes(s, [sale[s] EXCEPT !.held = FALSE])

(* _complete_refund, in full or in part, with or without the votes.          *)
RefundSale(s, reverse) ==
    /\ sale[s].status \in {"SUCCESS", "DISPUTED"}
    /\ SaleBecomes(s, [sale[s] EXCEPT !.status = "REFUNDED", !.live = @ /\ ~reverse])

(* _webhook_dispute: the votes go when it is opened and do not come back.    *)
Dispute(s) ==
    /\ sale[s].status = "SUCCESS"
    /\ SaleBecomes(s, [sale[s] EXCEPT !.status = "DISPUTED", !.live = FALSE])

Resolve(s, won) ==
    /\ sale[s].status = "DISPUTED"
    /\ sale' = [sale EXCEPT ![s].status = IF won THEN "SUCCESS" ELSE "REVERSED"]
    /\ UNCHANGED <<oneByOne, redeemedBy, checkout>>

LimitsNext ==
    \/ \E b \in Buyers, c \in Contestants, n \in 1..MaxAtOnce, package, code, held \in BOOLEAN :
          Quote(b, c, n, package, code, held)
    \/ Refuse
    \/ \E s \in Sales :
        \/ Save(s) \/ Fail(s) \/ Release(s) \/ Dispute(s)
        \/ \E yes \in BOOLEAN : Confirm(s, yes) \/ RefundSale(s, yes) \/ Resolve(s, yes)

LimitsSpec == LimitsInit /\ [][LimitsNext]_limitVars

-----------------------------------------------------------------------------
(* Correctness. *)

LimitsTypeOK ==
    /\ oneByOne \in BOOLEAN
    /\ sale \in [Sales -> SaleRow \cup {Unsold}]
    /\ redeemedBy \in Nat
    /\ checkout \in SaleRow \cup {NoCheckout}

LiveOf(i, value) == {s \in Made : sale[s].live /\ sale[s].buyer[i] = value}

(* docs/TRD.md:203, the caps per voter "counted by blind index of the        *)
(* payer's email or phone": the votes that count, of one email or of one     *)
(* phone, stay within every cap, when purchases do not overlap and no refund *)
(* leaves its votes (those no longer count against the cap). The code's      *)
(* counter is exact in any case, and bounded when purchases do not overlap.  *)
LimitsHold ==
    /\ redeemedBy = Cardinality({s \in Made : sale[s].code /\ sale[s].credited})
    /\ oneByOne => redeemedBy <= MaxUses
    /\ oneByOne /\ (\A s \in Made : sale[s].live => sale[s].status = "SUCCESS") =>
         \A s \in Made, i \in 1..2 : sale[s].buyer[i] # Blank =>
            LET live == LiveOf(i, sale[s].buyer[i]) IN
            /\ VotesIn(live) <= MaxPerVoter
            /\ \A c \in Contestants : VotesIn({l \in live : sale[l].contestant = c}) <= MaxOnContestant
            /\ Cardinality({l \in live : sale[l].package}) <= MaxPackages
=============================================================================
