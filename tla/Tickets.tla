------------------------------- MODULE Tickets -------------------------------
(***************************************************************************)
(* The tickets of one type: bought on the web or by USSD, paid at the      *)
(* gateway, confirmed or given up by whoever hears of the payment first,   *)
(* admitted at the door, used for a free vote; edited and deleted by the   *)
(* organizer.                                                              *)
(*                                                                         *)
(* Grain of atomicity.  A transaction under the lock of the ticket or of   *)
(* the purchase is one step; so is a request to the gateway.  A handler    *)
(* makes several of them, and others come between.  "honest" tells whether *)
(* a request the gateway answers with an error (a timeout, say) never has  *)
(* an effect there.                                                        *)
(***************************************************************************)
EXTENDS Integers, FiniteSets, FiniteSetsExt

CONSTANTS
    Handlers,     \* requests and tasks at work at one time
    Purchases,    \* references that may be given
    Prices, Stock,\* what an organizer may ask and offer
    MaxBought          \* bound: tickets bought at once

ASSUME TicketsAssumption ==
    /\ Prices \subseteq Nat \ {0} /\ Stock \subseteq Nat /\ Stock # {}
    /\ IsFiniteSet(Purchases) /\ MaxBought \in Nat

VARIABLES
    honest,
    ticket,    \* the Ticket row
    offered,   \* the largest quantity ever offered (not in the code)
    bought,    \* the TicketPurchase rows
    charge,    \* the gateway: what became of the payment asked for
    freeVotes, \* the tie-breaker votes
    doing      \* handler -> what it does next

ticketVars == <<honest, ticket, offered, bought, charge, freeVotes, doing>>

TicketRow == [there : BOOLEAN, price : Prices, quantity : Stock, active : BOOLEAN]
PurchaseRow == [status : {"none", "Pending", "Success", "Failed", "deleted"}, quantity : 0..MaxBought,
                asked : Nat, web : BOOLEAN, inside : BOOLEAN, voted : BOOLEAN]
NoPurchase == [status |-> "none", quantity |-> 0, asked |-> 0, web |-> FALSE,
               inside |-> FALSE, voted |-> FALSE]
AtEase == [op |-> "ease"]

Heads(P) == MapThenSumSet(LAMBDA p : bought[p].quantity, P)
Sold == {p \in Purchases : bought[p].status = "Success"}
Becomes(p, status) == bought' = [bought EXCEPT ![p].status = status]

Eases(h) == doing' = [doing EXCEPT ![h] = AtEase]
Does(h, todo) == doing' = [doing EXCEPT ![h] = todo]

-----------------------------------------------------------------------------
TicketsInit ==
    /\ honest \in BOOLEAN
    /\ ticket \in [there : {TRUE}, price : Prices, quantity : Stock, active : {TRUE}]
    /\ offered = ticket.quantity
    /\ bought = [p \in Purchases |-> NoPurchase]
    /\ charge = [p \in Purchases |-> "none"]
    /\ freeVotes = 0
    /\ doing = [h \in Handlers |-> AtEase]

(* buy_ticket, _ussd_ticket: the row is loaded, with the price asked later.  *)
BuyLoad(h, n, web) ==
    /\ doing[h] = AtEase
    /\ ticket.there /\ ticket.active
    /\ Does(h, [op |-> "buy", quantity |-> n, asked |-> n * ticket.price, web |-> web])
    /\ UNCHANGED <<honest, ticket, offered, bought, charge, freeVotes>>

(* Mutant of Reserved: what is not paid yet is not counted.                  *)
ReservedIfSold == Heads(Sold)

(* reserved_count. *)
Reserved == Heads({p \in Purchases : bought[p].status \in {"Success", "Pending"}})

(* Under the lock of the ticket, loaded again.                               *)
BuyReserve(h, p) ==
    /\ doing[h].op = "buy"
    /\ ticket.there /\ Reserved + doing[h].quantity <= ticket.quantity
    /\ bought[p] = NoPurchase
    /\ bought' = [bought EXCEPT ![p] =
                    [NoPurchase EXCEPT !.status = "Pending", !.quantity = doing[h].quantity,
                                       !.asked = doing[h].asked, !.web = doing[h].web]]
    /\ Does(h, [op |-> "charge", purchase |-> p])
    /\ UNCHANGED <<honest, ticket, offered, charge, freeVotes>>

BuyCharge(h) ==
    /\ doing[h].op = "charge"
    /\ charge' = [charge EXCEPT ![doing[h].purchase] = "open"]
    /\ Eases(h)
    /\ UNCHANGED <<honest, ticket, offered, bought, freeVotes>>

(* The gateway gives an error: the purchase has failed, whatever was heard   *)
(* of it meanwhile.                                                          *)
BuyError(h) ==
    /\ doing[h].op = "charge"
    /\ charge' \in {charge} \cup (IF honest THEN {} ELSE {[charge EXCEPT ![doing[h].purchase] = "open"]})
    /\ Does(h, [doing[h] EXCEPT !.op = "fail"])
    /\ UNCHANGED <<honest, ticket, offered, bought, freeVotes>>

BuyFail(h) ==
    /\ doing[h].op = "fail"
    /\ IF bought[doing[h].purchase].status = "deleted" THEN UNCHANGED bought
       ELSE Becomes(doing[h].purchase, "Failed")
    /\ Eases(h)
    /\ UNCHANGED <<honest, ticket, offered, charge, freeVotes>>

(* The buyer at the gateway (external). *)
GatewaySettles(p, result) ==
    /\ charge[p] = "open"
    /\ charge' = [charge EXCEPT ![p] = result]
    /\ UNCHANGED <<honest, ticket, offered, bought, freeVotes, doing>>

(* The webhook, the reconciliation: the gateway tells of a payment, as often *)
(* as it likes. A charge.failed is heard of but ignored.                     *)
Hear(h, p) ==
    /\ doing[h] = AtEase
    /\ charge[p] = "paid" /\ bought[p].status \notin {"none", "deleted"}
    /\ Does(h, [op |-> "apply", purchase |-> p, heard |-> "paid", expiry |-> FALSE])
    /\ UNCHANGED <<honest, ticket, offered, bought, charge, freeVotes>>

(* verify_and_apply, for the page the buyer returns to and for the task that *)
(* gives up old purchases: the gateway is asked, and may not answer.         *)
Verify(h, p, expiry) ==
    /\ doing[h] = AtEase
    /\ bought[p].status = "Pending"
    /\ \E heard \in {charge[p], "nothing"} :
          Does(h, [op |-> "apply", purchase |-> p, heard |-> heard, expiry |-> expiry])
    /\ UNCHANGED <<honest, ticket, offered, bought, charge, freeVotes>>

(* The amount expected is today's price.                                     *)
Confirms(row) == row.asked = row.quantity * ticket.price

(* apply_ticket_result, under the lock of the purchase.                      *)
Apply(h) ==
    /\ doing[h].op = "apply"
    /\ LET p == doing[h].purchase IN
       /\ CASE bought[p].status # "Pending" -> UNCHANGED bought
            [] bought[p].status = "Pending" /\ doing[h].heard = "paid" ->
                  IF Confirms(bought[p]) THEN Becomes(p, "Success") ELSE UNCHANGED bought
            [] bought[p].status = "Pending" /\ doing[h].heard = "failed" -> Becomes(p, "Failed")
            [] OTHER -> UNCHANGED bought
       /\ IF doing[h].expiry THEN Does(h, [op |-> "expire", purchase |-> p]) ELSE Eases(h)
    /\ UNCHANGED <<honest, ticket, offered, charge, freeVotes>>

(* expire_abandoned, after the answer or without one.                        *)
Expire(h) ==
    /\ doing[h].op = "expire"
    /\ IF bought[doing[h].purchase].status = "Pending" THEN Becomes(doing[h].purchase, "Failed")
       ELSE UNCHANGED bought
    /\ Eases(h)
    /\ UNCHANGED <<honest, ticket, offered, charge, freeVotes>>

(* edit_ticket saves every column; a row deleted meanwhile is there again.   *)
EditLoad(h) ==
    /\ doing[h] = AtEase /\ ticket.there
    /\ Does(h, [op |-> "edit"])
    /\ UNCHANGED <<honest, ticket, offered, bought, charge, freeVotes>>

EditSave(h, price, quantity, active) ==
    /\ doing[h].op = "edit"
    /\ ticket' = [there |-> TRUE, price |-> price, quantity |-> quantity, active |-> active]
    /\ offered' = IF quantity > offered THEN quantity ELSE offered
    /\ Eases(h)
    /\ UNCHANGED <<honest, bought, charge, freeVotes>>

(* delete_ticket: with sales it is hidden, otherwise it goes, and whatever   *)
(* was bought by then with it.                                               *)
DeleteCheck(h) ==
    /\ doing[h] = AtEase /\ ticket.there
    /\ Does(h, [op |-> IF Sold # {} THEN "hide" ELSE "delete"])
    /\ UNCHANGED <<honest, ticket, offered, bought, charge, freeVotes>>

Hide(h) ==
    /\ doing[h].op = "hide"
    /\ ticket' = [ticket EXCEPT !.active = FALSE]
    /\ Eases(h)
    /\ UNCHANGED <<honest, offered, bought, charge, freeVotes>>

Delete(h) ==
    /\ doing[h].op = "delete"
    /\ ticket' = [ticket EXCEPT !.there = FALSE]
    /\ bought' = [p \in Purchases |-> IF bought[p].status = "none" THEN NoPurchase
                                      ELSE [bought[p] EXCEPT !.status = "deleted"]]
    /\ Eases(h)
    /\ UNCHANGED <<honest, offered, charge, freeVotes>>

(* process_scan, under the lock of the purchase.                             *)
Scan(p) ==
    /\ bought[p].status = "Success" /\ ~bought[p].inside
    /\ bought' = [bought EXCEPT ![p].inside = TRUE]
    /\ UNCHANGED <<honest, ticket, offered, charge, freeVotes, doing>>

(* cast_ticket_vote, likewise. *)
FreeVote(p) ==
    /\ bought[p].status = "Success" /\ ~bought[p].voted /\ bought[p].web
    /\ bought' = [bought EXCEPT ![p].voted = TRUE]
    /\ freeVotes' = freeVotes + bought[p].quantity
    /\ UNCHANGED <<honest, ticket, offered, charge, doing>>

(* Not enough tickets, an invalid form, a worker that dies.                  *)
GivesUp(h) ==
    /\ doing[h] # AtEase
    /\ Eases(h)
    /\ UNCHANGED <<honest, ticket, offered, bought, charge, freeVotes>>

TicketsNext ==
    \/ \E h \in Handlers :
        \/ \E n \in 1..MaxBought, web \in BOOLEAN : BuyLoad(h, n, web)
        \/ \E p \in Purchases : BuyReserve(h, p) \/ Hear(h, p) \/ \E expiry \in BOOLEAN : Verify(h, p, expiry)
        \/ BuyCharge(h) \/ BuyError(h) \/ BuyFail(h) \/ Apply(h) \/ Expire(h)
        \/ EditLoad(h) \/ DeleteCheck(h) \/ Hide(h) \/ Delete(h) \/ GivesUp(h)
        \/ \E price \in Prices, quantity \in Stock, active \in BOOLEAN : EditSave(h, price, quantity, active)
    \/ \E p \in Purchases :
        \/ Scan(p) \/ FreeVote(p)
        \/ \E result \in {"paid", "failed"} : GatewaySettles(p, result)

TicketsSpec == TicketsInit /\ [][TicketsNext]_ticketVars

-----------------------------------------------------------------------------
(* Correctness. *)

TicketsTypeOK ==
    /\ honest \in BOOLEAN
    /\ ticket \in TicketRow /\ offered \in Stock
    /\ bought \in [Purchases -> PurchaseRow]
    /\ charge \in [Purchases -> {"none", "open", "paid", "failed"}]
    /\ freeVotes \in Nat

(* Never more tickets are sold, or held for a buyer at the gateway, than     *)
(* were ever offered, and what is sold was paid.                             *)
SoldIsPaid ==
    /\ Reserved <= offered
    /\ \A p \in Sold : charge[p] = "paid"

(* Who came in or voted for free still has a ticket that counts as sold, so  *)
(* the seat is not sold again: as long as the gateway's errors mean that     *)
(* nothing happened. When one arrives for a charge that was made, the        *)
(* handler overwrites a confirmed purchase with "Failed".                    *)
UsedIsSold ==
    honest => /\ \A p \in Purchases : bought[p].inside \/ bought[p].voted
                                        => bought[p].status \in {"Success", "deleted"}
              /\ ticket.there /\ (\A p \in Purchases : bought[p].status # "deleted")
                   => Heads({p \in Purchases : bought[p].inside}) <= offered

(* Tickets are paid for, fit the venue, and vote once.                       *)
TicketsHold ==
    /\ SoldIsPaid /\ UsedIsSold
    /\ freeVotes = Heads({p \in Purchases : bought[p].voted})
=============================================================================
