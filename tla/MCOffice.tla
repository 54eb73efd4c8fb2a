------------------------------- MODULE MCOffice -------------------------------
(* The small instances of Roles, Billing, Tickets, Limits, Count, Booth,     *)
(* DataKeys and Books that TLC checks. They share no state, so they are      *)
(* checked side by side, not interleaved: "desk" tells which of them moves.   *)
EXTENDS Roles, Billing, Tickets, Limits, Count, Booth, DataKeys, Books, TLC

CONSTANTS u1, u2, g1, g2, e1, e2, t1, t2, p1, p2, mail, phone, c1, c2,
          va, vb, vc, mayor, clerk, judge, ma, mb, kek, column, b1, b2

VARIABLE desk

MCUsers == {u1, u2}
MCOrgs == {g1, g2}
MCEvents == {e1, e2}
MCOwner == e1 :> g1 @@ e2 :> Everywhere
MCOrganizer == e1 :> u2 @@ e2 :> u2

MCTasks == {t1, t2}
MCPurchases == {p1, p2}
MCSales == {p1, p2}
MCContestants == {c1, c2}
MCBuyers == {<<mail, phone>>, <<Blank, phone>>}

Pos(type, n, min, max, seats, ballots) ==
    [type |-> type, standing |-> 1..n, min |-> min, max |-> max, seats |-> seats,
     score |-> 2, threshold |-> 60, abstain |-> TRUE, ballots |-> ballots]
MCCandidates == 1..3
MCLot == 1 :> 3 @@ 2 :> 2 @@ 3 :> 1
MCPositions ==
    {Pos("SINGLE", 3, 1, 1, 1, 5), Pos("FPTP", 3, 1, 1, 2, 4), Pos("MULTIPLE", 3, 1, 2, 2, 4),
     Pos("APPROVAL", 3, 1, 1, 1, 4), Pos("SCORE", 2, 1, 1, 1, 3), Pos("REFERENDUM", 0, 1, 1, 1, 6),
     Pos("RANKED", 3, 1, 3, 1, 4), Pos("RANKED", 3, 1, 3, 2, 5), Pos("RANKED", 2, 0, 1, 2, 3),
     Pos("MULTIPLE", 1, 1, 2, 2, 4)}

MCCovered == e1 :> {e1, e2} @@ e2 :> {e2}
MCHome == va :> e1 @@ vb :> e1 @@ vc :> e2
MCContacts == va :> {"EMAIL"} @@ vb :> {"EMAIL", "SMS"} @@ vc :> {"EMAIL"}
MCSignIn == e1 :> {"CODE", "SSO", "SMS_OTP"} @@ e2 :> {"CODE"}
MCOffices == e1 :> {mayor, clerk} @@ e2 :> {judge}
MCRules == {[office |-> clerk, kind |-> "VERIFIED_EMAIL", holds |-> {}],
            [office |-> WholeElection, kind |-> "ATTRIBUTE_IN", holds |-> {va, vb, vc}]}
MCProcesses == {ma, mb}

MCBills == {b1, b2}
MCWorth == b1 :> 1 @@ b2 :> 2

Desks == {"roles", "billing", "tickets", "limits", "count", "booth", "keys", "books"}

MCInit ==
    /\ RolesInit /\ BillingInit /\ TicketsInit /\ LimitsInit /\ CountInit /\ BoothInit /\ KeysInit /\ BooksInit
    /\ desk \in Desks
    /\ desk # "roles" => orderly
    /\ desk # "billing" => calm
    /\ desk # "tickets" => honest /\ ticket = [there |-> TRUE, price |-> 1, quantity |-> 1, active |-> TRUE]
    /\ desk # "limits" => oneByOne
    /\ desk # "count" => position = Pos("SINGLE", 3, 1, 1, 1, 5)
    /\ desk # "booth" => \A v \in Voters : voter[v].status = "ELIGIBLE"
    /\ desk # "keys" => careful

(* Trials, coupons and cancellations are looked at one by one; the third     *)
(* invoice only after a renewal. Overlap and crashes: within one period.     *)
BillingBound ==
    /\ trials <= 1 /\ usage \subseteq {2} /\ redeemed <= 2
    /\ sub.cancel => ~sub.coupon /\ usage = {} /\ trials = 0
    /\ sub.coupon => usage = {} /\ trials = 0
    /\ Len(invoices) = 3 => calm /\ \E i \in 1..2 : invoices[i].renewal
    /\ Cardinality({i \in DOMAIN invoices : ~invoices[i].renewal}) <= 1
    /\ ~calm => ~sub.cancel /\ usage = {} /\ Len(invoices) <= 1 /\ trials = 0 /\ day <= 2 /\ sub.end = Month

(* Where the gateway's errors deceive, the organizer changes nothing. Web    *)
(* purchases are confirmed like those by USSD.                               *)
TicketsBound ==
    LET at == {doing[h].op : h \in Handlers} IN
    /\ ~honest => /\ ticket.there /\ ticket.active /\ ticket.price = 1 /\ freeVotes = 0
                  /\ at \cap {"edit", "hide", "delete"} = {}
    /\ \A p \in Purchases : bought[p] # NoPurchase => bought[p].web
    /\ \A h \in Handlers : doing[h].op = "buy" => doing[h].web
    /\ ticket.price = 1 \/ \A p \in Purchases : ~bought[p].inside
    /\ at \cap {"edit", "hide", "delete"} = {} \/ "expire" \notin at

(* Packages and codes are for one vote, and not used together; one of two    *)
(* purchases is held, refunded or disputed.                                  *)
LimitsBound ==
    LET Simple(row) == row # Unsold /\ row # NoCheckout /\ (row.package \/ row.code)
                         => row.votes = 1 /\ row.contestant = c1 /\ ~(row.package /\ row.code)
    IN /\ Simple(checkout) /\ \A s \in Sales : Simple(sale[s])
       /\ Cardinality({s \in Made : sale[s].held \/ sale[s].status \in {"DISPUTED", "REVERSED", "REFUNDED"}}) <= 1

(* Two voters vote at one browser if the second is not of the same election; *)
(* guessing and the clock are looked at where one voter signs in.            *)
BoothBound ==
    /\ voter[vc].status = "VOTED" => \E b \in casts : b.voter = vc
    /\ signed[e2] # NotSigned \/ voter[vc].status = "VOTED"
         => voter[vb].status # "VOTED" /\ hour = 0 /\ voter[vb].verified = {}
    /\ (\E c \in DOMAIN codes : codes[c].guesses > 0)
         => forms = 0 /\ signed[e2] = NotSigned /\ casts = {} /\ hour = 0
    /\ voter[vb].status = "VOTED" => voter[va].status # "VOTED"

(* Writes that get in the way of a rotation: of one KEK and two data keys.   *)
KeysBound ==
    /\ ~careful => /\ Len(keyring) <= 2 /\ settings = [first |-> Dev, listed |-> {}]
                   /\ \E p \in Processes : running[p] = Started
    /\ Len(keyring) = 3 => written[column] <= 1 /\ \A p \in Processes : running[p].creates = "no"

(* One payment may go wrong in every way; the other is paid, or not, as it   *)
(* should be. Charges nobody knows come before both.                         *)
BooksBound ==
    /\ bank[b2] \in {[charge |-> c, right |-> TRUE] : c \in {"none", "success"}} /\ ~book[b2].held
    /\ book[b2].status \in {"OPEN", "SUCCESS", "ABANDONED"}
    /\ foreign => bank[b1].charge \in {"none", "ongoing"} /\ bank[b2].charge = "none"
    /\ settled \subseteq {Stranger, b2} \/ scan.step = "COMPLETED"

MCNext ==
    /\ UNCHANGED desk
    /\ \/ desk = "roles" /\ RolesNext /\ UNCHANGED <<billingVars, ticketVars, limitVars, countVars, boothVars, keyVars, booksVars>>
       \/ desk = "billing" /\ BillingNext /\ BillingBound' /\ UNCHANGED <<rolesVars, ticketVars, limitVars, countVars, boothVars, keyVars, booksVars>>
       \/ desk = "tickets" /\ TicketsNext /\ TicketsBound' /\ UNCHANGED <<rolesVars, billingVars, limitVars, countVars, boothVars, keyVars, booksVars>>
       \/ desk = "limits" /\ LimitsNext /\ LimitsBound' /\ UNCHANGED <<rolesVars, billingVars, ticketVars, countVars, boothVars, keyVars, booksVars>>
       \/ desk = "count" /\ CountNext /\ UNCHANGED <<rolesVars, billingVars, ticketVars, limitVars, boothVars, keyVars, booksVars>>
       \/ desk = "booth" /\ BoothNext /\ BoothBound' /\ UNCHANGED <<rolesVars, billingVars, ticketVars, limitVars, countVars, keyVars, booksVars>>
       \/ desk = "keys" /\ KeysNext /\ KeysBound' /\ UNCHANGED <<rolesVars, billingVars, ticketVars, limitVars, countVars, boothVars, booksVars>>
       \/ desk = "books" /\ BooksNext /\ BooksBound' /\ UNCHANGED <<rolesVars, billingVars, ticketVars, limitVars, countVars, boothVars, keyVars>>

MCSpec == MCInit /\ [][MCNext]_<<desk, rolesVars, billingVars, ticketVars, limitVars, countVars, boothVars, keyVars, booksVars>>

MCSymmetry == Permutations(MCTasks) \cup Permutations(MCPurchases)
=============================================================================
