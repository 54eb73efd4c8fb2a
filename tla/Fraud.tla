--------------------------------- MODULE Fraud ---------------------------------
(***************************************************************************)
(* The risk engine and the review of its alerts: a payment is assessed at  *)
(* checkout and when it is paid, held when the score is high, and released *)
(* or rejected by an analyst, who may block the device and the card; a     *)
(* chargeback raises an alert of its own.                                  *)
(*                                                                         *)
(* Grain of atomicity.  At checkout the assessment and the payment are     *)
(* saved in two transactions, and the process may die in between; settling *)
(* a payment is one.  A review acts on the alert and the payment as they   *)
(* were when the analyst's request loaded them, without a lock.            *)
(***************************************************************************)
EXTENDS Naturals, Sequences, FiniteSets, FiniteSetsExt

CONSTANTS
    Deals,        \* payments that may be made
    Tenant,       \* payment -> the organization of its election
    Tenants,
    Platform,     \* the scope of a platform-wide entry
    Analysts,
    WorksFor,     \* analyst -> a tenant, or Platform
    Device, Email, Card, \* payment -> what identifies its payer
    Mispaid,      \* payments of which another amount is paid than asked
    MonitorAt, ChallengeAt, HoldAt,        \* FRAUD_..._THRESHOLD
    OtherWeights, \* what the remaining signals may add up to
    ManyAttempts, \* device velocity threshold
    MaxAlerts,    \* bound on the alerts
    MaxCounted    \* bound on the attempts counted in a window

ASSUME FraudAssumption ==
    /\ Tenant \in [Deals -> Tenants] /\ Platform \notin Tenants
    /\ WorksFor \in [Analysts -> Tenants \cup {Platform}]
    /\ {MonitorAt, ChallengeAt, HoldAt, ManyAttempts} \subseteq Nat

VARIABLES
    deal,      \* the Payment rows
    alerts,    \* the FraudEvent rows
    listed,    \* active BlocklistEntry rows: [value, scope]
    attempts,  \* velocity counters of this window: device -> attempts
    assessed,  \* checkout assessed, payment not yet saved: payment -> alert or 0
    reviewing, \* analyst -> the alert and its payment as loaded
    freed      \* payments held and then released by a human (not in the code)

fraudVars == <<deal, alerts, listed, attempts, assessed, reviewing, freed>>

DealRow == [status : {"none", "PENDING", "SUCCESS", "DISPUTED", "REVERSED"}, held : BOOLEAN,
            credited : BOOLEAN, wasHeld : BOOLEAN] \* wasHeld: before its votes were credited
NoDeal == [status |-> "none", held |-> FALSE, credited |-> FALSE, wasHeld |-> FALSE]
NotReviewing == [alert |-> 0, holds |-> FALSE]
Devices == {Device[d] : d \in Deals}
Values == {Device[d] : d \in Deals} \cup {Email[d] : d \in Deals} \cup {Card[d] : d \in Deals}

FraudInit ==
    /\ deal = [d \in Deals |-> NoDeal]
    /\ alerts = <<>> /\ listed = {}
    /\ attempts = [x \in Devices |-> 0]
    /\ assessed = <<>>
    /\ reviewing = [a \in Analysts |-> NotReviewing]
    /\ freed = {}

-----------------------------------------------------------------------------
(* engine.assess. *)

(* decide. *)
Verdict(score) == IF score >= HoldAt THEN "HOLD" ELSE IF score >= ChallengeAt THEN "CHALLENGE"
                  ELSE IF score >= MonitorAt THEN "MONITOR" ELSE "ALLOW"

(* Mutant of EntriesFor: the entries of every organization.                  *)
EntriesForAll(d) == listed

(* _active_entries: those of the platform and those of the organization.     *)
EntriesFor(d) == {x \in listed : x.scope \in {Platform, Tenant[d]}}

Listed(values, d) == {x \in EntriesFor(d) : x.value \in values}

(* Weights: 60 for each listed value, 20 for many attempts by one device, 50 *)
(* for a chargeback of the payer or the card, and what other signals add.    *)
Score(values, d, others) ==
    LET charged == \E f \in Deals : /\ deal[f].status \in {"DISPUTED", "REVERSED"}
                                    /\ {Email[f], Card[f]} \cap values # {}
        sum == 60 * Cardinality({x.value : x \in Listed(values, d)})
                 + (IF attempts[Device[d]] > ManyAttempts THEN 20 ELSE 0)
                 + (IF charged THEN 50 ELSE 0) + others
    IN Min({100, sum})

Alert(d, linked, device, verdict, cause) ==
    Append(alerts, [on |-> d, linked |-> linked, device |-> device, verdict |-> verdict,
                    cause |-> cause, status |-> "OPEN"])
Verdicts == {"ALLOW", "MONITOR", "CHALLENGE", "HOLD"}

(* An assessment of more than ALLOW is recorded; "cause" remembers whose     *)
(* entries counted.                                                          *)
Assesses(d, linked, values, verdict) ==
    /\ \E others \in OtherWeights : verdict = Verdict(Score(values, d, others))
    /\ alerts' = IF verdict = "ALLOW" THEN alerts
                 ELSE Alert(d, linked, TRUE, verdict, {x.scope : x \in Listed(values, d)})
    /\ Len(alerts') <= MaxAlerts

-----------------------------------------------------------------------------
(* initiate_vote_payment: the attempt is counted and assessed; a challenge   *)
(* lets the buyer go on or not ...                                           *)
CheckoutAssess(d) ==
    /\ deal[d] = NoDeal /\ assessed = <<>> /\ attempts[Device[d]] < MaxCounted
    /\ attempts' = [attempts EXCEPT ![Device[d]] = @ + 1]
    /\ \E verdict \in Verdicts :
          /\ Assesses(d, FALSE, {Device[d], Email[d]}, verdict)
          /\ assessed' = <<d, verdict, Len(alerts')>>
    /\ UNCHANGED <<deal, listed, reviewing, freed>>

(* ... the payment is saved, held or not, and the alert linked to it ...     *)
CheckoutSave ==
    /\ assessed # <<>>
    /\ LET d == assessed[1]  held == assessed[2] = "HOLD"
       IN /\ deal' = [deal EXCEPT ![d] = [@ EXCEPT !.status = "PENDING", !.held = held, !.wasHeld = held]]
          /\ alerts' = IF assessed[2] = "ALLOW" THEN alerts
                       ELSE [alerts EXCEPT ![assessed[3]].linked = TRUE]
    /\ assessed' = <<>>
    /\ UNCHANGED <<listed, attempts, reviewing, freed>>

(* ... or nothing comes of it.                                               *)
CheckoutStops ==
    /\ assessed # <<>> /\ assessed' = <<>>
    /\ UNCHANGED <<deal, alerts, listed, attempts, reviewing, freed>>

Hold(row) == [row EXCEPT !.held = TRUE, !.wasHeld = @ \/ ~row.credited]

(* apply_gateway_result, credit_votes, however often: a wrong amount holds   *)
(* the payment (again); one neither held nor credited is assessed again,     *)
(* with its card.                                                            *)
Settles(d) ==
    LET row == [deal[d] EXCEPT !.status = "SUCCESS"] IN
    /\ deal[d].status \in {"PENDING", "SUCCESS", "DISPUTED"}
    /\ \/ /\ d \in Mispaid
          /\ Len(alerts) < MaxAlerts
          /\ alerts' = Alert(d, TRUE, FALSE, "HOLD", {})
          /\ deal' = [deal EXCEPT ![d] = Hold(row)]
          /\ freed' = IF row.credited THEN freed ELSE freed \ {d}
       \/ /\ d \notin Mispaid /\ (row.held \/ row.credited)
          /\ deal' = [deal EXCEPT ![d] = row]
          /\ UNCHANGED <<alerts, freed>>
       \/ /\ d \notin Mispaid /\ ~row.held /\ ~row.credited
          /\ \E verdict \in Verdicts :
                /\ Assesses(d, TRUE, {Device[d], Email[d], Card[d]}, verdict)
                /\ deal' = [deal EXCEPT ![d] = IF verdict = "HOLD" THEN Hold(row)
                                               ELSE [row EXCEPT !.credited = TRUE]]
                /\ freed' = IF verdict = "HOLD" THEN freed \ {d} ELSE freed
    /\ UNCHANGED <<listed, attempts, assessed, reviewing>>

(* record_chargeback.                                                        *)
ChargesBack(d) ==
    /\ deal[d].status = "SUCCESS" /\ Len(alerts) < MaxAlerts
    /\ deal' = [deal EXCEPT ![d].status = "DISPUTED"]
    /\ alerts' = Alert(d, TRUE, FALSE, "HOLD", {})
    /\ UNCHANGED <<listed, attempts, assessed, reviewing, freed>>

(* The chargeback is won or lost.                                            *)
Resolves(d) ==
    /\ deal[d].status = "DISPUTED"
    /\ \E end \in {"SUCCESS", "REVERSED"} : deal' = [deal EXCEPT ![d].status = end]
    /\ UNCHANGED <<alerts, listed, attempts, assessed, reviewing, freed>>

NextWindow ==
    /\ \E x \in Devices : attempts[x] > 0
    /\ attempts' = [x \in Devices |-> 0]
    /\ UNCHANGED <<deal, alerts, listed, assessed, reviewing, freed>>

-----------------------------------------------------------------------------
(* The analyst. *)
MayReview(a, d) == WorksFor[a] \in {Platform, Tenant[d]}

(* release_held_payment: the row is locked and credited if it is paid.       *)
ReleaseDeal(d) ==
    /\ deal' = [deal EXCEPT ![d] = [deal[d] EXCEPT !.held = FALSE, !.credited = @ \/ deal[d].status = "SUCCESS"]]
    /\ freed' = IF deal[d].held THEN freed \cup {d} ELSE freed

(* alert_detail loads the alert and its payment.                             *)
LoadsAlert(a, i) ==
    LET row == deal[alerts[i].on] IN
    /\ reviewing[a] = NotReviewing
    /\ MayReview(a, alerts[i].on) /\ alerts[i].status = "OPEN"
    /\ reviewing' = [reviewing EXCEPT ![a] =
          [alert |-> i, linked |-> alerts[i].linked, holds |-> alerts[i].linked /\ row.held,
           paid |-> alerts[i].linked /\ row.status # "PENDING"]]
    /\ UNCHANGED <<deal, alerts, listed, attempts, assessed, freed>>

(* The whole row is saved, the link to the payment as it was loaded.         *)
SavesReview(a, status) ==
    LET r == reviewing[a] IN
    /\ r # NotReviewing
    /\ alerts' = [alerts EXCEPT ![r.alert].status = status, ![r.alert].linked = r.linked]
    /\ reviewing' = [reviewing EXCEPT ![a] = NotReviewing]

(* review: dismissing the alert of a held payment releases it ...            *)
Dismisses(a) ==
    /\ SavesReview(a, "DISMISSED")
    /\ IF reviewing[a].holds THEN ReleaseDeal(alerts[reviewing[a].alert].on) ELSE UNCHANGED <<deal, freed>>
    /\ UNCHANGED <<listed, attempts, assessed>>

(* What a confirmed alert lets block: for the platform, or only for the      *)
(* organization.                                                             *)
Blocks(a) ==
    LET r == reviewing[a]  d == alerts[r.alert].on
        scope == IF WorksFor[a] = Platform THEN Platform ELSE Tenant[d]
        values == (IF alerts[r.alert].device THEN {Device[d]} ELSE {})
                    \cup (IF r.paid THEN {Card[d]} ELSE {}) \cup (IF r.linked THEN {Email[d]} ELSE {})
    IN {[value |-> v, scope |-> scope] : v \in values}

(* ... and confirming it keeps it held. (If it is paid, a refund may be      *)
(* requested: Payments.)                                                     *)
ConfirmsAlert(a) ==
    /\ SavesReview(a, "CONFIRMED")
    /\ \/ UNCHANGED listed
       \/ listed' = listed \cup Blocks(a)
    /\ LET d == alerts[reviewing[a].alert].on
       IN freed' = IF deal[d].held /\ ~deal[d].credited THEN freed \ {d} ELSE freed
    /\ UNCHANGED <<deal, attempts, assessed>>

(* blocklist: entries within the analyst's reach, one at a time.             *)
Reach(a) == IF WorksFor[a] = Platform THEN Tenants \cup {Platform} ELSE {WorksFor[a]}

Lists(a) ==
    /\ \E v \in Values, s \in Reach(a) : listed' = listed \cup {[value |-> v, scope |-> s]}
    /\ UNCHANGED <<deal, alerts, attempts, assessed, reviewing, freed>>

Unlists(a) ==
    /\ \E x \in listed : x.scope \in Reach(a) /\ listed' = listed \ {x}
    /\ UNCHANGED <<deal, alerts, attempts, assessed, reviewing, freed>>

(* payment_detail: the console of a payment releases it, too.                *)
ReleasesFromConsole(d) ==
    /\ deal[d] # NoDeal /\ \E a \in Analysts : MayReview(a, d)
    /\ ReleaseDeal(d)
    /\ UNCHANGED <<alerts, listed, attempts, assessed, reviewing>>

FraudNext ==
    \/ CheckoutSave \/ CheckoutStops \/ NextWindow
    \/ \E d \in Deals : \/ CheckoutAssess(d) \/ Settles(d) \/ ChargesBack(d) \/ Resolves(d)
                        \/ ReleasesFromConsole(d)
    \/ \E a \in Analysts : \/ \E i \in DOMAIN alerts : LoadsAlert(a, i)
                           \/ Dismisses(a) \/ ConfirmsAlert(a) \/ Lists(a) \/ Unlists(a)

FraudSpec == FraudInit /\ [][FraudNext]_fraudVars

-----------------------------------------------------------------------------
(* Correctness. *)

FraudTypeOK ==
    /\ deal \in [Deals -> DealRow]
    /\ \A x \in listed : x.scope \in Tenants \cup {Platform}
    /\ freed \subseteq Deals
    /\ \A i \in DOMAIN alerts : alerts[i].on \in Deals

(* engine.py: "money accepted, votes NOT credited until a human reviews":    *)
(* the votes of a payment that was held are credited only after a human      *)
(* released it, and after every later hold and confirmed alert released it   *)
(* again, however many alerts it has and however often it is settled.        *)
HeldUntilReviewed == \A d \in Deals : deal[d].wasHeld /\ deal[d].credited => d \in freed

(* initiate_vote_payment, review: a payment that is held has an alert that   *)
(* says so and names it, whatever fails between the assessment and the       *)
(* payment. (An analyst who loaded the alert before the payment was saved    *)
(* saves it without the name.)                                               *)
HeldHasAlert ==
    \A d \in Deals : deal[d].held =>
       \E i \in DOMAIN alerts : /\ alerts[i].on = d /\ alerts[i].verdict = "HOLD"
                                /\ alerts[i].linked \/ alerts[i].status # "OPEN"

(* BlocklistEntry: what an organization's analyst blocks counts against no   *)
(* other organization's payers.                                              *)
BlocksStayAtHome == \A i \in DOMAIN alerts : alerts[i].cause \subseteq {Platform, Tenant[alerts[i].on]}

(* The three of them.                                                        *)
ReviewHolds == HeldUntilReviewed /\ HeldHasAlert /\ BlocksStayAtHome
=============================================================================
