------------------------------- MODULE Payments -------------------------------
(***************************************************************************)
(* One purchase of votes: the Payment row, the votes credited for it, its  *)
(* refunds, and the gateway (Paystack) that decides what really happened.  *)
(* Webhooks, the customer's return, analysts, refunds and the periodic     *)
(* jobs all work on the row; apply_gateway_result, refunds and chargebacks *)
(* lock it, checkout, approval and the reconciliation sweep do not.        *)
(*                                                                         *)
(* The gateway, outside this repository, is modelled by what the code asks *)
(* of it: a charge it reports on request and by webhook, disputes, and     *)
(* refunds it accepts up to the amount charged.  Webhooks are retried      *)
(* until processed.  In a rough setting they overtake each other, handlers *)
(* overlap and die; in a calm one none of this happens.                    *)
(***************************************************************************)
EXTENDS Naturals, FiniteSets

CONSTANTS
    Requests,     \* handlers in progress
    Settings,     \* rough or calm, what risks and chargebacks there are, which refunds
    Amount,       \* Payment.amount
    RefundIds,    \* refunds that may be requested: 1..n, in the order of requested_at
    None          \* no refund

ASSUME PaymentsAssumption ==
    /\ Settings \subseteq [rough : BOOLEAN, risks : BOOLEAN, disputes : BOOLEAN,
                             refunds : SUBSET RefundIds]
    /\ Amount \in Nat /\ RefundIds \subseteq Nat /\ None \notin RefundIds

VARIABLES
    setting,   \* fixed at the start
    pay,       \* the Payment row
    ledger,    \* its VoteTransaction rows: how many count, how many are reversed
    refunds,   \* id -> the Refund row, and how often it was sent to the gateway
    gateway,   \* the charge, its dispute, and what was given back
    hooks,     \* webhook -> "unsent", "sent" or "processed"
    req        \* handler -> its next step, and what it read

vars == <<setting, pay, ledger, refunds, gateway, hooks, req>>

Statuses == {"NONE", "INITIALIZED", "PENDING", "SUCCESS", "FAILED", "ABANDONED",
             "REVERSED", "REFUNDED", "PARTIALLY_REFUNDED", "DISPUTED"}
RefundStatus == {"NONE", "REQUESTED", "APPROVED", "PROCESSING", "PROCESSED", "FAILED"}
Charges == {"ongoing", "success", "failed", "abandoned", "reversed"}

Ops == {"idle", "gateway", "pending", "apply", "sweep", "flag", "approve", "submit", "processing",
        "dispute", "won", "lost", "refunded", "refundFailed"}

(* What the gateway tells of: the charge, its dispute, each refund.          *)
Hooks == [event : {"success", "failed", "dispute", "won", "lost"}, refund : {None}]
            \cup [event : {"refunded", "refundFailed"}, refund : RefundIds]

Hook(event, i) == [event |-> event, refund |-> i]
NoHook == Hook("none", None)
Idle == [op |-> "idle", seen |-> "ongoing", refund |-> None, hook |-> NoHook]

Init ==
    /\ setting \in Settings
    /\ pay = [status |-> "NONE", held |-> FALSE, credited |-> FALSE, refunded |-> 0]
    /\ ledger = [counted |-> 0, reversed |-> 0]
    /\ refunds = [i \in RefundIds |-> [status |-> "NONE", amount |-> 0, reverse |-> TRUE,
                                       approved |-> FALSE, sent |-> 0]]
    /\ gateway = [charge |-> "ongoing", right |-> TRUE, dispute |-> "none", returning |-> 0]
    /\ hooks = [h \in Hooks |-> "unsent"]
    /\ req = [r \in Requests |-> Idle]

Free(r) == IF setting.rough THEN req[r] = Idle ELSE \A q \in Requests : req[q] = Idle
Does(r, op) == req[r].op = op
End(r) == req' = [req EXCEPT ![r] = Idle]

(* assess() may hold a payment, and the gateway may charge a wrong amount.   *)
Risk == IF setting.risks THEN BOOLEAN ELSE {FALSE}

(* The end of a handler.  A webhook's is marked processed in a transaction   *)
(* of its own, so it may die in between and the message come again.          *)
Return(r) ==
    /\ End(r)
    /\ LET h == req[r].hook IN
       \/ h # NoHook /\ hooks' = [hooks EXCEPT ![h] = "processed"]
       \/ (h = NoHook \/ setting.rough) /\ UNCHANGED hooks

-----------------------------------------------------------------------------
(* transition(). *)

(* Mutant of AllowedFrom: a payment that failed or expired stays so.         *)
AllowedFromOpen(s) ==
    CASE s = "INITIALIZED" -> {"PENDING", "SUCCESS", "FAILED", "ABANDONED"}
      [] s = "PENDING" -> {"SUCCESS", "FAILED", "ABANDONED"}
      [] s = "SUCCESS" -> {"REFUNDED", "PARTIALLY_REFUNDED", "REVERSED", "DISPUTED"}
      [] s = "PARTIALLY_REFUNDED" -> {"REFUNDED", "DISPUTED", "REVERSED"}
      [] s = "DISPUTED" -> {"SUCCESS", "REVERSED", "REFUNDED"}
      [] OTHER -> {}

(* ALLOWED_TRANSITIONS. *)
AllowedFrom(s) ==
    CASE s = "INITIALIZED" -> {"PENDING", "SUCCESS", "FAILED", "ABANDONED"}
      [] s = "PENDING" -> {"SUCCESS", "FAILED", "ABANDONED"}
      [] s = "ABANDONED" -> {"SUCCESS", "FAILED"}
      [] s = "FAILED" -> {"SUCCESS"}
      [] s = "SUCCESS" -> {"REFUNDED", "PARTIALLY_REFUNDED", "REVERSED", "DISPUTED"}
      [] s = "PARTIALLY_REFUNDED" -> {"REFUNDED", "DISPUTED", "REVERSED"}
      [] s = "DISPUTED" -> {"SUCCESS", "REVERSED", "REFUNDED"}
      [] OTHER -> {}

(* A transition that is not allowed is recorded and ignored.                 *)
Moved(row, s) == IF s \in AllowedFrom(row.status) THEN [row EXCEPT !.status = s] ELSE row

(* reverse_votes. *)
ReversedVotes == [counted |-> 0, reversed |-> ledger.counted + ledger.reversed]

(* Mutant of Creditable: the status is not looked at.                        *)
CreditableUnpaid(row) ==
    /\ ~row.credited /\ ~row.held
    /\ ledger.counted + ledger.reversed = 0

(* credit_votes: the flag, the status, the hold, and the OneToOne.           *)
Creditable(row) ==
    /\ ~row.credited /\ row.status = "SUCCESS" /\ ~row.held
    /\ ledger.counted + ledger.reversed = 0

(* What credit_votes makes of the row and the ledger, inside the lock.       *)
Credit(row) ==
    IF Creditable(row)
    THEN pay' = [row EXCEPT !.credited = TRUE] /\ ledger' = [ledger EXCEPT !.counted = @ + 1]
    ELSE pay' = row /\ ledger' = ledger

-----------------------------------------------------------------------------
(* Checkout. *)

(* initiate_vote_payment saves the payment, held or not ...                  *)
Checkout(r) ==
    /\ pay.status = "NONE"
    /\ Free(r)
    /\ \E held \in Risk : pay' = [pay EXCEPT !.status = "INITIALIZED", !.held = held]
    /\ req' = [req EXCEPT ![r].op = "gateway"]
    /\ UNCHANGED <<setting, ledger, refunds, gateway, hooks>>

(* ... the gateway fails, or times out: the loaded row becomes FAILED ...    *)
CheckoutFails(r) ==
    /\ Does(r, "gateway")
    /\ pay' = [pay EXCEPT !.status = "FAILED"]
    /\ End(r)
    /\ UNCHANGED <<setting, ledger, refunds, gateway, hooks>>

(* ... or it answers; the row is read again ...                              *)
CheckoutRefresh(r) ==
    /\ Does(r, "gateway")
    /\ req' = [req EXCEPT ![r] = IF pay.status = "INITIALIZED"
                                 THEN [Idle EXCEPT !.op = "pending"] ELSE Idle]
    /\ UNCHANGED <<setting, pay, ledger, refunds, gateway, hooks>>

(* ... and set to PENDING without a lock.                                    *)
CheckoutPending(r) ==
    /\ Does(r, "pending")
    /\ pay' = [pay EXCEPT !.status = "PENDING"]
    /\ End(r)
    /\ UNCHANGED <<setting, ledger, refunds, gateway, hooks>>

-----------------------------------------------------------------------------
(* The gateway's truth. *)

(* verify: the customer returned, an official asked, a job found the payment *)
(* pending, or its status differs from the gateway's list.                   *)
Verify(r) ==
    /\ pay.status # "NONE"
    /\ Free(r)
    /\ req' = [req EXCEPT ![r] = [Idle EXCEPT !.op = "apply", !.seen = gateway.charge]]
    /\ UNCHANGED <<setting, pay, ledger, refunds, gateway, hooks>>

(* The rows reconcile() takes up: the gateway says otherwise, or a payment   *)
(* is still open, or was not credited.                                       *)
Differs ==
    \/ (gateway.charge = "success") #
            (pay.status \in {"SUCCESS", "PARTIALLY_REFUNDED", "REFUNDED", "DISPUTED"})
    \/ gateway.charge \in {"failed", "abandoned"} /\ pay.status \notin {"FAILED", "ABANDONED"}
    \/ pay.status \in {"INITIALIZED", "PENDING"}
    \/ pay.status = "SUCCESS" /\ ~pay.credited /\ ~pay.held

(* apply_gateway_result, 'success'. *)
ApplySuccess(r) ==
    /\ Does(r, "apply") /\ req[r].seen = "success"
    /\ LET row == Moved(pay, "SUCCESS") IN
       IF row.status # "SUCCESS" THEN pay' = row /\ ledger' = ledger
       ELSE IF ~gateway.right THEN pay' = [row EXCEPT !.held = TRUE] /\ ledger' = ledger
       ELSE \E risk \in (IF row.held \/ row.credited THEN {FALSE} ELSE Risk) :
                Credit([row EXCEPT !.held = @ \/ risk])
    /\ Return(r)
    /\ UNCHANGED <<setting, refunds, gateway>>

(* ... 'failed', 'abandoned', 'reversed', and any other status.              *)
ApplyOther(r) ==
    /\ Does(r, "apply") /\ req[r].seen # "success"
    /\ LET target == [failed |-> "FAILED", abandoned |-> "ABANDONED", reversed |-> "REVERSED",
                      ongoing |-> "PENDING"][req[r].seen] IN
       /\ pay' = Moved(pay, target)
       /\ ledger' = IF target = "REVERSED" /\ pay'.status # pay.status THEN ReversedVotes ELSE ledger
    /\ Return(r)
    /\ UNCHANGED <<setting, refunds, gateway>>

(* expire_abandoned, under the lock, when verify left the payment open.      *)
Expire ==
    /\ pay.status \in {"INITIALIZED", "PENDING"}
    /\ pay' = Moved(pay, "ABANDONED")
    /\ UNCHANGED <<setting, ledger, refunds, gateway, hooks, req>>

(* reconcile's last sweep loads what is paid but not credited ...            *)
SweepRead(r) ==
    /\ Free(r)
    /\ pay.status = "SUCCESS" /\ ~pay.credited /\ ~pay.held
    /\ req' = [req EXCEPT ![r].op = "sweep"]
    /\ UNCHANGED <<setting, pay, ledger, refunds, gateway, hooks>>

(* Mutant of NoLedger: the OneToOne is not there.                            *)
AnyLedger == TRUE

(* VoteTransaction.payment is a OneToOne. *)
NoLedger == ledger.counted + ledger.reversed = 0

(* ... credits it, on the loaded row and outside any transaction ...         *)
SweepCredit(r) ==
    /\ Does(r, "sweep")
    /\ NoLedger
    /\ ledger' = [ledger EXCEPT !.counted = @ + 1]
    /\ req' = [req EXCEPT ![r].op = "flag"]
    /\ UNCHANGED <<setting, pay, refunds, gateway, hooks>>

(* ... and flags it in the next statement.                                   *)
SweepFlag(r) ==
    /\ Does(r, "flag")
    /\ pay' = [pay EXCEPT !.credited = TRUE]
    /\ End(r)
    /\ UNCHANGED <<setting, ledger, refunds, gateway, hooks>>

(* An analyst dismisses the alert.                                           *)
ReleaseHeld ==
    /\ pay.held
    /\ Credit([pay EXCEPT !.held = FALSE])
    /\ UNCHANGED <<setting, refunds, gateway, hooks, req>>

-----------------------------------------------------------------------------
(* Refunds. *)

Requested(row, amount, reverse) ==
    [row EXCEPT !.status = "REQUESTED", !.amount = amount, !.reverse = reverse]

(* request_refund: checked against what was refunded so far, which nothing   *)
(* locks and requests under way do not count in.                             *)
RequestRefund(i, amount, reverse) ==
    /\ i \in setting.refunds /\ refunds[i].status = "NONE"
    /\ \A j \in RefundIds : j < i => refunds[j].status # "NONE"
    /\ pay.status \in {"SUCCESS", "PARTIALLY_REFUNDED", "DISPUTED"}
    /\ amount \in 1..(Amount - pay.refunded)
    /\ refunds' = [refunds EXCEPT ![i] = Requested(@, amount, reverse)]
    /\ UNCHANGED <<setting, pay, ledger, gateway, hooks, req>>

(* Mutant of Approvable: a refund already decided is taken again.            *)
ApprovableAgain(i) == refunds[i].status \in {"REQUESTED", "APPROVED", "PROCESSING"}

Approvable(i) == refunds[i].status = "REQUESTED"

(* approve_refund: the status is read ...                                    *)
ApproveRead(r, i) ==
    /\ Free(r)
    /\ Approvable(i)
    /\ req' = [req EXCEPT ![r] = [Idle EXCEPT !.op = "approve", !.refund = i]]
    /\ UNCHANGED <<setting, pay, ledger, refunds, gateway, hooks>>

(* ... and saved as APPROVED ...                                             *)
ApproveSave(r) ==
    /\ Does(r, "approve")
    /\ refunds' = [refunds EXCEPT ![req[r].refund] = [@ EXCEPT !.status = "APPROVED", !.approved = TRUE]]
    /\ req' = [req EXCEPT ![r].op = "submit"]
    /\ UNCHANGED <<setting, pay, ledger, gateway, hooks>>

(* ... the gateway takes it ...                                              *)
Submit(r) ==
    /\ Does(r, "submit")
    /\ LET i == req[r].refund IN
       /\ gateway.charge = "success" /\ gateway.returning + refunds[i].amount <= Amount
       /\ gateway' = [gateway EXCEPT !.returning = @ + refunds[i].amount]
       /\ refunds' = [refunds EXCEPT ![i].sent = @ + 1]
    /\ req' = [req EXCEPT ![r].op = "processing"]
    /\ UNCHANGED <<setting, pay, ledger, hooks>>

(* ... or refuses it ...                                                     *)
SubmitRefused(r) ==
    /\ Does(r, "submit")
    /\ refunds' = [refunds EXCEPT ![req[r].refund].status = "FAILED"]
    /\ End(r)
    /\ UNCHANGED <<setting, pay, ledger, gateway, hooks>>

(* ... and the row follows.                                                  *)
SubmitSave(r) ==
    /\ Does(r, "processing")
    /\ refunds' = [refunds EXCEPT ![req[r].refund].status = "PROCESSING"]
    /\ End(r)
    /\ UNCHANGED <<setting, pay, ledger, gateway, hooks>>

(* _webhook_refund does not look for the refund the message is about, but    *)
(* for the latest that is neither processed nor rejected.                    *)
Open == {i \in RefundIds : refunds[i].status \notin {"NONE", "PROCESSED"}}
LastOf(ids) == {i \in ids : \A j \in ids : j <= i}
Latest == IF LastOf(Open) = {} THEN None ELSE CHOOSE i \in LastOf(Open) : TRUE

(* _complete_refund, under the locks of refund and payment.                  *)
RefundProcessed(r) ==
    /\ Does(r, "refunded") /\ req[r].refund # None
    /\ LET i == req[r].refund
           total == pay.refunded + refunds[i].amount
       IN IF refunds[i].status = "PROCESSED" THEN UNCHANGED <<pay, ledger, refunds>>
          ELSE /\ refunds' = [refunds EXCEPT ![i].status = "PROCESSED"]
               /\ pay' = Moved([pay EXCEPT !.refunded = total],
                               IF total >= Amount THEN "REFUNDED" ELSE "PARTIALLY_REFUNDED")
               /\ ledger' = IF refunds[i].reverse THEN ReversedVotes ELSE ledger
    /\ Return(r)
    /\ UNCHANGED <<setting, gateway>>

(* An update that looks at no status.                                        *)
RefundFailed(r) ==
    /\ Does(r, "refundFailed") /\ req[r].refund # None
    /\ refunds' = [refunds EXCEPT ![req[r].refund].status = "FAILED"]
    /\ Return(r)
    /\ UNCHANGED <<setting, pay, ledger, gateway>>

(* No refund is open any more. *)
RefundIgnored(r) ==
    /\ req[r].op \in {"refunded", "refundFailed"} /\ req[r].refund = None
    /\ Return(r)
    /\ UNCHANGED <<setting, pay, ledger, refunds, gateway>>

-----------------------------------------------------------------------------
(* Chargebacks. *)

(* Mutant of DisputeOpened: the votes stay.                                  *)
DisputeOpenedKeepingVotes(row) == pay' = row /\ ledger' = ledger

(* _webhook_dispute, 'create': if the payment may be disputed, its votes go. *)
DisputeOpened(row) ==
    /\ pay' = row
    /\ ledger' = IF row.status # pay.status THEN ReversedVotes ELSE ledger

Dispute(r) ==
    /\ Does(r, "dispute")
    /\ DisputeOpened(Moved(pay, "DISPUTED"))
    /\ Return(r)
    /\ UNCHANGED <<setting, refunds, gateway>>

(* 'resolve': only the status moves. *)
DisputeResolved(r) ==
    /\ req[r].op \in {"won", "lost"}
    /\ pay' = Moved(pay, IF Does(r, "won") THEN "SUCCESS" ELSE "REVERSED")
    /\ Return(r)
    /\ UNCHANGED <<setting, ledger, refunds, gateway>>

-----------------------------------------------------------------------------
(* Webhooks. *)

(* handle_webhook: a payload that was not processed before is dispatched.    *)
Deliver(r, h) ==
    /\ Free(r)
    /\ hooks[h] = "sent"
    /\ pay.status # "NONE"
    /\ req' = [req EXCEPT ![r] =
                IF h.event \in {"success", "failed"}
                THEN [Idle EXCEPT !.op = "apply", !.seen = h.event, !.hook = h]
                ELSE [Idle EXCEPT !.op = h.event, !.hook = h,
                                  !.refund = IF h.refund = None THEN None ELSE Latest]]
    /\ UNCHANGED <<setting, pay, ledger, refunds, gateway, hooks>>

(* The gateway. A failed or abandoned charge may still be paid.              *)
Send(h) == hooks' = [hooks EXCEPT ![h] = "sent"]
Arrived(h) == setting.rough \/ hooks[h] = "processed"

GatewayCharges(right) ==
    /\ pay.status # "NONE"
    /\ gateway.charge \in {"ongoing", "failed", "abandoned"}
    /\ gateway' = [gateway EXCEPT !.charge = "success", !.right = right]
    /\ Send(Hook("success", None))
    /\ UNCHANGED <<setting, pay, ledger, refunds, req>>

GatewayFails ==
    /\ pay.status # "NONE" /\ gateway.charge = "ongoing"
    /\ gateway' = [gateway EXCEPT !.charge = "failed"]
    /\ Send(Hook("failed", None))
    /\ UNCHANGED <<setting, pay, ledger, refunds, req>>

GatewayEnds(charge) ==
    /\ pay.status # "NONE"
    /\ \/ charge = "abandoned" /\ gateway.charge = "ongoing"
       \/ charge = "reversed" /\ gateway.charge = "success"
    /\ gateway' = [gateway EXCEPT !.charge = charge]
    /\ UNCHANGED <<setting, pay, ledger, refunds, hooks, req>>

GatewayDisputes ==
    /\ setting.disputes /\ gateway.charge = "success" /\ gateway.dispute = "none"
    /\ Arrived(Hook("success", None))
    /\ gateway' = [gateway EXCEPT !.dispute = "open"]
    /\ Send(Hook("dispute", None))
    /\ UNCHANGED <<setting, pay, ledger, refunds, req>>

GatewayResolves(outcome) ==
    /\ gateway.dispute = "open"
    /\ Arrived(Hook("dispute", None))
    /\ gateway' = [gateway EXCEPT !.dispute = outcome]
    /\ Send(Hook(outcome, None))
    /\ UNCHANGED <<setting, pay, ledger, refunds, req>>

GatewayRefunds(i, event) ==
    /\ refunds[i].sent > 0
    /\ \A e \in {"refunded", "refundFailed"} : hooks[Hook(e, i)] = "unsent"
    /\ Send(Hook(event, i))
    /\ UNCHANGED <<setting, pay, ledger, refunds, gateway, req>>

(* A worker dies, or a check under a lock or the OneToOne stops it. *)
Abandon(r) ==
    /\ req[r] # Idle
    /\ \/ setting.rough
       \/ Does(r, "sweep") /\ ~NoLedger
    /\ End(r)
    /\ UNCHANGED <<setting, pay, ledger, refunds, gateway, hooks>>

-----------------------------------------------------------------------------
Gateway ==
    \/ \E wrong \in Risk : GatewayCharges(~wrong)
    \/ GatewayFails
    \/ \E charge \in {"abandoned", "reversed"} : GatewayEnds(charge)
    \/ GatewayDisputes
    \/ \E outcome \in {"won", "lost"} : GatewayResolves(outcome)
    \/ \E i \in RefundIds, event \in {"refunded", "refundFailed"} : GatewayRefunds(i, event)

Continues(r) ==
    \/ CheckoutFails(r) \/ CheckoutRefresh(r) \/ CheckoutPending(r)
    \/ ApplySuccess(r) \/ ApplyOther(r)
    \/ SweepCredit(r) \/ SweepFlag(r)
    \/ ApproveSave(r) \/ Submit(r) \/ SubmitRefused(r) \/ SubmitSave(r)
    \/ RefundProcessed(r) \/ RefundFailed(r) \/ RefundIgnored(r)
    \/ Dispute(r) \/ DisputeResolved(r)
    \/ Abandon(r)

Starts(r) ==
    \/ Checkout(r) \/ Verify(r) \/ SweepRead(r)
    \/ \E i \in RefundIds : ApproveRead(r, i)
    \/ \E h \in Hooks : Deliver(r, h)

Next ==
    \/ \E r \in Requests : Starts(r) \/ Continues(r)
    \/ Expire \/ ReleaseHeld
    \/ \E i \in RefundIds, amount \in 1..Amount, reverse \in BOOLEAN : RequestRefund(i, amount, reverse)
    \/ Gateway

Spec == Init /\ [][Next]_vars

(* Handlers end, and reconciliation takes up what differs, every 15 minutes. *)
Reconcile(r) == Differs /\ (Verify(r) \/ SweepRead(r))

Fairness ==
    /\ \A r \in Requests : WF_vars(Continues(r))
    /\ \A r \in Requests : SF_vars(Reconcile(r))

FairSpec == Spec /\ Fairness

-----------------------------------------------------------------------------
(* Correctness. *)

(* Every variable has its type. *)
TypeOK ==
    /\ setting \in Settings
    /\ pay \in [status : Statuses, held : BOOLEAN, credited : BOOLEAN, refunded : Nat]
    /\ ledger \in [counted : Nat, reversed : Nat]
    /\ refunds \in [RefundIds -> [status : RefundStatus, amount : 0..Amount, reverse : BOOLEAN,
                                  approved : BOOLEAN, sent : Nat]]
    /\ gateway \in [charge : Charges, right : BOOLEAN, dispute : {"none", "open", "won", "lost"},
                    returning : 0..Amount]
    /\ hooks \in [Hooks -> {"unsent", "sent", "processed"}]
    /\ req \in [Requests -> [op : Ops, seen : Charges, refund : RefundIds \cup {None},
                             hook : Hooks \cup {NoHook}]]

(* docs/DATABASE.md: "A payment credits votes at most once", whatever        *)
(* webhooks, returns, analysts and the unlocked sweep race for it.           *)
CreditedOnce == ledger.counted + ledger.reversed <= 1

(* The gateway took the money, if only to give it back.                      *)
Charged == gateway.charge \in {"success", "reversed"}

(* docs/ARCHITECTURE.md: "nothing is credited until Paystack confirms the    *)
(* charge": a vote is counted only if the gateway took the money.            *)
CountedWasPaid == ledger.counted > 0 => Charged

(* The abstract purchase: is it paid, and what does the ledger say.          *)
PV == INSTANCE PaidVotes
        WITH paid <- Charged, counted <- ledger.counted, reversed <- ledger.reversed

(* Every step of the code is a step of the abstract purchase or leaves it    *)
(* alone: credit_votes counts votes once, after the charge, and what         *)
(* reverse_votes took back no webhook, sweep or analyst counts again.        *)
ImplementsPaidVotes == PV!Spec

(* While a chargeback is open its votes do not count (calm).                 *)
DisputedVotesReversed == ~setting.rough /\ pay.status = "DISPUTED" => ledger.counted = 0

(* approve_refund hands a refund to the gateway once (calm).                 *)
RefundSentOnce == ~setting.rough => \A i \in RefundIds : refunds[i].sent <= 1

(* A charge the gateway made in full gets its votes, or waits for an analyst,*)
(* or is contested or refunded before (calm).                                *)
PaidIsCredited ==
    (~setting.rough /\ gateway.charge = "success" /\ gateway.right)
        ~> \/ ledger.counted + ledger.reversed > 0 \/ pay.held \/ gateway.charge = "reversed"
           \/ pay.status \in {"DISPUTED", "REVERSED", "PARTIALLY_REFUNDED", "REFUNDED"}

-----------------------------------------------------------------------------
(* Claims that the code does not keep. *)

(* service.py, approve_refund: 'Separation of duties: a different person     *)
(* must approve this refund.'  A refund that was processed was approved.     *)
ProcessedWasApproved ==
    \A i \in RefundIds : refunds[i].status = "PROCESSED" => refunds[i].approved
=============================================================================
