------------------------------- MODULE Billing -------------------------------
(***************************************************************************)
(* The subscription of one organization: trials, plan changes with a       *)
(* coupon, the daily renewal that issues invoices with the usage metered,  *)
(* and the payments of invoices.                                           *)
(*                                                                         *)
(* Grain of atomicity.  A request or the renewal task loads the row of the *)
(* subscription, without a lock, and saves it whole at its end, or between *)
(* other transactions; each transaction is a step, and a task may die      *)
(* between two.  "calm" tells whether requests wait for each other and     *)
(* none dies.                                                              *)
(***************************************************************************)
EXTENDS Integers, Sequences, FiniteSets

CONSTANTS
    Tasks,           \* requests and renewal tasks at work at one time
    Month, Trial,    \* the length of a billing period and of a trial
    LastDay,         \* bound: the days run from 0 to it
    MaxInvoices,     \* bound: the invoices issued
    MaxRedemptions,  \* of the one coupon
    FullCoupon       \* whether the coupon pays for everything

ASSUME BillingAssumption ==
    /\ Month \in Nat \ {0} /\ Trial \in Nat \ {0} /\ LastDay \in Nat
    /\ MaxInvoices \in Nat /\ MaxRedemptions \in Nat
    /\ FullCoupon \in BOOLEAN

VARIABLES
    calm,
    day,          \* the clock
    sub,          \* the Subscription row (current_period_start is only shown)
    invoices,     \* the Invoice rows, in the order of their numbers
    usage,        \* days on which usage was recorded, one row a day
    redemptions,  \* Coupon.redemptions
    redeemed,     \* how often the coupon was applied (not in the code)
    trials,       \* how many trials were started (not in the code)
    work          \* task -> what it does next, and the row it has loaded

billingVars == <<calm, day, sub, invoices, usage, redemptions, redeemed, trials, work>>

Plans == {"FREE", "PAID"}
Statuses == {"TRIALING", "ACTIVE", "PAST_DUE", "CANCELED"}
Subscription == [plan : Plans, status : Statuses, end : Int,
                 cancel : BOOLEAN, coupon : BOOLEAN]

(* "renewal", "trials" and "rows" are not in the code: which task issued the *)
(* invoice, how many trials there had been, and the usage it bills.          *)
Invoice == [from : Int, to : Int, status : {"OPEN", "PAID"},
            renewal : BOOLEAN, trials : Nat, rows : SUBSET Int]

Resting == [op |-> "rest"]
Busy(t) == work[t].op # "rest"
Rest(t) == work' = [work EXCEPT ![t] = Resting]
Goes(t, op, row) == work' = [work EXCEPT ![t] = [op |-> op, row |-> row]]
Ready(t) == ~Busy(t) /\ (calm => \A v \in Tasks : ~Busy(v))

Later(a, b) == IF a >= b THEN a ELSE b

-----------------------------------------------------------------------------
(* generate_invoice, one transaction: the price of the plan; the usage       *)
(* recorded in the period, whether or not it is on an invoice already; the   *)
(* coupon. Nothing to pay is paid at once.                                   *)
Issued(row, from, to, renewal) ==
    LET rows == IF renewal THEN {u \in usage : from <= u /\ u < to} ELSE {}
        free == (row.plan = "FREE" /\ rows = {}) \/ (row.coupon /\ FullCoupon)
    IN [from |-> from, to |-> to, status |-> IF free THEN "PAID" ELSE "OPEN",
        renewal |-> renewal, trials |-> trials, rows |-> rows]

Issue(invoice) == Len(invoices) < MaxInvoices /\ invoices' = Append(invoices, invoice)

BillingInit ==
    /\ calm \in BOOLEAN
    /\ day = 0
    /\ sub = [plan |-> "FREE", status |-> "ACTIVE", end |-> Month,
              cancel |-> FALSE, coupon |-> FALSE]
    /\ invoices = <<>> /\ usage = {} /\ redemptions = 0 /\ redeemed = 0 /\ trials = 0
    /\ work = [t \in Tasks |-> Resting]

NextDay ==
    /\ day < LastDay
    /\ day' = day + 1
    /\ UNCHANGED <<calm, sub, invoices, usage, redemptions, redeemed, trials, work>>

(* record_usage: an election, voters, a message. *)
RecordUsage ==
    /\ day \notin usage
    /\ usage' = usage \cup {day}
    /\ UNCHANGED <<calm, day, sub, invoices, redemptions, redeemed, trials, work>>

(* billing_home loads the row, then start_trial or the cancel flag saves it. *)
LoadRow(t) ==
    /\ Ready(t)
    /\ \E op \in {"trial", "cancel"} : Goes(t, op, sub)
    /\ UNCHANGED <<calm, day, sub, invoices, usage, redemptions, redeemed, trials>>

StartTrial(t) ==
    /\ work[t].op = "trial"
    /\ sub' = [work[t].row EXCEPT !.plan = "PAID", !.status = "TRIALING", !.end = day + Trial]
    /\ trials' = trials + 1
    /\ Rest(t)
    /\ UNCHANGED <<calm, day, invoices, usage, redemptions, redeemed>>

Cancel(t) ==
    /\ work[t].op = "cancel"
    /\ sub' = [sub EXCEPT !.cancel = ~work[t].row.cancel]
    /\ Rest(t)
    /\ UNCHANGED <<calm, day, invoices, usage, redemptions, redeemed, trials>>

(* change_plan reads the row and the coupon ...                              *)
ChangeLoad(t, plan, coupon) ==
    /\ Ready(t)
    /\ coupon => redemptions < MaxRedemptions
    /\ LET row == [sub EXCEPT !.plan = plan, !.coupon = coupon \/ sub.coupon,
                              !.status = IF plan = "FREE" THEN "ACTIVE" ELSE sub.status]
       IN work' = [work EXCEPT ![t] =
                     IF coupon THEN [op |-> "redeem", row |-> row, count |-> redemptions]
                     ELSE [op |-> "change", row |-> row]]
    /\ UNCHANGED <<calm, day, sub, invoices, usage, redemptions, redeemed, trials>>

(* ... writes one more than it read ...                                      *)
ChangeRedeem(t) ==
    /\ work[t].op = "redeem"
    /\ redemptions' = work[t].count + 1
    /\ redeemed' = redeemed + 1
    /\ Goes(t, "change", work[t].row)
    /\ UNCHANGED <<calm, day, sub, invoices, usage, trials>>

(* ... saves the row, issues an invoice unless the plan is free or on trial  *)
ChangeSave(t) ==
    /\ work[t].op = "change"
    /\ sub' = work[t].row
    /\ IF work[t].row.plan = "PAID" /\ work[t].row.status # "TRIALING"
       THEN Goes(t, "bill", work[t].row) ELSE Rest(t)
    /\ UNCHANGED <<calm, day, invoices, usage, redemptions, redeemed, trials>>

ChangeBill(t) ==
    /\ work[t].op = "bill"
    /\ Issue(Issued(work[t].row, day, day + Month, FALSE))
    /\ Goes(t, "overdue", work[t].row)
    /\ UNCHANGED <<calm, day, sub, usage, redemptions, redeemed, trials>>

(* ... and sets the status, whatever became of the invoice.                  *)
ChangeOverdue(t) ==
    /\ work[t].op = "overdue"
    /\ sub' = [sub EXCEPT !.status = "PAST_DUE"]
    /\ Rest(t)
    /\ UNCHANGED <<calm, day, invoices, usage, redemptions, redeemed, trials>>

(* renew_due_subscriptions: the rows that are due are loaded ...             *)
RenewLoad(t) ==
    /\ Ready(t)
    /\ sub.end <= day /\ sub.status # "CANCELED"
    /\ Goes(t, IF sub.cancel THEN "end" ELSE "renew", sub)
    /\ UNCHANGED <<calm, day, sub, invoices, usage, redemptions, redeemed, trials>>

EndSubscription(t) ==
    /\ work[t].op = "end"
    /\ sub' = [sub EXCEPT !.status = "CANCELED"]
    /\ Rest(t)
    /\ UNCHANGED <<calm, day, invoices, usage, redemptions, redeemed, trials>>

(* ... the period that begins is invoiced ...                                *)
RenewBill(t) ==
    /\ work[t].op = "renew"
    /\ Issue(Issued(work[t].row, work[t].row.end, work[t].row.end + Month, TRUE))
    /\ work' = [work EXCEPT ![t] = [op |-> "renewed", row |-> work[t].row,
                                    paid |-> invoices'[Len(invoices')].status = "PAID"]]
    /\ UNCHANGED <<calm, day, sub, usage, redemptions, redeemed, trials>>

(* Mutant of Renewed: the period does not move while it is not paid.         *)
RenewedWhenPaid(row, paid) ==
    IF paid THEN [row EXCEPT !.end = row.end + Month, !.status = "ACTIVE"]
    ELSE [row EXCEPT !.status = "PAST_DUE"]

(* ... and the row is saved with it.                                         *)
Renewed(row, paid) == [row EXCEPT !.end = row.end + Month,
                                  !.status = IF paid THEN "ACTIVE" ELSE "PAST_DUE"]

RenewSave(t) ==
    /\ work[t].op = "renewed"
    /\ sub' = Renewed(work[t].row, work[t].paid)
    /\ Rest(t)
    /\ UNCHANGED <<calm, day, invoices, usage, redemptions, redeemed, trials>>

(* mark_invoice_paid, one transaction that holds the invoice's row from its  *)
(* first read ...                                                            *)
PayLoad(t, i) ==
    /\ Ready(t)
    /\ i <= Len(invoices) /\ invoices[i].status = "OPEN"
    /\ \A v \in Tasks : ~(work[v].op = "pay" /\ work[v].invoice = i)
    /\ work' = [work EXCEPT ![t] = [op |-> "pay", row |-> sub, invoice |-> i]]
    /\ UNCHANGED <<calm, day, sub, invoices, usage, redemptions, redeemed, trials>>

(* ... and saves the whole subscription with it.                             *)
PayCommit(t) ==
    /\ work[t].op = "pay"
    /\ LET i == work[t].invoice IN
       /\ invoices' = [invoices EXCEPT ![i].status = "PAID"]
       /\ sub' = [work[t].row EXCEPT !.status = "ACTIVE",
                                     !.end = Later(work[t].row.end, invoices[i].to)]
    /\ Rest(t)
    /\ UNCHANGED <<calm, day, usage, redemptions, redeemed, trials>>

(* A process dies, or a save fails: what it has not written is lost.         *)
Dies(t) ==
    /\ Busy(t) /\ ~calm
    /\ Rest(t)
    /\ UNCHANGED <<calm, day, sub, invoices, usage, redemptions, redeemed, trials>>

BillingNext ==
    \/ NextDay \/ RecordUsage
    \/ \E t \in Tasks :
        \/ LoadRow(t) \/ StartTrial(t) \/ Cancel(t)
        \/ \E plan \in Plans, coupon \in BOOLEAN : ChangeLoad(t, plan, coupon)
        \/ ChangeRedeem(t) \/ ChangeSave(t) \/ ChangeBill(t) \/ ChangeOverdue(t)
        \/ RenewLoad(t) \/ EndSubscription(t) \/ RenewBill(t) \/ RenewSave(t)
        \/ \E i \in 1..MaxInvoices : PayLoad(t, i)
        \/ PayCommit(t) \/ Dies(t)

BillingSpec == BillingInit /\ [][BillingNext]_billingVars

-----------------------------------------------------------------------------
(* Correctness. *)

BillingTypeOK ==
    /\ calm \in BOOLEAN
    /\ day \in 0..LastDay
    /\ sub \in Subscription
    /\ invoices \in Seq(Invoice)
    /\ usage \subseteq 0..LastDay
    /\ redemptions \in Nat /\ redeemed \in Nat /\ trials \in Nat

(* Usage is on one invoice at most, although the query that bills it does    *)
(* not ask whether it is on another; and between two trials no two renewals  *)
(* are for the same time.                                                    *)
RenewedOnce ==
    \A i, j \in 1..Len(invoices) : i # j =>
        /\ invoices[i].rows \cap invoices[j].rows = {}
        /\ invoices[i].renewal /\ invoices[j].renewal /\ invoices[i].trials = invoices[j].trials
             => invoices[i].to <= invoices[j].from \/ invoices[j].to <= invoices[i].from

(* An organization is past due only while it has something to pay: unless    *)
(* the coupon pays for everything, then change_plan leaves it past due with  *)
(* nothing to pay.                                                           *)
PastDueOwes ==
    sub.status = "PAST_DUE" /\ ~FullCoupon => \E i \in 1..Len(invoices) : invoices[i].status = "OPEN"

(* What was paid for is not taken back, until another trial.                 *)
PaidTimeIsKept ==
    \A i \in 1..Len(invoices) :
        invoices[i].status = "PAID" /\ invoices[i].trials = trials /\ invoices[i].renewal
            => \/ sub.end >= invoices[i].to
               \/ \E t \in Tasks : work[t].op = "renewed"

(* Billing is right as long as the renewals, the plan changes and the        *)
(* payments do not overlap and none of them stops half-way; the coupon is    *)
(* then used at most max_redemptions times.                                  *)
BilledOnce ==
    calm => /\ RenewedOnce /\ PaidTimeIsKept
            /\ (\A t \in Tasks : ~Busy(t)) => PastDueOwes
            /\ redemptions = redeemed /\ redeemed <= MaxRedemptions
=============================================================================
