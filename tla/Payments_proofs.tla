--------------------------- MODULE Payments_proofs ---------------------------
(***************************************************************************)
(* What TLAPS proves about Payments for every number of handlers and       *)
(* refunds and every amount.  Calm or rough, votes are credited at most    *)
(* once, and only for money that was taken, and once reversed they are not *)
(* counted again: Payments implements PaidVotes.  Calm, the votes of a     *)
(* disputed payment do not count and a refund is sent once.                *)
(***************************************************************************)
EXTENDS Payments, TLAPS

PaidStatuses == {"SUCCESS", "PARTIALLY_REFUNDED", "REFUNDED", "REVERSED", "DISPUTED"}

(* Messages and handlers that make a payment SUCCESS, or credit it. *)
PaidHooks == {h \in Hooks : h.event \in {"success", "dispute", "won", "lost"}}
Credits(q) == q.op \in {"sweep", "flag", "won"} \/ (q.op = "apply" /\ q.seen = "success")

(* Whoever says that a payment was paid, the gateway said so before. *)
RowSaysPaid == pay.status \in PaidStatuses => Charged
HandlersSayPaid == \A r \in Requests : Credits(req[r]) => Charged
HooksSayPaid == \A h \in PaidHooks : hooks[h] # "unsent" => Charged
DisputeSaysPaid == gateway.dispute # "none" => Charged

(* A handler that answers a webhook has received it. *)
Answers == \A r \in Requests : req[r].hook # NoHook => hooks[req[r].hook] # "unsent"

(* An approval is of a refund. *)
Approving == {"approve", "submit", "processing"}
ApprovesOne == \A r \in Requests : req[r].op \in Approving => req[r].refund # None

IInv ==
    /\ TypeOK
    /\ CreditedOnce
    /\ CountedWasPaid
    /\ RowSaysPaid
    /\ HandlersSayPaid
    /\ HooksSayPaid
    /\ DisputeSaysPaid
    /\ Answers
    /\ ApprovesOne

-----------------------------------------------------------------------------
(* Operators. *)

PayRow == [status : Statuses, held : BOOLEAN, credited : BOOLEAN, refunded : Nat]
Ledger == [counted : Nat, reversed : Nat]
Request == [op : Ops, seen : Charges, refund : RefundIds \cup {None}, hook : Hooks \cup {NoHook}]

(* A transition keeps the rest of the row, and reaches a paid status from an *)
(* unpaid one only by SUCCESS.                                               *)
LEMMA MovedRow ==
  ASSUME NEW row \in PayRow, NEW s \in Statuses
  PROVE  /\ Moved(row, s) \in PayRow
         /\ Moved(row, s).held = row.held /\ Moved(row, s).credited = row.credited
         /\ Moved(row, s).status \in {row.status, s}
         /\ s # "SUCCESS" /\ Moved(row, s).status \in PaidStatuses => row.status \in PaidStatuses
<1>1. s \in AllowedFrom(row.status) /\ s # "SUCCESS" /\ s \in PaidStatuses => row.status \in PaidStatuses
  BY DEF AllowedFrom, PaidStatuses, PayRow, Statuses
<1>2. QED
  BY <1>1 DEF Moved, PayRow

(* Reversing moves what counts, and makes nothing of nothing. *)
LEMMA ReversedLedger ==
  ASSUME ledger \in Ledger, CreditedOnce
  PROVE  /\ ReversedVotes \in Ledger
         /\ ReversedVotes.counted = 0
         /\ ReversedVotes.counted + ReversedVotes.reversed <= 1
  BY DEF ReversedVotes, Ledger, CreditedOnce

(* A credit happens once, and to a payment that is SUCCESS. *)
LEMMA CreditKeeps ==
  ASSUME NEW row \in PayRow, ledger \in Ledger, CreditedOnce, Credit(row)
  PROVE  /\ pay' \in PayRow /\ ledger' \in Ledger
         /\ CreditedOnce'
         /\ pay'.status = row.status
         /\ \/ ledger' = ledger
            \/ row.status = "SUCCESS" /\ ledger'.counted > 0
<1>1. CASE Creditable(row)
  <2>1. pay' = [row EXCEPT !.credited = TRUE] /\ ledger' = [ledger EXCEPT !.counted = @ + 1]
    BY <1>1 DEF Credit
  <2>2. pay' \in PayRow /\ pay'.status = row.status
    BY <2>1 DEF PayRow
  <2>3. ledger' \in Ledger /\ ledger'.counted = 1 /\ ledger'.reversed = 0
    BY <1>1, <2>1 DEF Ledger, Creditable
  <2>4. QED
    BY <1>1, <2>2, <2>3 DEF Creditable, CreditedOnce
<1>2. CASE ~Creditable(row)
  BY <1>2 DEF Credit, CreditedOnce
<1>3. QED
  BY <1>1, <1>2

(* The end of a handler, whether its webhook is marked or not.               *)
LEMMA Returning ==
  ASSUME TypeOK, Answers, NEW r \in Requests, Return(r)
  PROVE  /\ req' \in [Requests -> Request] /\ hooks' \in [Hooks -> {"unsent", "sent", "processed"}]
         /\ req'[r] = Idle /\ \A q \in Requests \ {r} : req'[q] = req[q]
         /\ \A h \in Hooks : hooks[h] = "unsent" <=> hooks'[h] = "unsent"
<1>1. Idle \in Request
  BY DEF Idle, Request, Ops, Charges
<1>2. req \in [Requests -> Request] /\ req' = [req EXCEPT ![r] = Idle]
  BY DEF Return, End, TypeOK, Request
<1>3. \/ hooks' = hooks
      \/ req[r].hook # NoHook /\ hooks' = [hooks EXCEPT ![req[r].hook] = "processed"]
  BY DEF Return
<1>4. hooks \in [Hooks -> {"unsent", "sent", "processed"}] /\ req[r].hook \in Hooks \cup {NoHook}
  BY <1>2 DEF TypeOK, Request
<1>5. QED
  BY <1>1, <1>2, <1>3, <1>4 DEF Answers

-----------------------------------------------------------------------------
(* The inductive invariant. *)

(* The initial state: no money, no votes, no messages. *)
LEMMA InitInv == Init => IInv
<1> SUFFICES ASSUME Init PROVE IInv
  OBVIOUS
<1>1. TypeOK
  BY PaymentsAssumption DEF Init, TypeOK, Statuses, RefundStatus, Charges, Idle, Ops
<1>2. CreditedOnce /\ CountedWasPaid /\ RowSaysPaid /\ DisputeSaysPaid
  BY DEF Init, CreditedOnce, CountedWasPaid, RowSaysPaid, DisputeSaysPaid, PaidStatuses
<1>3. HandlersSayPaid /\ HooksSayPaid /\ Answers /\ ApprovesOne
  BY DEF Init, HandlersSayPaid, HooksSayPaid, Answers, ApprovesOne, Approving, Credits, Idle, PaidHooks
<1>4. QED
  BY <1>1, <1>2, <1>3 DEF IInv

(* What a handler may hold. *)
Sound(q) ==
    /\ Credits(q) => Charged
    /\ q.hook # NoHook => q.hook \in Hooks /\ hooks[q.hook] # "unsent"
    /\ q.op \in Approving => q.refund # None

(* A step of the program, which moves neither charge nor dispute, keeps the  *)
(* invariant if it pays and credits only what was charged.                   *)
LEMMA StepKeeps ==
  ASSUME IInv, TypeOK', gateway'.charge = gateway.charge, gateway'.dispute = gateway.dispute,
         pay'.status \in PaidStatuses => Charged,
         CreditedOnce', ledger'.counted > 0 => Charged,
         \A h \in Hooks : hooks[h] = "unsent" <=> hooks'[h] = "unsent",
         \A r \in Requests : req'[r] = req[r] \/ Sound(req'[r])
  PROVE  IInv'
<1>1. Charged' <=> Charged
  BY DEF Charged
<1>2. CountedWasPaid' /\ RowSaysPaid' /\ DisputeSaysPaid'
  BY <1>1 DEF CountedWasPaid, RowSaysPaid, DisputeSaysPaid, IInv, Charged
<1>3. HooksSayPaid'
  BY <1>1 DEF HooksSayPaid, PaidHooks, IInv
<1>4. HandlersSayPaid'
  BY <1>1 DEF HandlersSayPaid, Sound, IInv
<1>5. Answers'
  BY DEF Answers, Sound, IInv, TypeOK, Request
<1>6. ApprovesOne'
  BY DEF ApprovesOne, Sound, IInv
<1>7. QED
  BY <1>2, <1>3, <1>4, <1>5, <1>6 DEF IInv

(* The same of a step that leaves the ledger and the messages alone.         *)
LEMMA QuietStep ==
  ASSUME IInv, TypeOK', UNCHANGED <<gateway, ledger, hooks>>,
         pay'.status \in PaidStatuses => Charged,
         \A r \in Requests : req'[r] = req[r] \/ Sound(req'[r])
  PROVE  IInv'
<1>1. CreditedOnce' /\ (ledger'.counted > 0 => Charged)
  BY DEF IInv, CreditedOnce, CountedWasPaid, Charged
<1>2. QED
  BY <1>1, StepKeeps

(* Checkout. *)
LEMMA CheckoutStep ==
  ASSUME IInv, NEW r \in Requests,
         Checkout(r) \/ CheckoutFails(r) \/ CheckoutRefresh(r) \/ CheckoutPending(r)
  PROVE  IInv'
<1>1. PICK q \in Request : req' = [req EXCEPT ![r] = q] /\ Sound(q)
  <2>1. req[r] \in Request /\ Sound(Idle) /\ Idle \in Request
    BY DEF IInv, TypeOK, Request, Sound, Idle, Ops, Charges, Credits, Approving
  <2>2. CASE Checkout(r)
    <3>1. req' = [req EXCEPT ![r] = [req[r] EXCEPT !.op = "gateway"]]
      BY <2>2 DEF Checkout, IInv, TypeOK
    <3>2. [req[r] EXCEPT !.op = "gateway"] \in Request /\ Sound([req[r] EXCEPT !.op = "gateway"])
      BY <2>1 DEF Request, Ops, Sound, Credits, Approving, IInv, Answers
    <3>3. QED
      BY <3>1, <3>2
  <2>3. CASE CheckoutFails(r) \/ CheckoutPending(r)
    BY <2>1, <2>3 DEF CheckoutFails, CheckoutPending, End
  <2>4. CASE CheckoutRefresh(r)
    <3>1. [Idle EXCEPT !.op = "pending"] \in Request /\ Sound([Idle EXCEPT !.op = "pending"])
      BY <2>1 DEF Request, Ops, Sound, Credits, Approving, Idle
    <3>2. QED
      BY <2>1, <2>4, <3>1 DEF CheckoutRefresh
  <2>5. QED
    BY <2>2, <2>3, <2>4
<1>2. pay' \in PayRow /\ (pay'.status \in PaidStatuses => pay' = pay)
  <2> pay \in PayRow
    BY DEF IInv, TypeOK, PayRow
  <2>1. CASE Checkout(r)
    <3>1. PICK held \in BOOLEAN : pay' = [pay EXCEPT !.status = "INITIALIZED", !.held = held]
      BY <2>1 DEF Checkout, Risk
    <3>2. QED
      BY <3>1 DEF PayRow, Statuses, PaidStatuses
  <2>2. CASE pay' = [pay EXCEPT !.status = "FAILED"] \/ pay' = [pay EXCEPT !.status = "PENDING"]
    BY <2>2 DEF PayRow, Statuses, PaidStatuses
  <2>3. QED
    BY <2>1, <2>2 DEF CheckoutFails, CheckoutRefresh, CheckoutPending
<1>3. UNCHANGED <<setting, ledger, refunds, gateway, hooks>>
  BY DEF Checkout, CheckoutFails, CheckoutRefresh, CheckoutPending
<1>4. TypeOK'
  BY <1>1, <1>2, <1>3 DEF IInv, TypeOK, Request, PayRow
<1>5. pay'.status \in PaidStatuses => Charged
  BY <1>2 DEF IInv, RowSaysPaid
<1>6. \A rr \in Requests : req'[rr] = req[rr] \/ Sound(req'[rr])
  BY <1>1 DEF IInv, TypeOK
<1>7. QED
  BY <1>3, <1>4, <1>5, <1>6, QuietStep

(* A handler that begins, or goes on, with a given job. *)
LEMMA NextJob ==
  ASSUME IInv, NEW r \in Requests, NEW q \in Request, Sound(q), req' = [req EXCEPT ![r] = q]
  PROVE  /\ req' \in [Requests -> Request]
         /\ \A p \in Requests : req'[p] = req[p] \/ Sound(req'[p])
  BY DEF IInv, TypeOK, Request

(* The next statement of the same handler. *)
LEMMA SameHandler ==
  ASSUME IInv, NEW r \in Requests, NEW op \in Ops, op \notin {"apply", "won"},
         op \in {"sweep", "flag"} => Charged, op \in Approving => req[r].refund # None
  PROVE  /\ [req[r] EXCEPT !.op = op] \in Request
         /\ Sound([req[r] EXCEPT !.op = op])
<1>1. req[r] \in Request
  BY DEF IInv, TypeOK, Request
<1>2. req[r].hook # NoHook => req[r].hook \in Hooks /\ hooks[req[r].hook] # "unsent"
  BY <1>1 DEF IInv, Answers, Request
<1>3. QED
  BY <1>1, <1>2 DEF Request, Sound, Credits, Approving

(* A handler at rest. *)
LEMMA IdleJob == Idle \in Request /\ Sound(Idle)
  BY DEF Idle, Request, Ops, Charges, Sound, Credits, Approving

(* The gateway's answer to verify() and the rows a sweep loads. *)
LEMMA ReadStep ==
  ASSUME IInv, NEW r \in Requests, Verify(r) \/ SweepRead(r)
  PROVE  IInv'
<1>1. UNCHANGED <<setting, pay, ledger, refunds, gateway, hooks>>
  BY DEF Verify, SweepRead
<1>2. PICK q \in Request : req' = [req EXCEPT ![r] = q] /\ Sound(q)
  <2>1. CASE Verify(r)
    <3> DEFINE q == [Idle EXCEPT !.op = "apply", !.seen = gateway.charge]
    <3>1. q \in Request /\ Sound(q)
      BY DEF IInv, TypeOK, Idle, Request, Ops, Sound, Credits, Approving, Charged
    <3>2. QED
      BY <2>1, <3>1 DEF Verify
  <2>2. CASE SweepRead(r)
    <3>1. Charged
      BY <2>2 DEF SweepRead, IInv, RowSaysPaid, PaidStatuses
    <3>2. req' = [req EXCEPT ![r] = [req[r] EXCEPT !.op = "sweep"]]
      BY <2>2 DEF SweepRead, IInv, TypeOK
    <3>3. QED
      BY <3>1, <3>2, SameHandler DEF Ops, Approving
  <2>3. QED
    BY <2>1, <2>2
<1>3. TypeOK'
  BY <1>1, <1>2, NextJob DEF IInv, TypeOK, Request
<1>4. QED
  BY <1>1, <1>2, <1>3, NextJob, QuietStep DEF IInv, RowSaysPaid

(* apply_gateway_result. *)
LEMMA ApplyStep ==
  ASSUME IInv, NEW r \in Requests, ApplySuccess(r) \/ ApplyOther(r)
  PROVE  IInv'
<1>0. pay \in PayRow /\ ledger \in Ledger /\ CreditedOnce /\ TypeOK /\ req[r] \in Request
  BY DEF IInv, TypeOK, PayRow, Ledger, Request
<1>1. Return(r) /\ UNCHANGED <<setting, refunds, gateway>>
  BY DEF ApplySuccess, ApplyOther
<1>2. /\ pay' \in PayRow /\ ledger' \in Ledger /\ CreditedOnce'
      /\ pay'.status \in PaidStatuses => Charged
      /\ ledger'.counted > 0 => Charged
  <2>1. CASE ApplySuccess(r)
    <3> DEFINE row == Moved(pay, "SUCCESS")
    <3>1. Charged
      BY <2>1 DEF ApplySuccess, Does, IInv, HandlersSayPaid, Credits
    <3>2. row \in PayRow
      BY <1>0, MovedRow DEF Statuses
    <3>3. \/ pay' \in PayRow /\ ledger' = ledger
          \/ \E risk \in BOOLEAN : Credit([row EXCEPT !.held = @ \/ risk])
      <4>1. \/ pay' = row /\ ledger' = ledger
            \/ pay' = [row EXCEPT !.held = TRUE] /\ ledger' = ledger
            \/ \E risk \in (IF row.held \/ row.credited THEN {FALSE} ELSE Risk) :
                  Credit([row EXCEPT !.held = @ \/ risk])
        BY <2>1, Zenon DEF ApplySuccess
      <4>2. [row EXCEPT !.held = TRUE] \in PayRow
        BY <3>2 DEF PayRow
      <4>3. (IF row.held \/ row.credited THEN {FALSE} ELSE Risk) \subseteq BOOLEAN
        BY DEF Risk
      <4>4. QED
        BY <3>2, <4>1, <4>2, <4>3
    <3>4. CASE ledger' = ledger /\ pay' \in PayRow
      BY <1>0, <3>1, <3>4 DEF CreditedOnce
    <3>5. ASSUME NEW risk \in BOOLEAN, Credit([row EXCEPT !.held = @ \/ risk])
          PROVE  pay' \in PayRow /\ ledger' \in Ledger /\ CreditedOnce'
      <4>1. [row EXCEPT !.held = @ \/ risk] \in PayRow
        BY <3>2 DEF PayRow
      <4>2. QED
        BY <1>0, <3>5, <4>1, CreditKeeps
    <3>6. QED
      BY <3>1, <3>3, <3>4, <3>5
  <2>2. CASE ApplyOther(r)
    <3>1. PICK target \in {"FAILED", "ABANDONED", "REVERSED", "PENDING"} :
            /\ pay' = Moved(pay, target)
            /\ ledger' = ledger \/ ledger' = ReversedVotes
      BY <1>0, <2>2 DEF ApplyOther, Request, Charges
    <3>2. pay' \in PayRow /\ (pay'.status \in PaidStatuses => pay.status \in PaidStatuses)
      BY <1>0, <3>1, MovedRow DEF Statuses
    <3>3. ledger' \in Ledger /\ CreditedOnce' /\ (ledger'.counted > 0 => ledger' = ledger)
      BY <1>0, <3>1, ReversedLedger DEF CreditedOnce
    <3>4. QED
      BY <3>2, <3>3 DEF IInv, RowSaysPaid, CountedWasPaid, Charged
  <2>3. QED
    BY <2>1, <2>2
<1>3. TypeOK'
  BY <1>0, <1>1, <1>2, Returning DEF IInv, TypeOK, PayRow, Ledger, Request
<1>4. QED
  BY <1>0, <1>1, <1>2, <1>3, Returning, IdleJob, StepKeeps DEF IInv

(* The sweep credits what is there to be credited, and flags it. *)
LEMMA SweepStep ==
  ASSUME IInv, NEW r \in Requests, SweepCredit(r) \/ SweepFlag(r)
  PROVE  IInv'
<1>0. pay \in PayRow /\ ledger \in Ledger
  BY DEF IInv, TypeOK, PayRow, Ledger
<1>1. Charged
  BY DEF SweepCredit, SweepFlag, Does, IInv, HandlersSayPaid, Credits
<1>2. ledger' \in Ledger /\ CreditedOnce'
  <2>1. CASE SweepCredit(r)
    BY <1>0, <2>1 DEF SweepCredit, NoLedger, CreditedOnce, Ledger
  <2>2. CASE SweepFlag(r)
    BY <1>0, <2>2 DEF SweepFlag, CreditedOnce, IInv
  <2>3. QED
    BY <2>1, <2>2
<1>3. PICK q \in Request : req' = [req EXCEPT ![r] = q] /\ Sound(q)
  <2>1. CASE SweepCredit(r)
    <3>1. req' = [req EXCEPT ![r] = [req[r] EXCEPT !.op = "flag"]]
      BY <2>1 DEF SweepCredit, IInv, TypeOK
    <3>2. QED
      BY <1>1, <3>1, SameHandler DEF Ops, Approving
  <2>2. CASE SweepFlag(r)
    BY <2>2, IdleJob DEF SweepFlag, End
  <2>3. QED
    BY <2>1, <2>2
<1>4. UNCHANGED <<setting, refunds, gateway, hooks>> /\ pay' \in PayRow
  BY <1>0 DEF SweepCredit, SweepFlag, PayRow
<1>5. TypeOK'
  BY <1>2, <1>3, <1>4, NextJob DEF IInv, TypeOK, Request, PayRow, Ledger
<1>6. QED
  BY <1>1, <1>2, <1>3, <1>4, <1>5, NextJob, StepKeeps

(* An analyst's release, and the expiry of an open payment. *)
LEMMA RowStep ==
  ASSUME IInv, ReleaseHeld \/ Expire
  PROVE  IInv'
<1>0. pay \in PayRow /\ ledger \in Ledger /\ CreditedOnce
  BY DEF IInv, TypeOK, PayRow, Ledger
<1>1. /\ pay' \in PayRow /\ ledger' \in Ledger /\ CreditedOnce'
      /\ pay'.status \in PaidStatuses => pay.status \in PaidStatuses
      /\ ledger' = ledger \/ pay.status = "SUCCESS"
  <2>1. CASE ReleaseHeld
    <3>1. [pay EXCEPT !.held = FALSE] \in PayRow /\ [pay EXCEPT !.held = FALSE].status = pay.status
      BY <1>0 DEF PayRow
    <3>2. QED
      BY <1>0, <2>1, <3>1, CreditKeeps DEF ReleaseHeld
  <2>2. CASE Expire
    BY <1>0, <2>2, MovedRow DEF Expire, Statuses, CreditedOnce
  <2>3. QED
    BY <2>1, <2>2
<1>2. UNCHANGED <<setting, refunds, gateway, hooks, req>>
  BY DEF ReleaseHeld, Expire
<1>3. TypeOK'
  BY <1>1, <1>2 DEF IInv, TypeOK, PayRow, Ledger
<1>4. QED
  BY <1>1, <1>2, <1>3, StepKeeps DEF IInv, RowSaysPaid, CountedWasPaid, PaidStatuses, Charged

(* A refund is requested. *)
LEMMA RequestStep ==
  ASSUME IInv, NEW i \in RefundIds, NEW amount \in 1..Amount, NEW reverse \in BOOLEAN,
         RequestRefund(i, amount, reverse)
  PROVE  IInv'
<1> DEFINE Refund == [status : RefundStatus, amount : 0..Amount, reverse : BOOLEAN,
                      approved : BOOLEAN, sent : Nat]
<1>1. refunds \in [RefundIds -> Refund] /\ amount \in 0..Amount
  BY PaymentsAssumption DEF IInv, TypeOK
<1>2. Requested(refunds[i], amount, reverse) \in Refund
  BY <1>1 DEF Requested, RefundStatus
<1>3. /\ refunds' = [refunds EXCEPT ![i] = Requested(refunds[i], amount, reverse)]
      /\ UNCHANGED <<setting, pay, ledger, gateway, hooks, req>>
  BY DEF RequestRefund
<1>4. TypeOK'
  BY <1>1, <1>2, <1>3 DEF IInv, TypeOK
<1>5. QED
  BY <1>3, <1>4, QuietStep DEF IInv, RowSaysPaid

(* Approving it, handing it over. *)
LEMMA RefundStep ==
  ASSUME IInv, NEW r \in Requests,
         \/ \E i \in RefundIds : ApproveRead(r, i)
         \/ ApproveSave(r) \/ SubmitRefused(r) \/ SubmitSave(r)
  PROVE  IInv'
<1> DEFINE Refund == [status : RefundStatus, amount : 0..Amount, reverse : BOOLEAN,
                      approved : BOOLEAN, sent : Nat]
<1>0. refunds \in [RefundIds -> Refund] /\ req \in [Requests -> Request] /\ Amount \in Nat
  BY PaymentsAssumption DEF IInv, TypeOK, Request
<1>1. \E q \in Request : req' = [req EXCEPT ![r] = q] /\ Sound(q)
  <2>1. ASSUME NEW i \in RefundIds, ApproveRead(r, i)
        PROVE  \E q \in Request : req' = [req EXCEPT ![r] = q] /\ Sound(q)
    <3> DEFINE q == [Idle EXCEPT !.op = "approve", !.refund = i]
    <3>1. q \in Request /\ Sound(q)
      BY PaymentsAssumption DEF Idle, Request, Ops, Charges, Sound, Credits, Approving
    <3>2. QED
      BY <2>1, <3>1 DEF ApproveRead
  <2>2. CASE ApproveSave(r)
    <3>1. req' = [req EXCEPT ![r] = [req[r] EXCEPT !.op = "submit"]]
      BY <1>0, <2>2 DEF ApproveSave
    <3>2. req[r].refund # None
      BY <2>2 DEF ApproveSave, Does, IInv, ApprovesOne, Approving
    <3>3. QED
      BY <3>1, <3>2, SameHandler DEF Ops, Approving
  <2>3. CASE SubmitRefused(r) \/ SubmitSave(r)
    BY <2>3, IdleJob DEF SubmitRefused, SubmitSave, End
  <2>4. QED
    BY <2>1, <2>2, <2>3
<1>2. refunds' \in [RefundIds -> Refund]
  <2>1. ASSUME NEW i, NEW status \in RefundStatus, refunds' = [refunds EXCEPT ![i].status = status]
        PROVE  refunds' \in [RefundIds -> Refund]
    BY <1>0, <2>1
  <2>2. CASE ApproveSave(r)
    BY <1>0, <2>2 DEF ApproveSave, RefundStatus
  <2>3. CASE SubmitRefused(r)
    <3>1. "FAILED" \in RefundStatus /\ refunds' = [refunds EXCEPT ![req[r].refund].status = "FAILED"]
      BY <2>3 DEF SubmitRefused, RefundStatus
    <3>2. QED
      BY <2>1, <3>1
  <2>4. CASE SubmitSave(r)
    <3>1. "PROCESSING" \in RefundStatus /\ refunds' = [refunds EXCEPT ![req[r].refund].status = "PROCESSING"]
      BY <2>4 DEF SubmitSave, RefundStatus
    <3>2. QED
      BY <2>1, <3>1
  <2>5. QED
    BY <1>0, <2>2, <2>3, <2>4 DEF ApproveRead
<1>3. UNCHANGED <<setting, pay, ledger, gateway, hooks>>
  BY DEF ApproveRead, ApproveSave, SubmitRefused, SubmitSave
<1>4. req' \in [Requests -> Request] /\ \A q \in Requests : req'[q] = req[q] \/ Sound(req'[q])
  BY <1>0, <1>1
<1>5. TypeOK'
  BY <1>2, <1>3, <1>4 DEF IInv, TypeOK, Request
<1>6. QED
  BY <1>3, <1>4, <1>5, QuietStep DEF IInv, RowSaysPaid

(* A webhook about a refund, or a chargeback. *)
LEMMA WebhookStep ==
  ASSUME IInv, NEW r \in Requests,
         \/ RefundProcessed(r) \/ RefundFailed(r) \/ RefundIgnored(r)
         \/ Dispute(r) \/ DisputeResolved(r)
  PROVE  IInv'
<1> DEFINE Refund == [status : RefundStatus, amount : 0..Amount, reverse : BOOLEAN,
                      approved : BOOLEAN, sent : Nat]
<1>0. /\ pay \in PayRow /\ ledger \in Ledger /\ CreditedOnce /\ TypeOK /\ Answers
      /\ refunds \in [RefundIds -> Refund] /\ req[r] \in Request /\ Amount \in Nat
  BY PaymentsAssumption DEF IInv, TypeOK, PayRow, Ledger, Request
<1>1. Return(r) /\ UNCHANGED <<setting, gateway>>
  BY DEF RefundProcessed, RefundFailed, RefundIgnored, Dispute, DisputeResolved
<1>2. ledger' \in {ledger, ReversedVotes}
  BY DEF RefundProcessed, RefundFailed, RefundIgnored, Dispute, DisputeResolved, DisputeOpened
<1>3. ledger' \in Ledger /\ CreditedOnce' /\ (ledger'.counted > 0 => Charged)
  BY <1>0, <1>2, ReversedLedger DEF CreditedOnce, IInv, CountedWasPaid, Charged
<1>4. pay' \in PayRow /\ (pay'.status \in PaidStatuses => Charged)
  <2>1. CASE RefundProcessed(r)
    <3> DEFINE row == [pay EXCEPT !.refunded = pay.refunded + refunds[req[r].refund].amount]
    <3>1. pay' = pay \/ \E s \in {"REFUNDED", "PARTIALLY_REFUNDED"} : pay' = Moved(row, s)
      BY <2>1 DEF RefundProcessed
    <3>2. row \in PayRow /\ row.status = pay.status
      BY <1>0, <2>1 DEF RefundProcessed, PayRow, Request
    <3> HIDE DEF row
    <3>3. ASSUME NEW s \in {"REFUNDED", "PARTIALLY_REFUNDED"}, pay' = Moved(row, s)
          PROVE  pay' \in PayRow /\ (pay'.status \in PaidStatuses => pay.status \in PaidStatuses)
      BY <3>2, <3>3, MovedRow DEF Statuses
    <3>4. QED
      BY <1>0, <3>1, <3>3 DEF IInv, RowSaysPaid
  <2>2. CASE RefundFailed(r) \/ RefundIgnored(r)
    BY <1>0, <2>2 DEF RefundFailed, RefundIgnored, IInv, RowSaysPaid
  <2>3. CASE Dispute(r)
    BY <1>0, <2>3, MovedRow DEF Dispute, DisputeOpened, Statuses, IInv, RowSaysPaid
  <2>4. CASE DisputeResolved(r)
    <3>1. CASE Does(r, "won")
      BY <1>0, <2>4, <3>1, MovedRow DEF DisputeResolved, Does, Statuses, IInv, HandlersSayPaid, Credits
    <3>2. CASE ~Does(r, "won")
      BY <1>0, <2>4, <3>2, MovedRow DEF DisputeResolved, Statuses, IInv, RowSaysPaid
    <3>3. QED
      BY <3>1, <3>2
  <2>5. QED
    BY <2>1, <2>2, <2>3, <2>4
<1>5. refunds' \in [RefundIds -> Refund]
  BY <1>0 DEF RefundProcessed, RefundFailed, RefundIgnored, Dispute, DisputeResolved, RefundStatus
<1>6. TypeOK'
  BY <1>0, <1>1, <1>3, <1>4, <1>5, Returning DEF TypeOK, PayRow, Ledger, Request
<1>7. QED
  BY <1>0, <1>1, <1>3, <1>4, <1>6, Returning, IdleJob, StepKeeps

(* A webhook arrives. *)
LEMMA DeliverStep ==
  ASSUME IInv, NEW r \in Requests, NEW h \in Hooks, Deliver(r, h)
  PROVE  IInv'
<1>1. Latest \in RefundIds \cup {None}
  BY DEF Latest, LastOf, Open
<1>2. hooks[h] = "sent" /\ UNCHANGED <<setting, pay, ledger, refunds, gateway, hooks>>
  BY DEF Deliver
<1>3. h \in PaidHooks => Charged
  BY <1>2 DEF IInv, HooksSayPaid
<1> DEFINE charge == [Idle EXCEPT !.op = "apply", !.seen = h.event, !.hook = h]
           other == [Idle EXCEPT !.op = h.event, !.hook = h,
                                 !.refund = IF h.refund = None THEN None ELSE Latest]
<1>4. CASE h.event \in {"success", "failed"}
  <2>1. charge \in Request
    BY <1>4 DEF Idle, Request, Ops, Charges
  <2>2. Sound(charge)
    BY <1>2, <1>3, <1>4 DEF Sound, Credits, Approving, Idle, PaidHooks
  <2>3. req' = [req EXCEPT ![r] = charge]
    BY <1>4 DEF Deliver
  <2>4. QED
    BY <1>2, <2>1, <2>2, <2>3, NextJob, QuietStep DEF IInv, TypeOK, Request, RowSaysPaid
<1>5. CASE h.event \notin {"success", "failed"}
  <2>0. h.event \in {"dispute", "won", "lost", "refunded", "refundFailed"}
    BY <1>5 DEF Hooks
  <2>1. other \in Request
    BY <1>1, <2>0 DEF Idle, Request, Ops, Charges
  <2>2. Sound(other)
    BY <1>2, <1>3, <2>0 DEF Sound, Credits, Approving, Idle, PaidHooks
  <2>3. req' = [req EXCEPT ![r] = other]
    BY <1>5 DEF Deliver
  <2>4. QED
    BY <1>2, <2>1, <2>2, <2>3, NextJob, QuietStep DEF IInv, TypeOK, Request, RowSaysPaid
<1>6. QED
  BY <1>4, <1>5

(* What the gateway does by itself: a charge, once taken, is never untaken.  *)
LEMMA GatewayStep ==
  ASSUME IInv, Gateway
  PROVE  IInv'
<1> DEFINE Truth == [charge : Charges, right : BOOLEAN, dispute : {"none", "open", "won", "lost"},
                     returning : 0..Amount]
<1>0. gateway \in Truth /\ hooks \in [Hooks -> {"unsent", "sent", "processed"}]
  BY DEF IInv, TypeOK
<1>1. UNCHANGED <<setting, pay, ledger, refunds, req>>
  BY DEF Gateway, GatewayCharges, GatewayFails, GatewayEnds, GatewayDisputes, GatewayResolves, GatewayRefunds
<1> DEFINE Says == /\ gateway' \in Truth
                   /\ Charged => Charged'
                   /\ gateway'.dispute # "none" => Charged'
                   /\ \/ hooks' = hooks
                      \/ \E h \in Hooks : Send(h) /\ (h \in PaidHooks => Charged')
<1>2. DisputeSaysPaid
  BY DEF IInv
<1>3. Says
  <2> USE <1>0, <1>2 DEF Charges, Charged, DisputeSaysPaid, Hook, Hooks, PaidHooks
  <2>1. ASSUME NEW right \in BOOLEAN, GatewayCharges(right) PROVE Says
    BY <2>1 DEF GatewayCharges
  <2>2. CASE GatewayFails
    BY <2>2 DEF GatewayFails
  <2>3. ASSUME NEW charge \in {"abandoned", "reversed"}, GatewayEnds(charge) PROVE Says
    BY <2>3 DEF GatewayEnds
  <2>4. CASE GatewayDisputes
    BY <2>4 DEF GatewayDisputes
  <2>5. ASSUME NEW outcome \in {"won", "lost"}, GatewayResolves(outcome) PROVE Says
    BY <2>5 DEF GatewayResolves
  <2>6. ASSUME NEW i \in RefundIds, NEW event \in {"refunded", "refundFailed"}, GatewayRefunds(i, event)
        PROVE  Says
    BY <2>6 DEF GatewayRefunds
  <2>7. ASSUME NEW wrong \in Risk, GatewayCharges(~wrong) PROVE Says
    BY <2>7, <2>1 DEF Risk
  <2>8. QED
    BY <2>2, <2>3, <2>4, <2>5, <2>6, <2>7 DEF Gateway
<1>4. ASSUME NEW h \in Hooks, hooks'[h] # hooks[h]
      PROVE  hooks'[h] = "sent" /\ (h \in PaidHooks => Charged')
  <2>1. PICK k \in Hooks : Send(k) /\ (k \in PaidHooks => Charged')
    BY <1>3, <1>4
  <2>2. h = k /\ hooks'[h] = "sent"
    BY <1>0, <1>4, <2>1 DEF Send
  <2>3. QED
    BY <2>1, <2>2
<1>5. TypeOK'
  <2>1. hooks' \in [Hooks -> {"unsent", "sent", "processed"}]
    BY <1>0, <1>3 DEF Send
  <2>2. QED
    BY <1>1, <1>3, <2>1 DEF IInv, TypeOK
<1>6. CreditedOnce' /\ CountedWasPaid' /\ RowSaysPaid'
  BY <1>1, <1>3 DEF IInv, CreditedOnce, CountedWasPaid, RowSaysPaid, Charged
<1>10. HandlersSayPaid' /\ DisputeSaysPaid' /\ ApprovesOne'
  BY <1>1, <1>3 DEF IInv, HandlersSayPaid, DisputeSaysPaid, ApprovesOne
<1>7. HooksSayPaid'
  BY <1>3, <1>4 DEF IInv, HooksSayPaid, PaidHooks
<1>8. Answers'
  <2>1. ASSUME NEW q \in Requests, req[q].hook # NoHook PROVE hooks'[req[q].hook] # "unsent"
    <3>1. req[q].hook \in Hooks /\ hooks[req[q].hook] # "unsent"
      BY <2>1 DEF IInv, Answers, TypeOK
    <3>2. QED
      BY <1>4, <3>1
  <2>2. QED
    BY <1>1, <2>1 DEF Answers
<1>9. QED
  BY <1>5, <1>6, <1>7, <1>8, <1>10 DEF IInv

(* The gateway takes a refund.  Only what it gives back changes with it. *)
LEMMA SubmitStep ==
  ASSUME IInv, NEW r \in Requests, Submit(r)
  PROVE  IInv'
<1> DEFINE i == req[r].refund
           amount == refunds[i].amount
<1>0. /\ gateway \in [charge : Charges, right : BOOLEAN, dispute : {"none", "open", "won", "lost"},
                      returning : 0..Amount]
      /\ req \in [Requests -> Request]
  BY DEF IInv, TypeOK, Request
<1>1. i \in RefundIds
  BY <1>0 DEF Submit, Does, IInv, ApprovesOne, Approving, Request
<1>2. /\ gateway' = [gateway EXCEPT !.returning = @ + amount] /\ gateway.returning + amount <= Amount
      /\ refunds' = [refunds EXCEPT ![i].sent = @ + 1]
      /\ req' = [req EXCEPT ![r] = [req[r] EXCEPT !.op = "processing"]]
      /\ UNCHANGED <<setting, pay, ledger, hooks>>
  BY <1>0 DEF Submit
<1>3. amount \in Nat /\ Amount \in Nat
  <2>1. Amount \in Nat
    BY PaymentsAssumption
  <2>2. refunds[i].amount \in 0..Amount
    BY <1>1 DEF IInv, TypeOK
  <2>3. QED
    BY <2>1, <2>2
<1>4. gateway' \in [charge : Charges, right : BOOLEAN, dispute : {"none", "open", "won", "lost"},
                    returning : 0..Amount]
  BY <1>0, <1>2, <1>3
<1>5. /\ req' \in [Requests -> Request]
      /\ \A q \in Requests : req'[q] = req[q] \/ Sound(req'[q])
  BY <1>0, <1>1, <1>2, SameHandler, NextJob, PaymentsAssumption DEF Ops, Approving
<1>6. TypeOK'
  BY <1>1, <1>2, <1>4, <1>5 DEF IInv, TypeOK, Request
<1>7. gateway'.charge = gateway.charge /\ gateway'.dispute = gateway.dispute
  BY <1>0, <1>2
<1>8. /\ CreditedOnce' /\ (ledger'.counted > 0 => Charged)
      /\ pay'.status \in PaidStatuses => Charged
  BY <1>2 DEF IInv, CreditedOnce, CountedWasPaid, RowSaysPaid, Charged
<1>9. QED
  BY <1>2, <1>5, <1>6, <1>7, <1>8, StepKeeps

(* A handler dies or gives up, and steps that change nothing. *)
LEMMA AbandonStep ==
  ASSUME IInv, NEW r \in Requests, Abandon(r)
  PROVE  IInv'
<1>1. UNCHANGED <<setting, pay, ledger, refunds, gateway, hooks>> /\ req' = [req EXCEPT ![r] = Idle]
  BY DEF Abandon, End
<1>2. TypeOK'
  BY <1>1, IdleJob DEF IInv, TypeOK, Request
<1>3. QED
  BY <1>1, <1>2, IdleJob, NextJob, QuietStep DEF IInv, RowSaysPaid

LEMMA StutterStep == IInv /\ UNCHANGED vars => IInv'
  BY DEF IInv, vars, TypeOK, CreditedOnce, CountedWasPaid, RowSaysPaid, HandlersSayPaid, HooksSayPaid,
         DisputeSaysPaid, Answers, ApprovesOne, Charged

(* Every step keeps the invariant, one lemma per part of the program. *)
LEMMA NextInv == IInv /\ [Next]_vars => IInv'
<1> SUFFICES ASSUME IInv, [Next]_vars PROVE IInv'
  OBVIOUS
<1>1. ASSUME NEW r \in Requests, Starts(r) PROVE IInv'
  BY <1>1, CheckoutStep, ReadStep, RefundStep, DeliverStep DEF Starts
<1>2. ASSUME NEW r \in Requests, Continues(r) PROVE IInv'
  BY <1>2, CheckoutStep, ApplyStep, SweepStep, RefundStep, SubmitStep, WebhookStep, AbandonStep DEF Continues
<1>3. CASE \E i \in RefundIds, amount \in 1..Amount, reverse \in BOOLEAN : RequestRefund(i, amount, reverse)
  BY <1>3, RequestStep
<1>4. CASE Expire \/ ReleaseHeld
  BY <1>4, RowStep
<1>5. CASE Gateway
  BY <1>5, GatewayStep
<1>6. CASE UNCHANGED vars
  BY <1>6, StutterStep
<1>7. QED
  BY <1>1, <1>2, <1>3, <1>4, <1>5, <1>6 DEF Next

LEMMA Invariance == Spec => []IInv
  BY InitInv, NextInv, PTL DEF Spec

-----------------------------------------------------------------------------
(* The calm setting: no two handlers at once, none dies half-way. *)

Calm == ~setting.rough
Alone == \A r, q \in Requests : r # q => req[r] = Idle \/ req[q] = Idle

(* What the sweep loaded is still so when it writes. *)
Sweeping == {"sweep", "flag"}
SweepSees == \A r \in Requests : req[r].op \in Sweeping => pay.status = "SUCCESS" /\ ~pay.held

(* A refund is sent after its approval, which is of a refund just requested. *)
Undecided == {"NONE", "REQUESTED"}
Unsent == \A i \in RefundIds : refunds[i].sent <= 1 /\ (refunds[i].status \in Undecided => refunds[i].sent = 0)
ApprovalSees == \A r \in Requests :
    /\ req[r].op = "approve" => refunds[req[r].refund].status = "REQUESTED"
    /\ req[r].op = "submit" => /\ refunds[req[r].refund].sent = 0
                               /\ refunds[req[r].refund].status \notin Undecided

CalmInv == Calm => Alone /\ SweepSees /\ Unsent /\ ApprovalSees /\ DisputedVotesReversed

LEMMA CalmStart == Init => CalmInv
  BY DEF Init, CalmInv, Alone, SweepSees, Sweeping, Unsent, Undecided, ApprovalSees, DisputedVotesReversed, Idle

(* A handler steps, or a new one begins: all the others are at rest.         *)
LEMMA CalmHandler ==
  ASSUME IInv, CalmInv, Calm, setting' = setting, NEW r \in Requests, req[r] # Idle \/ Free(r),
         NEW q \in Request, req' = [req EXCEPT ![r] = q],
         q.op \in Sweeping => pay'.status = "SUCCESS" /\ ~pay'.held,
         q.op = "approve" => refunds'[q.refund].status = "REQUESTED",
         q.op = "submit" => refunds'[q.refund].sent = 0 /\ refunds'[q.refund].status \notin Undecided,
         Unsent', DisputedVotesReversed'
  PROVE  CalmInv'
<1>1. \A p \in Requests : p # r => req[p] = Idle
  BY DEF CalmInv, Calm, Alone, Free
<1>2. /\ req \in [Requests -> Request] /\ req'[r] = q
      /\ \A p \in Requests : p # r => req'[p] = Idle
  BY <1>1 DEF IInv, TypeOK, Request
<1>3. Idle.op = "idle"
  BY DEF Idle
<1>4. Alone'
  BY <1>2 DEF Alone
<1>5. SweepSees'
  BY <1>2, <1>3 DEF SweepSees, Sweeping
<1>6. ApprovalSees'
  BY <1>2, <1>3 DEF ApprovalSees
<1>7. QED
  BY <1>4, <1>5, <1>6 DEF CalmInv

(* A handler ends. *)
LEMMA CalmEnd ==
  ASSUME IInv, CalmInv, Calm, setting' = setting, NEW r \in Requests, req[r] # Idle, End(r),
         Unsent', DisputedVotesReversed'
  PROVE  CalmInv'
<1>1. Idle.op = "idle"
  BY DEF Idle
<1>2. QED
  BY <1>1, IdleJob, CalmHandler DEF End, Sweeping

(* Something else steps. *)
LEMMA CalmOther ==
  ASSUME IInv, CalmInv, Calm, UNCHANGED <<setting, req>>,
         \A r \in Requests : req[r].op \in Sweeping => pay'.status = "SUCCESS" /\ ~pay'.held,
         \A i \in RefundIds : refunds[i].status # "NONE" => refunds'[i] = refunds[i],
         Unsent', DisputedVotesReversed'
  PROVE  CalmInv'
<1>1. Alone' /\ SweepSees'
  BY DEF CalmInv, Alone, SweepSees
<1>2. ASSUME NEW r \in Requests, req[r].op \in {"approve", "submit"}
      PROVE  refunds'[req[r].refund] = refunds[req[r].refund]
  <2>1. req[r].refund \in RefundIds
    BY <1>2 DEF IInv, ApprovesOne, Approving, TypeOK
  <2>2. refunds[req[r].refund].status # "NONE"
    BY <1>2 DEF CalmInv, ApprovalSees, Undecided
  <2>3. QED
    BY <2>1, <2>2
<1>3. ApprovalSees'
  BY <1>2 DEF CalmInv, ApprovalSees
<1>4. QED
  BY <1>1, <1>3 DEF CalmInv

(* What a transition makes disputed, and what it leaves so. *)
LEMMA MovedDisputed ==
  ASSUME NEW row \in PayRow, NEW s \in Statuses
  PROVE  /\ Moved(row, "SUCCESS").status # "DISPUTED"
         /\ s # "DISPUTED" /\ Moved(row, s).status = "DISPUTED" => row.status = "DISPUTED"
  BY DEF Moved, AllowedFrom, PayRow

LEMMA CalmCheckout ==
  ASSUME IInv, CalmInv, Calm, NEW r \in Requests,
         Checkout(r) \/ CheckoutFails(r) \/ CheckoutRefresh(r) \/ CheckoutPending(r) \/ Verify(r) \/ SweepRead(r)
  PROVE  CalmInv'
<1>0. pay \in PayRow /\ req[r] \in Request /\ Idle.op = "idle"
  BY DEF IInv, TypeOK, PayRow, Request, Idle
<1>1. /\ UNCHANGED <<setting, ledger, refunds>>
      /\ req[r] # Idle \/ Free(r)
  BY <1>0 DEF Checkout, CheckoutFails, CheckoutRefresh, CheckoutPending, Verify, SweepRead, Does
<1>2. Unsent'
  BY <1>1 DEF CalmInv, Unsent
<1>3. pay' = pay \/ pay'.status \in {"INITIALIZED", "FAILED", "PENDING"}
  <2>1. CASE Checkout(r)
    <3>1. PICK held : pay' = [pay EXCEPT !.status = "INITIALIZED", !.held = held]
      BY <2>1 DEF Checkout
    <3>2. QED
      BY <1>0, <3>1 DEF PayRow
  <2>2. CASE ~Checkout(r)
    BY <1>0, <2>2 DEF CheckoutFails, CheckoutRefresh, CheckoutPending, Verify, SweepRead, PayRow
  <2>3. QED
    BY <2>1, <2>2
<1>4. DisputedVotesReversed'
  BY <1>1, <1>3 DEF CalmInv, Calm, DisputedVotesReversed
<1>5. PICK q \in Request : /\ req' = [req EXCEPT ![r] = q]
                           /\ q.op \in {"gateway", "idle", "pending", "apply", "sweep"}
                           /\ q.op = "sweep" => pay' = pay /\ pay.status = "SUCCESS" /\ ~pay.held
  <2>1. CASE Checkout(r)
    <3>1. PICK q : q = [req[r] EXCEPT !.op = "gateway"]
      OBVIOUS
    <3>2. q \in Request /\ q.op = "gateway"
      BY <1>0, <3>1 DEF Request, Ops
    <3>3. req' = [req EXCEPT ![r] = q]
      BY <2>1, <3>1 DEF Checkout, IInv, TypeOK
    <3>4. QED
      BY <3>2, <3>3
  <2>2. CASE CheckoutFails(r) \/ CheckoutPending(r)
    BY <1>0, <2>2, IdleJob DEF CheckoutFails, CheckoutPending, End
  <2>3. CASE CheckoutRefresh(r)
    <3>1. PICK q : q = [Idle EXCEPT !.op = "pending"]
      OBVIOUS
    <3>2. q \in Request /\ q.op = "pending"
      BY <3>1, IdleJob DEF Request, Ops
    <3>3. req' = [req EXCEPT ![r] = q] \/ req' = [req EXCEPT ![r] = Idle]
      BY <2>3, <3>1 DEF CheckoutRefresh
    <3>4. QED
      BY <1>0, <3>2, <3>3, IdleJob
  <2>4. CASE Verify(r)
    <3>1. PICK q : q = [Idle EXCEPT !.op = "apply", !.seen = gateway.charge]
      OBVIOUS
    <3>2. q \in Request /\ q.op = "apply"
      BY <3>1, IdleJob DEF Request, Ops, IInv, TypeOK
    <3>3. req' = [req EXCEPT ![r] = q]
      BY <2>4, <3>1 DEF Verify
    <3>4. QED
      BY <3>2, <3>3
  <2>5. CASE SweepRead(r)
    <3>1. PICK q : q = [req[r] EXCEPT !.op = "sweep"]
      OBVIOUS
    <3>2. q \in Request /\ q.op = "sweep"
      BY <1>0, <3>1 DEF Request, Ops
    <3>3. req' = [req EXCEPT ![r] = q] /\ pay' = pay /\ pay.status = "SUCCESS" /\ ~pay.held
      BY <2>5, <3>1 DEF SweepRead, IInv, TypeOK
    <3>4. QED
      BY <3>2, <3>3
  <2>6. QED
    BY <2>1, <2>2, <2>3, <2>4, <2>5
<1>6. QED
  BY <1>1, <1>2, <1>4, <1>5, CalmHandler DEF Sweeping

LEMMA CalmApply ==
  ASSUME IInv, CalmInv, Calm, NEW r \in Requests, ApplySuccess(r) \/ ApplyOther(r)
  PROVE  CalmInv'
<1>0. pay \in PayRow /\ ledger \in Ledger /\ req[r] \in Request
  BY DEF IInv, TypeOK, PayRow, Ledger, Request
<1>1. /\ UNCHANGED <<setting, refunds>> /\ End(r) /\ req[r].op = "apply"
  BY DEF ApplySuccess, ApplyOther, Return, Does
<1>2. Unsent' /\ req[r] # Idle
  BY <1>1 DEF CalmInv, Unsent, Idle
<1>3. CASE ApplySuccess(r)
  <2>1. PICK row : row = Moved(pay, "SUCCESS")
    OBVIOUS
  <2>2. row \in PayRow /\ row.status # "DISPUTED"
    BY <1>0, <2>1, MovedRow, MovedDisputed DEF Statuses
  <2>3. \/ pay' = row
        \/ pay' = [row EXCEPT !.held = TRUE]
        \/ \E risk \in BOOLEAN : Credit([row EXCEPT !.held = @ \/ risk])
    <3>1. (IF row.held \/ row.credited THEN {FALSE} ELSE Risk) \subseteq BOOLEAN
      BY DEF Risk
    <3>2. \/ pay' = row
          \/ pay' = [row EXCEPT !.held = TRUE]
          \/ \E risk \in (IF row.held \/ row.credited THEN {FALSE} ELSE Risk) :
                Credit([row EXCEPT !.held = @ \/ risk])
      BY <1>3, <2>1, Zenon DEF ApplySuccess
    <3>3. QED
      BY <3>1, <3>2
  <2>4. ASSUME NEW risk \in BOOLEAN, Credit([row EXCEPT !.held = @ \/ risk])
        PROVE  pay'.status # "DISPUTED"
    <3>1. PICK h : h = [row EXCEPT !.held = @ \/ risk]
      OBVIOUS
    <3>2. h \in PayRow /\ h.status = row.status
      BY <2>2, <3>1 DEF PayRow
    <3>3. Credit(h)
      BY <2>4, <3>1
    <3>4. QED
      BY <1>0, <2>2, <3>2, <3>3, CreditKeeps DEF IInv
  <2>5. pay'.status # "DISPUTED"
    BY <2>2, <2>3, <2>4 DEF PayRow
  <2>6. DisputedVotesReversed'
    BY <2>5 DEF DisputedVotesReversed
  <2>7. QED
    BY <1>1, <1>2, <2>6, CalmEnd
<1>4. CASE ApplyOther(r)
  <2>1. PICK target \in {"FAILED", "ABANDONED", "REVERSED", "PENDING"} :
          pay' = Moved(pay, target) /\ (ledger' = ledger \/ ledger' = ReversedVotes)
    BY <1>0, <1>4 DEF ApplyOther, Request, Charges
  <2>2. pay'.status = "DISPUTED" => pay.status = "DISPUTED"
    BY <1>0, <2>1, MovedDisputed DEF Statuses
  <2>3. DisputedVotesReversed'
    BY <1>0, <1>1, <2>1, <2>2, ReversedLedger DEF CalmInv, DisputedVotesReversed, IInv
  <2>4. QED
    BY <1>1, <1>2, <2>3, CalmEnd
<1>5. QED
  BY <1>3, <1>4

LEMMA CalmSweep ==
  ASSUME IInv, CalmInv, Calm, NEW r \in Requests, SweepCredit(r) \/ SweepFlag(r)
  PROVE  CalmInv'
<1>0. pay \in PayRow /\ req[r] \in Request
  BY DEF IInv, TypeOK, PayRow, Request
<1>1. UNCHANGED <<setting, refunds>> /\ req[r].op \in Sweeping /\ req[r] # Idle
  BY DEF SweepCredit, SweepFlag, Does, Sweeping, Idle
<1>2. pay.status = "SUCCESS" /\ ~pay.held
  BY <1>1 DEF CalmInv, SweepSees
<1>3. pay'.status = "SUCCESS" /\ pay'.held = pay.held
  BY <1>0, <1>2 DEF SweepCredit, SweepFlag, PayRow
<1>4. Unsent' /\ DisputedVotesReversed'
  BY <1>1, <1>3 DEF CalmInv, Unsent, DisputedVotesReversed
<1>5. CASE SweepCredit(r)
  <2>1. PICK q : q = [req[r] EXCEPT !.op = "flag"]
    OBVIOUS
  <2>2. q \in Request /\ q.op = "flag"
    BY <1>0, <2>1 DEF Request, Ops
  <2>3. req' = [req EXCEPT ![r] = q]
    BY <1>5, <2>1 DEF SweepCredit, IInv, TypeOK
  <2>4. QED
    BY <1>1, <1>2, <1>3, <1>4, <2>2, <2>3, CalmHandler
<1>6. CASE SweepFlag(r)
  BY <1>1, <1>4, <1>6, CalmEnd DEF SweepFlag
<1>7. QED
  BY <1>5, <1>6

(* A refund that is decided is as good as sent, once.                        *)
LEMMA RefundMoves ==
  ASSUME IInv, Unsent, NEW i \in RefundIds, NEW row, refunds' = [refunds EXCEPT ![i] = row],
         row.sent \in {0, 1}, row.status \in Undecided => row.sent = 0
  PROVE  Unsent' /\ refunds'[i] = row
<1>1. \A j \in RefundIds : refunds'[j] = IF j = i THEN row ELSE refunds[j]
  BY DEF IInv, TypeOK
<1>2. QED
  BY <1>1 DEF Unsent

LEMMA CalmRefund ==
  ASSUME IInv, CalmInv, Calm, NEW r \in Requests,
         \/ \E i \in RefundIds : ApproveRead(r, i)
         \/ ApproveSave(r) \/ Submit(r) \/ SubmitRefused(r) \/ SubmitSave(r)
  PROVE  CalmInv'
<1>0. /\ req[r] \in Request /\ req \in [Requests -> Request] /\ Unsent
      /\ DOMAIN refunds = RefundIds
      /\ \A j \in RefundIds : refunds[j] \in [status : RefundStatus, amount : 0..Amount, reverse : BOOLEAN,
                                              approved : BOOLEAN, sent : Nat]
  BY DEF IInv, TypeOK, Request, CalmInv
<1>1. UNCHANGED <<setting, pay, ledger>>
  BY DEF ApproveRead, ApproveSave, Submit, SubmitRefused, SubmitSave
<1>2. DisputedVotesReversed'
  BY <1>1 DEF CalmInv, Calm, DisputedVotesReversed
<1>3. ASSUME NEW i \in RefundIds, ApproveRead(r, i) PROVE CalmInv'
  <2>1. PICK q : q = [Idle EXCEPT !.op = "approve", !.refund = i]
    OBVIOUS
  <2>2. q \in Request /\ q.op = "approve" /\ q.refund = i
    BY <2>1, IdleJob DEF Request, Ops, Idle
  <2>3. req' = [req EXCEPT ![r] = q] /\ refunds' = refunds /\ refunds[i].status = "REQUESTED" /\ Free(r)
    BY <1>3, <2>1 DEF ApproveRead, Approvable
  <2>4. Unsent'
    BY <1>0, <2>3 DEF Unsent
  <2>5. QED
    BY <1>1, <1>2, <2>2, <2>3, <2>4, CalmHandler DEF Sweeping
<1>4. PICK i : i = req[r].refund
  OBVIOUS
<1>5. ASSUME req[r].op \in Approving PROVE i \in RefundIds
  BY <1>0, <1>4, <1>5 DEF IInv, ApprovesOne, Request
<1>6. CASE ApproveSave(r)
  <2>1. req[r].op = "approve" /\ req[r] # Idle /\ i \in RefundIds
    BY <1>5, <1>6 DEF ApproveSave, Does, Approving, Idle
  <2>2. refunds[i].status = "REQUESTED" /\ refunds[i].sent = 0
    BY <1>0, <1>4, <2>1 DEF CalmInv, ApprovalSees, Unsent, Undecided
  <2>3. PICK row : row = [refunds[i] EXCEPT !.status = "APPROVED", !.approved = TRUE]
    OBVIOUS
  <2>4. row.sent = 0 /\ row.status \notin Undecided /\ refunds' = [refunds EXCEPT ![i] = row]
    BY <1>0, <1>4, <1>6, <2>1, <2>2, <2>3 DEF ApproveSave, Undecided
  <2>5. Unsent' /\ refunds'[i] = row
    BY <1>0, <2>1, <2>4, RefundMoves
  <2>6. PICK q : q = [req[r] EXCEPT !.op = "submit"]
    OBVIOUS
  <2>7. q \in Request /\ q.op = "submit" /\ q.refund = i
    BY <1>0, <1>4, <2>6 DEF Request, Ops
  <2>8. req' = [req EXCEPT ![r] = q]
    BY <1>0, <1>6, <2>6 DEF ApproveSave
  <2>9. QED
    BY <1>1, <1>2, <2>1, <2>4, <2>5, <2>7, <2>8, CalmHandler DEF Sweeping
<1>7. CASE Submit(r)
  <2>1. req[r].op = "submit" /\ req[r] # Idle /\ i \in RefundIds
    BY <1>5, <1>7 DEF Submit, Does, Approving, Idle
  <2>2. refunds[i].sent = 0 /\ refunds[i].status \notin Undecided
    BY <1>0, <1>4, <2>1 DEF CalmInv, ApprovalSees
  <2>3. PICK row : row = [refunds[i] EXCEPT !.sent = @ + 1]
    OBVIOUS
  <2>4. row.sent = 1 /\ row.status \notin Undecided /\ refunds' = [refunds EXCEPT ![i] = row]
    BY <1>0, <1>4, <1>7, <2>1, <2>2, <2>3 DEF Submit
  <2>5. Unsent'
    BY <1>0, <2>1, <2>4, RefundMoves
  <2>6. PICK q : q = [req[r] EXCEPT !.op = "processing"]
    OBVIOUS
  <2>7. q \in Request /\ q.op = "processing"
    BY <1>0, <2>6 DEF Request, Ops
  <2>8. req' = [req EXCEPT ![r] = q]
    BY <1>0, <1>7, <2>6 DEF Submit
  <2>9. QED
    BY <1>1, <1>2, <2>1, <2>5, <2>7, <2>8, CalmHandler DEF Sweeping
<1>8. CASE SubmitRefused(r) \/ SubmitSave(r)
  <2>1. req[r] # Idle /\ i \in RefundIds /\ End(r)
    BY <1>5, <1>8 DEF SubmitRefused, SubmitSave, Does, Approving, Idle
  <2>2. PICK s \in {"FAILED", "PROCESSING"} : refunds' = [refunds EXCEPT ![i].status = s]
    BY <1>4, <1>8 DEF SubmitRefused, SubmitSave
  <2>3. PICK row : row = [refunds[i] EXCEPT !.status = s]
    OBVIOUS
  <2>4. row.sent = refunds[i].sent /\ row.status \notin Undecided /\ refunds' = [refunds EXCEPT ![i] = row]
    BY <1>0, <2>1, <2>2, <2>3 DEF Undecided
  <2>5. row.sent \in {0, 1}
    BY <1>0, <2>1, <2>4 DEF Unsent
  <2>6. Unsent'
    BY <1>0, <2>1, <2>4, <2>5, RefundMoves
  <2>7. QED
    BY <1>1, <1>2, <2>1, <2>6, CalmEnd
<1>9. QED
  BY <1>3, <1>6, <1>7, <1>8

LEMMA CalmWebhook ==
  ASSUME IInv, CalmInv, Calm, NEW r \in Requests,
         \/ RefundProcessed(r) \/ RefundFailed(r) \/ RefundIgnored(r)
         \/ Dispute(r) \/ DisputeResolved(r)
  PROVE  CalmInv'
<1>0. /\ pay \in PayRow /\ ledger \in Ledger /\ CreditedOnce /\ Unsent /\ req[r] \in Request /\ Amount \in Nat
      /\ DOMAIN refunds = RefundIds
      /\ \A j \in RefundIds : refunds[j] \in [status : RefundStatus, amount : 0..Amount, reverse : BOOLEAN,
                                              approved : BOOLEAN, sent : Nat]
  BY PaymentsAssumption DEF IInv, TypeOK, PayRow, Ledger, CalmInv, Request
<1>1. setting' = setting /\ End(r) /\ req[r] # Idle
  BY DEF RefundProcessed, RefundFailed, RefundIgnored, Dispute, DisputeResolved, Return, Does, Idle
<1>2. Unsent'
  <2>1. CASE refunds' = refunds
    BY <1>0, <2>1 DEF Unsent
  <2>2. ASSUME NEW i \in RefundIds, NEW s \in {"PROCESSED", "FAILED"}, refunds' = [refunds EXCEPT ![i].status = s]
        PROVE  Unsent'
    <3>1. PICK row : row = [refunds[i] EXCEPT !.status = s]
      OBVIOUS
    <3>2. row.sent = refunds[i].sent /\ row.status \notin Undecided /\ refunds' = [refunds EXCEPT ![i] = row]
      BY <1>0, <2>2, <3>1 DEF Undecided
    <3>3. row.sent \in {0, 1}
      BY <1>0, <3>2 DEF Unsent
    <3>4. QED
      BY <1>0, <3>2, <3>3, RefundMoves
  <2>3. \/ refunds' = refunds
        \/ /\ req[r].refund # None
           /\ \E s \in {"PROCESSED", "FAILED"} : refunds' = [refunds EXCEPT ![req[r].refund].status = s]
    BY DEF RefundProcessed, RefundFailed, RefundIgnored, Dispute, DisputeResolved
  <2>4. QED
    BY <1>0, <2>1, <2>2, <2>3 DEF Request
<1>3. ledger' \in {ledger, ReversedVotes} /\ ReversedVotes.counted = 0
  BY <1>0, ReversedLedger
     DEF RefundProcessed, RefundFailed, RefundIgnored, Dispute, DisputeResolved, DisputeOpened
<1>4. pay'.status = "DISPUTED" => pay.status = "DISPUTED" \/ ledger'.counted = 0
  <2>1. CASE RefundProcessed(r)
    <3>1. PICK row : row = [pay EXCEPT !.refunded = pay.refunded + refunds[req[r].refund].amount]
      OBVIOUS
    <3>2. pay' = pay \/ \E s \in {"REFUNDED", "PARTIALLY_REFUNDED"} : pay' = Moved(row, s)
      BY <2>1, <3>1 DEF RefundProcessed
    <3>3. row \in PayRow /\ row.status = pay.status
      BY <1>0, <2>1, <3>1 DEF RefundProcessed, PayRow, Request
    <3>4. QED
      BY <3>2, <3>3, MovedDisputed DEF Statuses
  <2>2. CASE RefundFailed(r) \/ RefundIgnored(r)
    BY <2>2 DEF RefundFailed, RefundIgnored
  <2>3. CASE Dispute(r)
    BY <1>0, <1>3, <2>3, MovedRow DEF Dispute, DisputeOpened, Statuses
  <2>4. CASE DisputeResolved(r)
    BY <1>0, <2>4, MovedDisputed DEF DisputeResolved, Statuses
  <2>5. QED
    BY <2>1, <2>2, <2>3, <2>4
<1>5. DisputedVotesReversed'
  BY <1>3, <1>4 DEF CalmInv, Calm, DisputedVotesReversed
<1>6. QED
  BY <1>1, <1>2, <1>5, CalmEnd

(* A webhook arrives; a handler gives up. *)
LEMMA CalmDeliver ==
  ASSUME IInv, CalmInv, Calm, NEW r \in Requests, Abandon(r) \/ \E h \in Hooks : Deliver(r, h)
  PROVE  CalmInv'
<1>1. UNCHANGED <<setting, pay, ledger, refunds>>
  BY DEF Abandon, Deliver
<1>2. Unsent' /\ DisputedVotesReversed'
  BY <1>1 DEF CalmInv, Calm, Unsent, DisputedVotesReversed
<1>3. CASE Abandon(r)
  BY <1>1, <1>2, <1>3, CalmEnd DEF Abandon
<1>4. ASSUME NEW h \in Hooks, Deliver(r, h) PROVE CalmInv'
  <2>1. PICK q : q = IF h.event \in {"success", "failed"}
                     THEN [Idle EXCEPT !.op = "apply", !.seen = h.event, !.hook = h]
                     ELSE [Idle EXCEPT !.op = h.event, !.hook = h,
                                       !.refund = IF h.refund = None THEN None ELSE Latest]
    OBVIOUS
  <2>2. Latest \in RefundIds \cup {None}
    BY DEF Latest, LastOf, Open
  <2>3. q \in Request /\ q.op \in {"apply", "dispute", "won", "lost", "refunded", "refundFailed"}
    <3>1. CASE h.event \in {"success", "failed"}
      BY <2>1, <3>1 DEF Idle, Request, Ops, Charges
    <3>2. CASE h.event \notin {"success", "failed"}
      <4>1. h.event \in {"dispute", "won", "lost", "refunded", "refundFailed"}
        BY <3>2 DEF Hooks
      <4>2. QED
        BY <2>1, <2>2, <3>2, <4>1 DEF Idle, Request, Ops, Charges
    <3>3. QED
      BY <3>1, <3>2
  <2>4. req' = [req EXCEPT ![r] = q] /\ Free(r)
    BY <1>4, <2>1 DEF Deliver
  <2>5. QED
    BY <1>1, <1>2, <2>3, <2>4, CalmHandler DEF Sweeping
<1>5. QED
  BY <1>3, <1>4

(* The expiry, the release and the gateway come between a handler's steps.   *)
LEMMA CalmBetween ==
  ASSUME IInv, CalmInv, Calm, Expire \/ ReleaseHeld \/ Gateway
  PROVE  CalmInv'
<1>0. pay \in PayRow /\ ledger \in Ledger /\ CreditedOnce
  BY DEF IInv, TypeOK, PayRow, Ledger
<1>1. UNCHANGED <<setting, req, refunds>>
  BY DEF Expire, ReleaseHeld, Gateway, GatewayCharges, GatewayFails, GatewayEnds, GatewayDisputes,
         GatewayResolves, GatewayRefunds
<1>2. Unsent'
  BY <1>1 DEF CalmInv, Unsent
<1>3. CASE Expire
  <2>1. pay.status \in {"INITIALIZED", "PENDING"} /\ pay' = Moved(pay, "ABANDONED")
    BY <1>3 DEF Expire
  <2>2. pay'.status # "DISPUTED"
    BY <1>0, <2>1, MovedDisputed DEF Statuses
  <2>3. \A r \in Requests : req[r].op \notin Sweeping
    BY <2>1 DEF CalmInv, SweepSees
  <2>4. DisputedVotesReversed'
    BY <2>2 DEF DisputedVotesReversed
  <2>5. QED
    BY <1>1, <1>2, <2>3, <2>4, CalmOther
<1>4. CASE ReleaseHeld
  <2>1. PICK row : row = [pay EXCEPT !.held = FALSE]
    OBVIOUS
  <2>2. row \in PayRow /\ row.status = pay.status /\ Credit(row) /\ pay.held
    BY <1>0, <1>4, <2>1 DEF PayRow, ReleaseHeld
  <2>3. pay'.status = pay.status /\ (ledger' = ledger \/ row.status = "SUCCESS")
    BY <1>0, <2>2, CreditKeeps
  <2>4. \A r \in Requests : req[r].op \notin Sweeping
    BY <2>2 DEF CalmInv, SweepSees
  <2>5. DisputedVotesReversed'
    BY <2>2, <2>3 DEF CalmInv, Calm, DisputedVotesReversed
  <2>6. QED
    BY <1>1, <1>2, <2>4, <2>5, CalmOther
<1>5. CASE Gateway
  <2>1. UNCHANGED <<pay, ledger>>
    BY <1>5 DEF Gateway, GatewayCharges, GatewayFails, GatewayEnds, GatewayDisputes, GatewayResolves, GatewayRefunds
  <2>2. DisputedVotesReversed'
    BY <1>1, <2>1 DEF CalmInv, Calm, DisputedVotesReversed
  <2>3. \A r \in Requests : req[r].op \in Sweeping => pay'.status = "SUCCESS" /\ ~pay'.held
    BY <2>1 DEF CalmInv, SweepSees
  <2>4. QED
    BY <1>1, <1>2, <2>2, <2>3, CalmOther
<1>6. QED
  BY <1>3, <1>4, <1>5

LEMMA CalmRequest ==
  ASSUME IInv, CalmInv, Calm, NEW i \in RefundIds, NEW amount \in 1..Amount, NEW reverse \in BOOLEAN,
         RequestRefund(i, amount, reverse)
  PROVE  CalmInv'
<1>0. /\ Unsent /\ DOMAIN refunds = RefundIds
      /\ \A j \in RefundIds : refunds[j] \in [status : RefundStatus, amount : 0..Amount, reverse : BOOLEAN,
                                              approved : BOOLEAN, sent : Nat]
  BY DEF IInv, TypeOK, CalmInv
<1>1. UNCHANGED <<setting, pay, ledger, req>> /\ refunds[i].status = "NONE"
  BY DEF RequestRefund
<1>2. PICK row : row = Requested(refunds[i], amount, reverse)
  OBVIOUS
<1>3. refunds' = [refunds EXCEPT ![i] = row] /\ row.sent = 0
  BY <1>0, <1>1, <1>2 DEF RequestRefund, Requested, Unsent, Undecided
<1>4. Unsent' /\ \A j \in RefundIds : refunds[j].status # "NONE" => refunds'[j] = refunds[j]
  BY <1>0, <1>1, <1>3, RefundMoves
<1>5. DisputedVotesReversed'
  BY <1>1 DEF CalmInv, Calm, DisputedVotesReversed
<1>6. \A r \in Requests : req[r].op \in Sweeping => pay'.status = "SUCCESS" /\ ~pay'.held
  BY <1>1 DEF CalmInv, SweepSees
<1>7. QED
  BY <1>1, <1>4, <1>5, <1>6, CalmOther

LEMMA CalmNext == IInv /\ CalmInv /\ [Next]_vars => CalmInv'
<1> SUFFICES ASSUME IInv, CalmInv, [Next]_vars PROVE CalmInv'
  OBVIOUS
<1>0. setting' = setting
  BY DEF vars, Next, Starts, Continues, Checkout, CheckoutFails, CheckoutRefresh, CheckoutPending, Verify, SweepRead,
         ApproveRead, Deliver, ApplySuccess, ApplyOther, SweepCredit, SweepFlag, ApproveSave, Submit, SubmitRefused,
         SubmitSave, RefundProcessed, RefundFailed, RefundIgnored, Dispute, DisputeResolved, Abandon, Expire,
         ReleaseHeld, RequestRefund, Gateway, GatewayCharges, GatewayFails, GatewayEnds, GatewayDisputes,
         GatewayResolves, GatewayRefunds
<1>1. CASE ~Calm
  BY <1>0, <1>1 DEF Calm, CalmInv
<1>2. CASE Calm
  <2>1. ASSUME NEW r \in Requests, Starts(r) PROVE CalmInv'
    BY <1>2, <2>1, CalmCheckout, CalmRefund, CalmDeliver DEF Starts
  <2>2. ASSUME NEW r \in Requests, Continues(r) PROVE CalmInv'
    BY <1>2, <2>2, CalmCheckout, CalmApply, CalmSweep, CalmRefund, CalmWebhook, CalmDeliver DEF Continues
  <2>3. CASE \E i \in RefundIds, amount \in 1..Amount, reverse \in BOOLEAN : RequestRefund(i, amount, reverse)
    BY <1>2, <2>3, CalmRequest
  <2>4. CASE Expire \/ ReleaseHeld \/ Gateway
    BY <1>2, <2>4, CalmBetween
  <2>5. CASE UNCHANGED vars
    BY <2>5 DEF vars, CalmInv, Calm, Alone, SweepSees, Unsent, ApprovalSees, DisputedVotesReversed
  <2>6. QED
    BY <2>1, <2>2, <2>3, <2>4, <2>5 DEF Next
<1>3. QED
  BY <1>1, <1>2

LEMMA CalmInvariance == Spec => []CalmInv
  BY Invariance, CalmStart, CalmNext, PTL DEF Spec

-----------------------------------------------------------------------------
(* Every variable keeps its type. *)
THEOREM TypeCorrect == Spec => []TypeOK
  BY Invariance, PTL DEF IInv

(* docs/DATABASE.md: "A payment credits votes at most once", in every        *)
(* interleaving of webhooks, returns, analysts, refunds and sweeps.          *)
THEOREM OneCredit == Spec => []CreditedOnce
  BY Invariance, PTL DEF IInv

(* "Nothing is credited until Paystack confirms the charge".                 *)
THEOREM NoFreeVotes == Spec => []CountedWasPaid
  BY Invariance, PTL DEF IInv

(* A credit adds one, or nothing. *)
LEMMA CreditAdds ==
  ASSUME NEW row, Credit(row)
  PROVE  ledger' = ledger \/ ledger' = [ledger EXCEPT !.counted = @ + 1]
  BY Zenon DEF Credit

(* The ledger moves in two ways, by a credit and by a reversal, and never    *)
(* together with the gateway, whose charge is never undone.                  *)
LEMMA LedgerMoves ==
  ASSUME IInv, [Next]_vars
  PROVE  \/ ledger' = ledger /\ (Charged => Charged')
         \/ /\ UNCHANGED gateway
            /\ ledger' = ReversedVotes \/ ledger' = [ledger EXCEPT !.counted = @ + 1]
<1> DEFINE Goal == \/ ledger' = ledger /\ (Charged => Charged')
                   \/ /\ UNCHANGED gateway
                      /\ ledger' = ReversedVotes \/ ledger' = [ledger EXCEPT !.counted = @ + 1]
<1>0. gateway \in [charge : Charges, right : BOOLEAN, dispute : {"none", "open", "won", "lost"},
                   returning : 0..Amount]
  BY DEF IInv, TypeOK
<1>1. CASE UNCHANGED <<ledger, gateway>>
  BY <1>1 DEF Charged
<1>2. ASSUME NEW r \in Requests, Starts(r) PROVE Goal
  BY <1>1, <1>2 DEF Starts, Checkout, Verify, SweepRead, ApproveRead, Deliver
<1>3. ASSUME NEW r \in Requests, Continues(r) PROVE Goal
  <2>1. CASE ApplySuccess(r)
    <3>1. UNCHANGED gateway
      BY <2>1 DEF ApplySuccess
    <3>2. ledger' = ledger \/ \E row : Credit(row)
      BY <2>1 DEF ApplySuccess
    <3>3. QED
      BY <1>1, <3>1, <3>2, CreditAdds
  <2>2. CASE ApplyOther(r)
    <3>1. UNCHANGED gateway /\ (ledger' = ReversedVotes \/ ledger' = ledger)
      BY <2>2 DEF ApplyOther
    <3>2. QED
      BY <1>1, <3>1
  <2>3. CASE SweepCredit(r)
    BY <2>3 DEF SweepCredit
  <2>4. CASE RefundProcessed(r)
    <3>1. UNCHANGED gateway /\ (ledger' = ReversedVotes \/ ledger' = ledger)
      BY <2>4 DEF RefundProcessed
    <3>2. QED
      BY <1>1, <3>1
  <2>5. CASE Dispute(r)
    <3>1. UNCHANGED gateway /\ (ledger' = ReversedVotes \/ ledger' = ledger)
      BY <2>5 DEF Dispute, DisputeOpened
    <3>2. QED
      BY <1>1, <3>1
  <2>6. CASE Submit(r)
    <3>1. /\ UNCHANGED ledger
          /\ gateway.charge = "success"
          /\ \E n : gateway' = [gateway EXCEPT !.returning = n]
      BY <2>6 DEF Submit
    <3>2. Charged => Charged'
      BY <1>0, <3>1 DEF Charged
    <3>3. QED
      BY <3>1, <3>2
  <2>7. QED
    BY <1>1, <1>3, <2>1, <2>2, <2>3, <2>4, <2>5, <2>6
    DEF Continues, CheckoutFails, CheckoutRefresh, CheckoutPending, SweepFlag, ApproveSave,
        SubmitRefused, SubmitSave, RefundFailed, RefundIgnored, DisputeResolved, Abandon
<1>4. CASE \E i \in RefundIds, amount \in 1..Amount, reverse \in BOOLEAN : RequestRefund(i, amount, reverse)
  BY <1>1, <1>4 DEF RequestRefund
<1>5. CASE Expire
  BY <1>1, <1>5 DEF Expire
<1>6. CASE ReleaseHeld
  BY <1>1, <1>6, CreditAdds DEF ReleaseHeld
<1>7. CASE Gateway
  <2>1. ASSUME NEW right \in BOOLEAN, GatewayCharges(right) PROVE Goal
    <3>1. UNCHANGED ledger /\ ~Charged
      BY <2>1 DEF GatewayCharges, Charged
    <3>2. QED
      BY <3>1
  <2>2. CASE GatewayFails
    <3>1. UNCHANGED ledger /\ ~Charged
      BY <2>2 DEF GatewayFails, Charged
    <3>2. QED
      BY <3>1
  <2>3. ASSUME NEW charge \in {"abandoned", "reversed"}, GatewayEnds(charge) PROVE Goal
    <3>1. UNCHANGED ledger /\ gateway' = [gateway EXCEPT !.charge = charge]
      BY <2>3 DEF GatewayEnds
    <3>2. CASE charge = "abandoned"
      BY <2>3, <3>1, <3>2 DEF GatewayEnds, Charged
    <3>3. CASE charge = "reversed"
      BY <2>3, <3>1, <3>3, <1>0 DEF GatewayEnds, Charged
    <3>4. QED
      BY <3>2, <3>3
  <2>4. ASSUME NEW dispute, gateway' = [gateway EXCEPT !.dispute = dispute], UNCHANGED ledger PROVE Goal
    BY <2>4, <1>0 DEF Charged
  <2>5. CASE GatewayDisputes
    BY <2>4, <2>5 DEF GatewayDisputes
  <2>6. ASSUME NEW outcome \in {"won", "lost"}, GatewayResolves(outcome) PROVE Goal
    BY <2>4, <2>6 DEF GatewayResolves
  <2>7. ASSUME NEW i \in RefundIds, NEW event \in {"refunded", "refundFailed"}, GatewayRefunds(i, event)
        PROVE  Goal
    BY <1>1, <2>7 DEF GatewayRefunds
  <2>8. ASSUME NEW wrong \in Risk, GatewayCharges(~wrong) PROVE Goal
    BY <2>1, <2>8 DEF Risk
  <2>9. QED
    BY <1>7, <2>2, <2>3, <2>5, <2>6, <2>7, <2>8 DEF Gateway
<1>8. CASE UNCHANGED vars
  BY <1>1, <1>8 DEF vars
<1>9. QED
  BY <1>2, <1>3, <1>4, <1>5, <1>6, <1>7, <1>8 DEF Next

(* Payments implements PaidVotes: in every interleaving, with every crash,   *)
(* one credit after the charge, and nothing comes back that was reversed.    *)
THEOREM Refinement == Spec => ImplementsPaidVotes
<1>1. Init => PV!Init
  BY DEF Init, PV!Init, Charged
<1>2. IInv /\ IInv' /\ [Next]_vars => [PV!Next]_(PV!vars)
  <2> SUFFICES ASSUME IInv, IInv', [Next]_vars PROVE [PV!Next]_(PV!vars)
    OBVIOUS
  <2>1. ledger \in Ledger /\ ledger' \in Ledger
    BY DEF IInv, TypeOK, Ledger
  <2>2. CreditedOnce /\ CreditedOnce' /\ CountedWasPaid'
    BY DEF IInv
  <2>3. CASE ledger' = ledger /\ (Charged => Charged')
    BY <2>3 DEF PV!Next, PV!Charge, PV!vars, Charged
  <2>4. CASE UNCHANGED gateway /\ ledger' = [ledger EXCEPT !.counted = @ + 1]
    <3>1. ledger'.counted = ledger.counted + 1 /\ ledger'.reversed = ledger.reversed
      BY <2>1, <2>4 DEF Ledger
    <3>2. ledger.counted = 0 /\ ledger.reversed = 0
      BY <2>1, <2>2, <3>1 DEF CreditedOnce, Ledger
    <3>3. Charged /\ UNCHANGED Charged
      BY <2>2, <2>4, <3>1, <3>2 DEF CountedWasPaid, Charged
    <3>4. PV!Credit
      BY <3>1, <3>2, <3>3 DEF PV!Credit
    <3>5. QED
      BY <3>4 DEF PV!Next
  <2>5. CASE UNCHANGED gateway /\ ledger' = ReversedVotes
    <3>1. ledger'.counted = 0 /\ ledger'.reversed = ledger.counted + ledger.reversed
      BY <2>5 DEF ReversedVotes
    <3>2. UNCHANGED Charged
      BY <2>5 DEF Charged
    <3>3. CASE ledger.counted = 0
      BY <2>1, <3>1, <3>2, <3>3 DEF PV!vars, Ledger
    <3>4. CASE ledger.counted # 0
      <4>1. ledger.counted = 1 /\ ledger.reversed = 0
        BY <2>1, <2>2, <3>4 DEF CreditedOnce, Ledger
      <4>2. PV!Reverse
        BY <3>1, <3>2, <4>1 DEF PV!Reverse
      <4>3. QED
        BY <4>2 DEF PV!Next
    <3>5. QED
      BY <3>3, <3>4
  <2>6. QED
    BY <2>3, <2>4, <2>5, LedgerMoves
<1>3. QED
  BY Invariance, <1>1, <1>2, PTL DEF Spec, ImplementsPaidVotes, PV!Spec

(* _webhook_dispute takes the votes away and nothing gives them back while   *)
(* the chargeback is open: neither the sweep nor an analyst's release.       *)
THEOREM NoDisputedVotes == Spec => []DisputedVotesReversed
<1>1. CalmInv => DisputedVotesReversed
  BY DEF CalmInv, Calm, DisputedVotesReversed
<1>2. QED
  BY <1>1, CalmInvariance, PTL

(* approve_refund hands no refund to the gateway twice when handlers do not  *)
(* overlap: what it read as requested is so when it saves.                   *)
THEOREM OneSubmission == Spec => []RefundSentOnce
<1>1. CalmInv => RefundSentOnce
  BY DEF CalmInv, Calm, Unsent, RefundSentOnce
<1>2. QED
  BY <1>1, CalmInvariance, PTL
=============================================================================
