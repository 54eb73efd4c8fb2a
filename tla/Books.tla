--------------------------------- MODULE Books --------------------------------
(***************************************************************************)
(* Reconciliation: every quarter of an hour, or when an administrator asks *)
(* for it, the payments of a window are compared with the gateway's list;  *)
(* what can be put right is, the rest is listed for review. The report of  *)
(* revenue is read from the same rows. One payment's own life, with its    *)
(* refunds and overlaps, is module Payments.                               *)
(*                                                                         *)
(* Grain of atomicity.  Each payment is settled in a transaction of its    *)
(* own, on the list as it was when the run began; webhooks, refunds and    *)
(* disputes go on meanwhile.                                               *)
(***************************************************************************)
EXTENDS Naturals, FiniteSets, FiniteSetsExt

CONSTANTS
    Bills,     \* the payments of the window
    Worth,     \* bill -> its amount
    Stranger,  \* a charge of the gateway that is no payment here
    Cap        \* how many bills one pass takes up: 500, or 200

ASSUME BooksAssumption == Stranger \notin Bills /\ Worth \in [Bills -> Nat] /\ Cap \in Nat

VARIABLES
    book,      \* bill -> its row
    bank,      \* bill -> what the gateway says of it
    foreign,   \* the gateway has a charge nobody here knows
    scan,      \* the run in progress, or the last one
    settled    \* items an official has resolved

booksVars == <<book, bank, foreign, scan, settled>>

BookStatus == {"OPEN", "SUCCESS", "FAILED", "ABANDONED", "PARTIALLY_REFUNDED", "REFUNDED", "DISPUTED", "REVERSED"}
BookRow == [status : BookStatus, held : BOOLEAN, credited : BOOLEAN, fresh : BOOLEAN]
BankRow == [charge : {"none", "ongoing", "success", "failed", "abandoned", "reversed"}, right : BOOLEAN]
Steps == {"rows", "stale", "missing"}

NoScan == [step |-> "none", rows |-> [b \in {} |-> "none"], todo |-> {}, review |-> {}, quiet |-> TRUE]

LocalSuccess(row) == row.status \in {"SUCCESS", "PARTIALLY_REFUNDED", "REFUNDED", "DISPUTED"}

-----------------------------------------------------------------------------
(* Applying what the gateway says. *)

Credited(row) == IF row.status = "SUCCESS" /\ ~row.held THEN [row EXCEPT !.credited = TRUE] ELSE row

(* A charge of another amount is held, and so may be any by its risk.        *)
Confirmed(row, answer) ==
    {Credited([row EXCEPT !.status = "SUCCESS", !.held = h]) :
        h \in IF ~answer.right \/ row.held THEN {TRUE}
              ELSE IF row.credited THEN {FALSE} ELSE BOOLEAN}

(* apply_gateway_result: the transitions allowed, any other is ignored.      *)
Applied(row, answer) ==
    CASE answer.charge = "success" /\ row.status \in {"OPEN", "ABANDONED", "FAILED", "DISPUTED", "SUCCESS"} ->
            Confirmed(row, answer)
      [] answer.charge = "failed" /\ row.status \in {"OPEN", "ABANDONED"} -> {[row EXCEPT !.status = "FAILED"]}
      [] answer.charge = "abandoned" /\ row.status = "OPEN" -> {[row EXCEPT !.status = "ABANDONED"]}
      [] answer.charge = "reversed" /\ row.status \in {"SUCCESS", "PARTIALLY_REFUNDED", "DISPUTED"} ->
            {[row EXCEPT !.status = "REVERSED"]}
      [] OTHER -> {row}

Books(b, rows) == \E row \in rows : book' = [book EXCEPT ![b] = row]
Turns(b, from, to) ==
    /\ book[b].status \in from
    /\ book' = [book EXCEPT ![b].status = to]
    /\ UNCHANGED <<foreign, settled>>
Undisturbed == UNCHANGED <<bank, scan>>
Disturbed == scan' = [scan EXCEPT !.quiet = FALSE]

(* A webhook, or the customer coming back.                                   *)
Learn(b) ==
    /\ bank[b].charge # "none"
    /\ Books(b, Applied(book[b], bank[b]))
    /\ UNCHANGED <<bank, foreign, scan, settled>>

(* expire_abandoned asks the gateway first, which may not answer.            *)
GiveUp(b) == ~book[b].fresh /\ Turns(b, {"OPEN"}, "ABANDONED") /\ Undisturbed
PayBack(b, status) ==
    /\ Turns(b, {"SUCCESS", "PARTIALLY_REFUNDED"} \cup {s \in {"DISPUTED"} : status = "REFUNDED"}, status)
    /\ Undisturbed

(* release_held_payment, whatever the status.                                *)
ReleaseHold(b) ==
    /\ book[b].held
    /\ book' = [book EXCEPT ![b] = Credited([@ EXCEPT !.held = FALSE])]
    /\ Undisturbed /\ UNCHANGED <<foreign, settled>>

Chargeback(b) == Turns(b, {"SUCCESS", "PARTIALLY_REFUNDED"}, "DISPUTED") /\ Undisturbed
ChargebackEnds(b, won) ==
    /\ Turns(b, IF won THEN {"DISPUTED"} ELSE {"SUCCESS", "PARTIALLY_REFUNDED", "DISPUTED"},
             IF won THEN "SUCCESS" ELSE "REVERSED")
    /\ Disturbed /\ UNCHANGED bank

(* Five minutes pass.                                                        *)
Age(b) ==
    /\ book[b].fresh
    /\ book' = [book EXCEPT ![b].fresh = FALSE]
    /\ Undisturbed /\ UNCHANGED <<foreign, settled>>

(* The gateway: the customer pays, fails, tries again; the money goes back.  *)
BankSays(b, charge, right) ==
    /\ \/ bank[b].charge \in {"none", "ongoing", "failed", "abandoned"} /\ charge \notin {"none", "reversed"}
       \/ bank[b].charge = "success" /\ charge = "reversed" /\ right = bank[b].right
    /\ bank' = [bank EXCEPT ![b] = [charge |-> charge, right |-> right]]
    /\ Disturbed /\ UNCHANGED <<book, foreign, settled>>
BankHasForeign == ~foreign /\ foreign' = TRUE /\ Disturbed /\ UNCHANGED <<book, bank, settled>>

-----------------------------------------------------------------------------
(* The run. *)

(* At most Cap of them: the rest wait for the next run.                      *)
Begins(step, set) ==
    \E some \in SUBSET set :
       /\ Cardinality(some) = IF Cardinality(set) <= Cap THEN Cardinality(set) ELSE Cap
       /\ scan' = [scan EXCEPT !.step = step, !.todo = some]

BeginRun ==
    /\ scan.step \notin Steps
    /\ LET listed == {b \in Bills : bank[b].charge # "none"}
       IN scan' = [step |-> "rows", rows |-> [b \in listed |-> bank[b]], todo |-> listed,
                   review |-> IF foreign THEN {Stranger} ELSE {}, quiet |-> TRUE]
    /\ settled' = {}
    /\ UNCHANGED <<book, bank, foreign>>

(* Mutant of Mismatch: only success is compared.                             *)
SuccessDiffers(row, listed) == (listed.charge = "success") # LocalSuccess(row)

Mismatch(row, listed) ==
    \/ (listed.charge = "success") # LocalSuccess(row)
    \/ listed.charge \in {"failed", "abandoned"} /\ row.status \notin {"FAILED", "ABANDONED"}

Done(b, items) == scan' = [scan EXCEPT !.todo = @ \ {b}, !.review = @ \cup items]

(* One row of the list: a wrong amount is for review, a status is put right  *)
(* if a transition leads there, and for review if none does.                 *)
RunRow(b) ==
    /\ scan.step = "rows" /\ b \in scan.todo
    /\ LET listed == scan.rows[b]
           wrong == IF listed.charge = "success" /\ ~listed.right THEN {b} ELSE {}
       IN IF Mismatch(book[b], listed)
          THEN \E row \in Applied(book[b], listed) :
                  /\ book' = [book EXCEPT ![b] = row]
                  /\ Done(b, wrong \cup {x \in {b} : row.status = book[b].status})
          ELSE Done(b, wrong) /\ UNCHANGED book
    /\ UNCHANGED <<bank, foreign, settled>>

(* What is open and was not listed.                                          *)
RunListed ==
    /\ scan.step = "rows" /\ scan.todo = {}
    /\ Begins("stale", {b \in Bills \ DOMAIN scan.rows : book[b].status = "OPEN" /\ ~book[b].fresh})
    /\ UNCHANGED <<book, bank, foreign, settled>>

(* The gateway is asked for each of them; without an answer it stays.        *)
RunStale(b) ==
    /\ scan.step = "stale" /\ b \in scan.todo
    /\ \/ UNCHANGED book
       \/ bank[b].charge # "none" /\ Books(b, Applied(book[b], bank[b]))
    /\ Done(b, {}) /\ UNCHANGED <<bank, foreign, settled>>

(* What is paid, not held and not credited is credited; then what is paid    *)
(* here but was not listed there is asked for.                               *)
RunCredits ==
    /\ scan.step = "stale" /\ scan.todo = {}
    /\ book' = [b \in Bills |-> Credited(book[b])]
    /\ Begins("missing", {b \in Bills \ DOMAIN scan.rows : book[b].status = "SUCCESS"})
    /\ UNCHANGED <<bank, foreign, settled>>

RunMissing(b) ==
    /\ scan.step = "missing" /\ b \in scan.todo
    /\ \/ Done(b, {b})
       \/ bank[b].charge = "success" /\ Done(b, {})
    /\ UNCHANGED <<book, bank, foreign, settled>>

RunEnds ==
    /\ \/ scan.step = "missing" /\ scan.todo = {} /\ scan' = [scan EXCEPT !.step = "COMPLETED"]
       \/ scan.step \in Steps /\ scan' = [scan EXCEPT !.step = "FAILED"]
    /\ UNCHANGED <<book, bank, foreign, settled>>

(* An item is resolved; one without a payment only by the platform.          *)
ResolveItem(item, who) ==
    /\ item \in scan.review \ settled
    /\ who = "platform" \/ (who = "officer" /\ item # Stranger)
    /\ settled' = settled \cup {item}
    /\ UNCHANGED <<book, bank, foreign, scan>>

-----------------------------------------------------------------------------

BooksInit ==
    /\ book \in [Bills -> [status : {"OPEN"}, held : {FALSE}, credited : {FALSE}, fresh : {TRUE}]]
    /\ bank = [b \in Bills |-> [charge |-> "none", right |-> TRUE]]
    /\ foreign = FALSE /\ scan = NoScan /\ settled = {}

BooksNext ==
    \/ BeginRun \/ RunListed \/ RunCredits \/ RunEnds \/ BankHasForeign
    \/ \E b \in Bills :
          \/ RunRow(b) \/ RunStale(b) \/ RunMissing(b)
          \/ Learn(b) \/ GiveUp(b) \/ ReleaseHold(b) \/ Chargeback(b) \/ Age(b)
          \/ \E status \in {"PARTIALLY_REFUNDED", "REFUNDED"} : PayBack(b, status)
          \/ \E won \in BOOLEAN : ChargebackEnds(b, won)
          \/ \E charge \in {"ongoing", "success", "failed", "abandoned", "reversed"}, right \in BOOLEAN :
                (charge \notin {"success", "reversed"} => right) /\ BankSays(b, charge, right)
    \/ \E item \in Bills \cup {Stranger}, who \in {"platform", "officer", "auditor"} : ResolveItem(item, who)

BooksSpec == BooksInit /\ [][BooksNext]_booksVars

-----------------------------------------------------------------------------
(* Correctness. *)

BooksTypeOK ==
    /\ book \in [Bills -> BookRow] /\ bank \in [Bills -> BankRow] /\ foreign \in BOOLEAN
    /\ scan.step \in Steps \cup {"none", "COMPLETED", "FAILED"}
    /\ scan.todo \subseteq Bills /\ scan.review \subseteq Bills \cup {Stranger} /\ settled \subseteq scan.review

Agrees(b) ==
    CASE bank[b].charge = "success" -> LocalSuccess(book[b]) /\ bank[b].right
      [] bank[b].charge \in {"failed", "abandoned"} -> book[b].status \in {"FAILED", "ABANDONED"}
      [] OTHER -> ~LocalSuccess(book[b])

(* revenue_report: what the payments that succeeded brought in.              *)
Gross == MapThenSumSet(LAMBDA b : Worth[b], {b \in Bills : LocalSuccess(book[b])})
Received == MapThenSumSet(LAMBDA b : Worth[b], {b \in Bills : bank[b].charge = "success"})

(* docs/OPERATIONS.md:215: a completed run leaves nothing that differs from  *)
(* the gateway and is not listed, unless the gateway moved meanwhile; and    *)
(* when it lists nothing, the revenue reported is the money received.        *)
BooksHold ==
    scan.step = "COMPLETED" /\ scan.quiet =>
        /\ \A b \in Bills \ scan.review : Agrees(b)
        /\ foreign => Stranger \in scan.review
        /\ scan.review = {} => Gross = Received
=============================================================================
