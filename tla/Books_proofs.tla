----------------------------- MODULE Books_proofs -----------------------------
(***************************************************************************)
(* What TLAPS proves about the books, for any number of payments and       *)
(* invoices.                                                               *)
(*                                                                         *)
(* Books: a completed reconciliation has put right, or listed, whatever    *)
(* differs. The list is as old as the run; while the gateway does not move *)
(* it is still what the gateway says, and nothing done meanwhile parts a   *)
(* payment from it.                                                        *)
(*                                                                         *)
(* Billing: while requests and the nightly jobs do not overlap, a renewal  *)
(* bills every period once, paid time is kept, who is past due owes, and a *)
(* coupon is redeemed as often as it is counted.                           *)
(***************************************************************************)
EXTENDS Books, Billing, SequenceTheorems, TLAPS

ScanType == [step : Steps \cup {"none", "COMPLETED", "FAILED"}, rows : UNION {[S -> BankRow] : S \in SUBSET Bills},
             todo : SUBSET Bills, review : SUBSET (Bills \cup {Stranger}), quiet : BOOLEAN]

Typed ==
    /\ book \in [Bills -> BookRow] /\ bank \in [Bills -> BankRow] /\ foreign \in BOOLEAN
    /\ scan \in ScanType /\ settled \subseteq scan.review

(* Nothing is paid here that the gateway never heard of. *)
Unpaid(row, answer) == answer.charge = "none" => row.status \in {"OPEN", "ABANDONED"}

AllUnpaid == \A b \in Bills : Unpaid(book[b], bank[b])

(* A payment and the gateway agree: Agrees, of rows. *)
InStep(row, answer) ==
    CASE answer.charge = "success" -> LocalSuccess(row) /\ answer.right
      [] answer.charge \in {"failed", "abandoned"} -> row.status \in {"FAILED", "ABANDONED"}
      [] OTHER -> ~LocalSuccess(row)

Current == scan.quiet /\ scan.step \in Steps \cup {"COMPLETED"}

(* The list is what the gateway says still. *)
ListCurrent == Current =>
    /\ \A b \in Bills : b \in DOMAIN scan.rows <=> bank[b].charge # "none"
    /\ \A b \in DOMAIN scan.rows : scan.rows[b] = bank[b]
    /\ foreign => Stranger \in scan.review

(* What the run has been through is listed, or agrees. *)
Treated == Current => \A b \in Bills :
    (scan.step = "rows" /\ b \in scan.todo) \/ b \in scan.review \/ InStep(book[b], bank[b])

-----------------------------------------------------------------------------
(* What becomes of one row. *)

LEMMA AppliedTyped ==
  ASSUME NEW row \in BookRow, NEW answer \in BankRow, NEW new \in Applied(row, answer)
  PROVE  new \in BookRow
<1>1. \A r \in BookRow : Credited(r) \in BookRow
  BY DEF Credited, BookRow
<1>2. \A h \in BOOLEAN : [row EXCEPT !.status = "SUCCESS", !.held = h] \in BookRow
  BY DEF BookRow, BookStatus
<1>3. \A s \in BookStatus : [row EXCEPT !.status = s] \in BookRow
  BY DEF BookRow
<1>4. CASE new \in Confirmed(row, answer)
  <2>1. row.held \in BOOLEAN
    BY DEF BookRow
  <2>2. PICK h \in BOOLEAN : new = Credited([row EXCEPT !.status = "SUCCESS", !.held = h])
    BY <1>4, <2>1 DEF Confirmed
  <2> QED
    BY <1>1, <1>2, <2>2
<1>5. CASE new = row \/ \E s \in BookStatus : new = [row EXCEPT !.status = s]
  BY <1>3, <1>5
<1> QED
  BY <1>4, <1>5 DEF Applied, BookStatus

(* Whatever the gateway's answer does to a row ... *)
LEMMA AppliedStatus ==
  ASSUME NEW row \in BookRow, NEW answer \in BankRow, NEW new \in Applied(row, answer)
  PROVE  \/ new = row
         \/ answer.charge = "success" /\ new.status = "SUCCESS"
         \/ answer.charge = "failed" /\ new.status = "FAILED"
         \/ answer.charge = "abandoned" /\ new.status = "ABANDONED"
         \/ answer.charge = "reversed" /\ new.status = "REVERSED"
<1>1. CASE answer.charge = "success" /\ new \in Confirmed(row, answer)
  <2>1. PICK h : new = Credited([row EXCEPT !.status = "SUCCESS", !.held = h])
    BY <1>1 DEF Confirmed
  <2>2. new.status = "SUCCESS"
    BY <2>1 DEF Credited, BookRow
  <2> QED
    BY <1>1, <2>2
<1> QED
  BY <1>1 DEF Applied, BookRow

(* ... it agrees with that answer afterwards, if it did, or if it moved. *)
LEMMA AppliedInStep ==
  ASSUME NEW row \in BookRow, NEW answer \in BankRow, NEW new \in Applied(row, answer),
         InStep(row, answer) \/ (new.status # row.status /\ (answer.charge = "success" => answer.right))
  PROVE  InStep(new, answer)
<1>1. CASE new = row
  BY <1>1
<1>2. CASE answer.charge = "success" /\ new.status = "SUCCESS"
  BY <1>2 DEF InStep, LocalSuccess
<1>3. CASE answer.charge \in {"failed", "abandoned"} /\ new.status \in {"FAILED", "ABANDONED"}
  BY <1>3 DEF InStep
<1>4. CASE answer.charge = "reversed" /\ new.status = "REVERSED"
  BY <1>4 DEF InStep, LocalSuccess
<1> QED
  BY <1>1, <1>2, <1>3, <1>4, AppliedStatus

LEMMA AppliedUnpaid ==
  ASSUME NEW row \in BookRow, NEW answer \in BankRow, NEW new \in Applied(row, answer), Unpaid(row, answer)
  PROVE  Unpaid(new, answer)
  BY AppliedStatus DEF Unpaid

(* What the officials, the customers and the clock do to a row keeps it paid *)
(* or unpaid. *)
Local(row, new) ==
    \/ new.status = row.status
    \/ row.status = "OPEN" /\ new.status = "ABANDONED"
    \/ LocalSuccess(row) /\ LocalSuccess(new)

LEMMA LocalInStep ==
  ASSUME NEW row \in BookRow, NEW new \in BookRow, NEW answer \in BankRow, Local(row, new)
  PROVE  /\ InStep(row, answer) => InStep(new, answer)
         /\ Unpaid(row, answer) => Unpaid(new, answer)
  BY DEF Local, InStep, Unpaid, LocalSuccess

-----------------------------------------------------------------------------
(* Types. *)

LEMMA InitTyped == BooksInit => Typed
<1> SUFFICES ASSUME BooksInit PROVE Typed
  OBVIOUS
<1>1. book \in [Bills -> BookRow]
  BY DEF BooksInit, BookRow, BookStatus
<1>2. bank \in [Bills -> BankRow]
  BY DEF BooksInit, BankRow
<1>3. NoScan.rows \in [{} -> BankRow]
  BY DEF NoScan
<1>4. scan \in ScanType
  BY <1>3 DEF BooksInit, NoScan, ScanType
<1> QED
  BY <1>1, <1>2, <1>4 DEF BooksInit, Typed

(* The actions that change a row by what the gateway, or somebody, says. *)
Deeds(b) ==
    \/ Learn(b) \/ GiveUp(b) \/ ReleaseHold(b) \/ Chargeback(b) \/ Age(b)
    \/ \E status \in {"PARTIALLY_REFUNDED", "REFUNDED"} : PayBack(b, status)

(* They change one row, in one of two ways, and leave the rest. *)
LEMMA DeedsChange ==
  ASSUME Typed, NEW b \in Bills, Deeds(b)
  PROVE  /\ UNCHANGED <<bank, foreign, scan, settled>>
         /\ \E new \in BookRow : /\ book' = [book EXCEPT ![b] = new]
                                 /\ Local(book[b], new) \/ new \in Applied(book[b], bank[b])
<1>0. book[b] \in BookRow /\ bank[b] \in BankRow
  BY DEF Typed
<1>1. CASE Learn(b)
  BY <1>0, <1>1, AppliedTyped DEF Learn, Books
<1>2. ASSUME NEW from, NEW to \in BookStatus, Turns(b, from, to), Undisturbed,
             book[b].status \in from => \/ book[b].status = "OPEN" /\ to = "ABANDONED"
                                        \/ /\ book[b].status \in {"SUCCESS", "PARTIALLY_REFUNDED", "REFUNDED", "DISPUTED"}
                                           /\ to \in {"SUCCESS", "PARTIALLY_REFUNDED", "REFUNDED", "DISPUTED"}
      PROVE  /\ UNCHANGED <<bank, foreign, scan, settled>>
             /\ \E new \in BookRow : book' = [book EXCEPT ![b] = new] /\ Local(book[b], new)
  <2> DEFINE new == [book[b] EXCEPT !.status = to]
  <2>1. new \in BookRow /\ new.status = to
    BY <1>0 DEF BookRow
  <2>2. book' = [book EXCEPT ![b] = new]
    BY <1>2 DEF Turns
  <2>3. Local(book[b], new)
    BY <1>2, <2>1 DEF Local, Turns, LocalSuccess
  <2> QED
    BY <1>2, <2>1, <2>2, <2>3 DEF Turns, Undisturbed
<1>3. CASE GiveUp(b)
  BY <1>2, <1>3 DEF GiveUp, BookStatus
<1>4. CASE Chargeback(b)
  BY <1>2, <1>4 DEF Chargeback, BookStatus
<1>5. ASSUME NEW status \in {"PARTIALLY_REFUNDED", "REFUNDED"}, PayBack(b, status)
      PROVE  /\ UNCHANGED <<bank, foreign, scan, settled>>
             /\ \E new \in BookRow : book' = [book EXCEPT ![b] = new] /\ Local(book[b], new)
  BY <1>2, <1>5 DEF PayBack, BookStatus
<1>6. CASE ReleaseHold(b)
  <2> DEFINE mid == [book[b] EXCEPT !.held = FALSE]
             new == Credited(mid)
  <2>1. mid \in BookRow /\ mid.status = book[b].status
    BY <1>0 DEF BookRow
  <2>2. new \in BookRow /\ new.status = mid.status
    BY <2>1 DEF Credited, BookRow
  <2>3. book' = [book EXCEPT ![b] = new]
    BY <1>6 DEF ReleaseHold
  <2> QED
    BY <1>6, <2>1, <2>2, <2>3 DEF ReleaseHold, Undisturbed, Local
<1>7. CASE Age(b)
  <2> DEFINE new == [book[b] EXCEPT !.fresh = FALSE]
  <2>1. new \in BookRow /\ new.status = book[b].status
    BY <1>0 DEF BookRow
  <2>2. book' = [book EXCEPT ![b] = new]
    BY <1>7 DEF Age
  <2> QED
    BY <1>7, <2>1, <2>2 DEF Age, Undisturbed, Local
<1> QED
  BY <1>1, <1>3, <1>4, <1>5, <1>6, <1>7 DEF Deeds

(* The gateway's own steps, and the end of a dispute it decides. *)
Gateway ==
    \/ BankHasForeign
    \/ \E b \in Bills : \/ \E won \in BOOLEAN : ChargebackEnds(b, won)
                        \/ \E charge \in {"ongoing", "success", "failed", "abandoned", "reversed"}, right \in BOOLEAN :
                              (charge \notin {"success", "reversed"} => right) /\ BankSays(b, charge, right)

LEMMA GatewayChange ==
  ASSUME Typed, AllUnpaid, Gateway
  PROVE  Typed' /\ AllUnpaid' /\ ~scan'.quiet
<1>0. /\ scan' \in ScanType /\ scan'.review = scan.review /\ ~scan'.quiet
      /\ settled' = settled
  <2>1. Disturbed /\ settled' = settled
    BY DEF Gateway, BankHasForeign, ChargebackEnds, BankSays, Turns
  <2> QED
    BY <2>1 DEF Disturbed, Typed, ScanType
<1>1. CASE BankHasForeign
  BY <1>0, <1>1 DEF BankHasForeign, Typed, AllUnpaid
<1>2. ASSUME NEW b \in Bills, NEW won \in BOOLEAN, ChargebackEnds(b, won)
      PROVE  Typed' /\ AllUnpaid'
  <2>1. PICK to \in {"SUCCESS", "REVERSED"} :
           /\ book' = [book EXCEPT ![b].status = to] /\ UNCHANGED <<bank, foreign>>
           /\ book[b].status \in {"SUCCESS", "PARTIALLY_REFUNDED", "DISPUTED"}
    BY <1>2 DEF ChargebackEnds, Turns
  <2>2. book' \in [Bills -> BookRow]
    BY <2>1 DEF Typed, BookRow, BookStatus
  <2>3. bank[b].charge # "none"
    BY <2>1 DEF AllUnpaid, Unpaid
  <2>4. AllUnpaid'
    BY <2>1, <2>3 DEF AllUnpaid, Unpaid, Typed
  <2> QED
    BY <1>0, <2>1, <2>2, <2>4 DEF Typed
<1>3. ASSUME NEW b \in Bills, NEW charge \in {"ongoing", "success", "failed", "abandoned", "reversed"},
             NEW right \in BOOLEAN, BankSays(b, charge, right)
      PROVE  Typed' /\ AllUnpaid'
  <2>1. /\ bank' = [bank EXCEPT ![b] = [charge |-> charge, right |-> right]]
        /\ UNCHANGED <<book, foreign>>
    BY <1>3 DEF BankSays
  <2>2. [charge |-> charge, right |-> right] \in BankRow
    BY DEF BankRow
  <2> QED
    BY <1>0, <2>1, <2>2 DEF Typed, AllUnpaid, Unpaid
<1> QED
  BY <1>0, <1>1, <1>2, <1>3 DEF Gateway

(* What is listed was heard of. *)
Heard ==
    /\ \A b \in DOMAIN scan.rows : scan.rows[b].charge # "none" /\ bank[b].charge # "none"
    /\ scan.step = "rows" => scan.todo \subseteq DOMAIN scan.rows

Known == Typed /\ AllUnpaid /\ Heard
Invariant == Known /\ ListCurrent /\ Treated

LEMMA ListTyped ==
  ASSUME Typed, NEW b \in DOMAIN scan.rows
  PROVE  b \in Bills /\ scan.rows[b] \in BankRow
<1>1. PICK S \in SUBSET Bills : scan.rows \in [S -> BankRow]
  BY DEF Typed, ScanType
<1> QED
  BY <1>1

LEMMA GatewayKeeps ==
  ASSUME Invariant, Gateway
  PROVE  Invariant'
<1>1. Typed' /\ AllUnpaid' /\ ~scan'.quiet
  BY GatewayChange DEF Invariant, Known
<1>2. scan' = [scan EXCEPT !.quiet = FALSE]
  BY DEF Gateway, BankHasForeign, ChargebackEnds, BankSays, Disturbed
<1>3. scan'.rows = scan.rows /\ scan'.step = scan.step /\ scan'.todo = scan.todo
  BY <1>2 DEF Invariant, Known, Typed, ScanType
<1>4. ASSUME NEW b \in Bills, bank[b].charge # "none"
      PROVE  bank'[b].charge # "none"
  <2>1. CASE bank' = bank
    BY <1>4, <2>1
  <2>2. ASSUME NEW c \in Bills, NEW charge \in {"ongoing", "success", "failed", "abandoned", "reversed"},
               NEW right \in BOOLEAN, BankSays(c, charge, right)
        PROVE  bank'[b].charge # "none"
    BY <1>4, <2>2 DEF BankSays, Invariant, Known, Typed
  <2> QED
    BY <2>1, <2>2 DEF Gateway, BankHasForeign, ChargebackEnds
<1>5. Heard'
  BY <1>3, <1>4, ListTyped DEF Heard, Invariant, Known
<1> QED
  BY <1>1, <1>5 DEF Invariant, Known, ListCurrent, Treated, Current

LEMMA DeedsKeep ==
  ASSUME Invariant, NEW b \in Bills, Deeds(b)
  PROVE  Invariant'
<1>1. Typed /\ AllUnpaid /\ Heard
  BY DEF Invariant, Known
<1>2. UNCHANGED <<bank, foreign, scan, settled>>
  BY <1>1, DeedsChange
<1>3. PICK new \in BookRow : /\ book' = [book EXCEPT ![b] = new]
                             /\ Local(book[b], new) \/ new \in Applied(book[b], bank[b])
  BY <1>1, DeedsChange
<1>4. book[b] \in BookRow /\ bank[b] \in BankRow
  BY <1>1 DEF Typed
<1>5. /\ InStep(book[b], bank[b]) => InStep(new, bank[b])
      /\ Unpaid(book[b], bank[b]) => Unpaid(new, bank[b])
  BY <1>3, <1>4, LocalInStep, AppliedInStep, AppliedUnpaid
<1>6. \A c \in Bills : book'[c] = IF c = b THEN new ELSE book[c]
  BY <1>1, <1>3 DEF Typed
<1>7. Typed'
  BY <1>1, <1>2, <1>3 DEF Typed
<1>8. AllUnpaid'
  BY <1>1, <1>2, <1>5, <1>6 DEF AllUnpaid
<1>9. Heard' /\ ListCurrent'
  BY <1>1, <1>2 DEF Heard, ListCurrent, Current, Invariant
<1>10. Treated'
  BY <1>2, <1>5, <1>6 DEF Treated, Current, Invariant
<1> QED
  BY <1>7, <1>8, <1>9, <1>10 DEF Invariant, Known

-----------------------------------------------------------------------------
(* The run itself. *)

LEMMA BeginKeeps ==
  ASSUME Invariant, BeginRun
  PROVE  Invariant'
<1> DEFINE listed == {b \in Bills : bank[b].charge # "none"}
           rows == [b \in listed |-> bank[b]]
           review == IF foreign THEN {Stranger} ELSE {}
<1>1. /\ scan' = [step |-> "rows", rows |-> rows, todo |-> listed, review |-> review, quiet |-> TRUE]
      /\ settled' = {} /\ UNCHANGED <<book, bank, foreign>>
  BY DEF BeginRun
<1>2. /\ scan'.step = "rows" /\ scan'.rows = rows /\ scan'.todo = listed
      /\ scan'.review = review
  BY <1>1
<1>3. rows \in [listed -> BankRow] /\ listed \in SUBSET Bills /\ review \in SUBSET (Bills \cup {Stranger})
  BY DEF Invariant, Known, Typed
<1>4. DOMAIN rows = listed /\ \A b \in listed : rows[b] = bank[b]
  OBVIOUS
<1>5. scan' \in ScanType
  <2> HIDE DEF rows, listed, review
  <2>1. rows \in UNION {[S -> BankRow] : S \in SUBSET Bills}
    BY <1>3
  <2> QED
    BY <1>1, <1>3, <2>1 DEF ScanType, Steps
<1>6. Typed' /\ AllUnpaid'
  BY <1>1, <1>5 DEF Invariant, Known, Typed, AllUnpaid
<1>7. Heard'
  BY <1>1, <1>2, <1>4 DEF Heard
<1>8. ListCurrent'
  BY <1>1, <1>2, <1>4 DEF ListCurrent
<1>9. Treated'
  BY <1>1, <1>2 DEF Treated, Invariant, Known, AllUnpaid, Unpaid, InStep, LocalSuccess
<1> QED
  BY <1>6, <1>7, <1>8, <1>9 DEF Invariant, Known

(* A step of the run that leaves the list as it is, and only adds to review. *)
RunOn(step, todo, items) ==
    /\ scan' = [scan EXCEPT !.step = step, !.todo = todo, !.review = @ \cup items]
    /\ scan.step \in Steps /\ UNCHANGED <<bank, foreign, settled>>

LEMMA GoesOn ==
  ASSUME Invariant, NEW step \in {"rows", "stale", "missing", "COMPLETED", "FAILED"},
         step = "rows" => scan.step = "rows",
         NEW todo \in SUBSET Bills, step = "rows" => todo \subseteq scan.todo,
         NEW items \in SUBSET Bills, RunOn(step, todo, items),
         book' \in [Bills -> BookRow], AllUnpaid',
         step # "FAILED" /\ scan.quiet =>
            \A b \in Bills : \/ step = "rows" /\ b \in todo
                            \/ b \in scan.review \cup items
                            \/ InStep(book'[b], bank[b])
  PROVE  Invariant'
<1>1. Typed
  BY DEF Invariant, Known
<1>2. /\ scan'.step = step /\ scan'.todo = todo /\ scan'.review = scan.review \cup items
      /\ scan'.rows = scan.rows /\ scan'.quiet = scan.quiet /\ scan' \in ScanType
  BY <1>1 DEF RunOn, Typed, ScanType, Steps
<1>3. Typed'
  BY <1>1, <1>2 DEF Typed, RunOn
<1>4. Heard'
  BY <1>2 DEF Heard, Invariant, Known, RunOn
<1>5. Current' => Current /\ step # "FAILED"
  BY <1>2 DEF Current, RunOn, Steps
<1>6. ListCurrent'
  BY <1>2, <1>5 DEF ListCurrent, Invariant, RunOn
<1>7. Treated'
  BY <1>2, <1>5 DEF Treated, Invariant, RunOn, Current
<1> QED
  BY <1>3, <1>4, <1>6, <1>7 DEF Invariant, Known

LEMMA DoneGoes ==
  ASSUME Typed, NEW b \in Bills, NEW items, Done(b, items), scan.step \in Steps,
         UNCHANGED <<bank, foreign, settled>>
  PROVE  RunOn(scan.step, scan.todo \ {b}, items)
<1>1. scan \in ScanType
  BY DEF Typed
<1>2. scan' = [scan EXCEPT !.step = scan.step, !.todo = scan.todo \ {b}, !.review = scan.review \cup items]
  BY <1>1 DEF Done, ScanType
<1> QED
  BY <1>2 DEF RunOn

(* A row taken up: it is listed, or put in step with the list. *)
LEMMA RowTreated ==
  ASSUME NEW b, NEW row \in BookRow, NEW listed \in BankRow,
         listed.charge = "success" => listed.right, ~Mismatch(row, listed)
  PROVE  InStep(row, listed)
  BY DEF Mismatch, InStep, LocalSuccess, BankRow, BookRow

LEMMA RunRowKeeps ==
  ASSUME Invariant, NEW b \in Bills, RunRow(b)
  PROVE  Invariant'
<1>1. Typed /\ AllUnpaid /\ Heard /\ ListCurrent /\ Treated
  BY DEF Invariant, Known
<1> DEFINE listed == scan.rows[b]
           wrong == IF listed.charge = "success" /\ ~listed.right THEN {b} ELSE {}
<1>2. /\ scan.step = "rows" /\ b \in scan.todo /\ UNCHANGED <<bank, foreign, settled>>
      /\ b \in DOMAIN scan.rows
  BY <1>1 DEF RunRow, Heard
<1>3. /\ listed \in BankRow /\ book[b] \in BookRow /\ bank[b] \in BankRow
      /\ listed.charge # "none" /\ bank[b].charge # "none"
  BY <1>1, <1>2, ListTyped DEF Typed, Heard
<1>4. scan.step \in Steps /\ scan.todo \ {b} \in SUBSET Bills /\ wrong \in SUBSET Bills
  BY <1>1, <1>2 DEF Typed, ScanType, Steps
<1>5. scan.quiet => bank[b] = listed
  BY <1>1, <1>2 DEF ListCurrent, Current, Steps
<1>6. ASSUME NEW row \in BookRow, NEW items \in SUBSET Bills, book' = [book EXCEPT ![b] = row],
             Done(b, items),
             scan.quiet => b \in items \/ InStep(row, listed)
      PROVE  Invariant'
  <2>1. \A c \in Bills : book'[c] = IF c = b THEN row ELSE book[c]
    BY <1>1, <1>6 DEF Typed
  <2>2. book' \in [Bills -> BookRow]
    BY <1>1, <1>6 DEF Typed
  <2>3. AllUnpaid'
    BY <1>1, <1>2, <1>3, <2>1 DEF AllUnpaid, Unpaid
  <2>4. RunOn("rows", scan.todo \ {b}, items)
    BY <1>1, <1>2, <1>4, <1>6, DoneGoes
  <2>5. scan.quiet => Current
    BY <1>2 DEF Current, Steps
  <2>6. scan.quiet => \A c \in Bills : \/ c \in scan.todo \ {b}
                                      \/ c \in scan.review \cup items
                                      \/ InStep(book'[c], bank[c])
    BY <1>1, <1>2, <1>5, <1>6, <2>1, <2>5 DEF Treated
  <2> QED
    BY <1>2, <1>4, <2>2, <2>3, <2>4, <2>6, GoesOn
<1>7. CASE Mismatch(book[b], listed)
  <2>1. PICK row \in Applied(book[b], listed) :
           /\ book' = [book EXCEPT ![b] = row]
           /\ Done(b, wrong \cup {x \in {b} : row.status = book[b].status})
    BY <1>7 DEF RunRow
  <2>2. row \in BookRow
    BY <1>3, AppliedTyped
  <2> DEFINE items == wrong \cup {x \in {b} : row.status = book[b].status}
  <2>3. items \in SUBSET Bills
    BY <1>4
  <2>4. b \in items \/ InStep(row, listed)
    <3>1. CASE row.status = book[b].status
      BY <3>1
    <3>2. CASE listed.charge = "success" /\ ~listed.right
      BY <3>2
    <3>3. CASE row.status # book[b].status /\ (listed.charge = "success" => listed.right)
      BY <1>3, <3>3, AppliedInStep
    <3> QED
      BY <1>3, <3>1, <3>2, <3>3 DEF BankRow
  <2> QED
    BY <1>6, <2>1, <2>2, <2>3, <2>4
<1>8. CASE ~Mismatch(book[b], listed)
  <2>1. book' = book /\ Done(b, wrong)
    BY <1>8 DEF RunRow
  <2>2. book' = [book EXCEPT ![b] = book[b]]
    BY <1>1, <2>1 DEF Typed
  <2>3. b \in wrong \/ InStep(book[b], listed)
    BY <1>3, <1>8, RowTreated DEF BankRow
  <2> QED
    BY <1>3, <1>4, <1>6, <2>1, <2>2, <2>3
<1> QED
  BY <1>7, <1>8

(* The sets a pass takes up. *)
LEMMA BeginsGoes ==
  ASSUME Typed, NEW step, NEW set \in SUBSET Bills, Begins(step, set), scan.step \in Steps,
         UNCHANGED <<bank, foreign, settled>>
  PROVE  \E todo \in SUBSET Bills : RunOn(step, todo, {})
<1>1. PICK some \in SUBSET set : scan' = [scan EXCEPT !.step = step, !.todo = some]
  BY DEF Begins
<1>2. scan' = [scan EXCEPT !.step = step, !.todo = some, !.review = scan.review \cup {}]
  BY <1>1 DEF Typed, ScanType
<1> QED
  BY <1>2 DEF RunOn

(* Once the list has been gone through, every payment is treated. *)
LEMMA AllTreated ==
  ASSUME Invariant, scan.step \in Steps, scan.step = "rows" => scan.todo = {}, scan.quiet,
         NEW b \in Bills
  PROVE  b \in scan.review \/ InStep(book[b], bank[b])
  BY DEF Invariant, Treated, Current

LEMMA RunListedKeeps ==
  ASSUME Invariant, RunListed
  PROVE  Invariant'
<1>1. Typed /\ AllUnpaid
  BY DEF Invariant, Known
<1>2. UNCHANGED <<book, bank, foreign, settled>> /\ scan.step = "rows" /\ scan.todo = {} /\ scan.step \in Steps
  BY DEF RunListed, Steps
<1>3. PICK todo \in SUBSET Bills : RunOn("stale", todo, {})
  BY <1>1, <1>2, BeginsGoes DEF RunListed
<1>4. book' \in [Bills -> BookRow] /\ AllUnpaid'
  BY <1>1, <1>2 DEF Typed, AllUnpaid
<1> QED
  BY <1>2, <1>3, <1>4, GoesOn, AllTreated

LEMMA RunStaleKeeps ==
  ASSUME Invariant, NEW b \in Bills, RunStale(b)
  PROVE  Invariant'
<1>1. Typed /\ AllUnpaid
  BY DEF Invariant, Known
<1>2. UNCHANGED <<bank, foreign, settled>> /\ scan.step = "stale" /\ scan.step \in Steps /\ Done(b, {})
  BY DEF RunStale, Steps
<1>3. book[b] \in BookRow /\ bank[b] \in BankRow
  BY <1>1 DEF Typed
<1>4. PICK row \in BookRow : /\ book' = [book EXCEPT ![b] = row]
                             /\ row = book[b] \/ row \in Applied(book[b], bank[b])
  <2>1. CASE book' = book
    <3>1. book' = [book EXCEPT ![b] = book[b]]
      BY <1>1, <2>1 DEF Typed
    <3> QED
      BY <1>3, <3>1
  <2>2. CASE Books(b, Applied(book[b], bank[b]))
    BY <1>3, <2>2, AppliedTyped DEF Books
  <2> QED
    BY <2>1, <2>2 DEF RunStale
<1>5. \A c \in Bills : book'[c] = IF c = b THEN row ELSE book[c]
  BY <1>1, <1>4 DEF Typed
<1>6. /\ InStep(book[b], bank[b]) => InStep(row, bank[b])
      /\ Unpaid(book[b], bank[b]) => Unpaid(row, bank[b])
  BY <1>3, <1>4, AppliedInStep, AppliedUnpaid
<1>7. book' \in [Bills -> BookRow]
  BY <1>1, <1>4 DEF Typed
<1>8. AllUnpaid'
  BY <1>1, <1>2, <1>5, <1>6 DEF AllUnpaid
<1>9. RunOn("stale", scan.todo \ {b}, {}) /\ scan.todo \ {b} \in SUBSET Bills
  BY <1>1, <1>2, DoneGoes DEF Typed, ScanType
<1>10. scan.quiet => \A c \in Bills : c \in scan.review \cup {} \/ InStep(book'[c], bank[c])
  BY <1>2, <1>5, <1>6, AllTreated
<1> QED
  BY <1>7, <1>8, <1>9, <1>10, GoesOn

LEMMA RunCreditsKeeps ==
  ASSUME Invariant, RunCredits
  PROVE  Invariant'
<1>1. Typed /\ AllUnpaid
  BY DEF Invariant, Known
<1>2. /\ UNCHANGED <<bank, foreign, settled>> /\ scan.step = "stale" /\ scan.step \in Steps
      /\ book' = [b \in Bills |-> Credited(book[b])]
  BY DEF RunCredits, Steps
<1>3. PICK todo \in SUBSET Bills : RunOn("missing", todo, {})
  BY <1>1, <1>2, BeginsGoes DEF RunCredits
<1>4. \A b \in Bills : book'[b] \in BookRow /\ book'[b].status = book[b].status
  <2> SUFFICES ASSUME NEW b \in Bills PROVE book'[b] \in BookRow /\ book'[b].status = book[b].status
    OBVIOUS
  <2>1. book[b] \in BookRow /\ book'[b] = Credited(book[b])
    BY <1>1, <1>2 DEF Typed
  <2> QED
    BY <2>1 DEF Credited, BookRow
<1>5. book' \in [Bills -> BookRow]
  BY <1>2, <1>4
<1>6. AllUnpaid'
  BY <1>1, <1>2, <1>4 DEF AllUnpaid, Unpaid
<1>7. scan.quiet => \A c \in Bills : c \in scan.review \cup {} \/ InStep(book'[c], bank[c])
  BY <1>2, <1>4, AllTreated DEF InStep, LocalSuccess
<1> QED
  BY <1>3, <1>5, <1>6, <1>7, GoesOn

LEMMA RunMissingKeeps ==
  ASSUME Invariant, NEW b \in Bills, RunMissing(b)
  PROVE  Invariant'
<1>1. Typed /\ AllUnpaid
  BY DEF Invariant, Known
<1>2. UNCHANGED <<book, bank, foreign, settled>> /\ scan.step = "missing" /\ scan.step \in Steps
  BY DEF RunMissing, Steps
<1>3. PICK items \in SUBSET Bills : Done(b, items)
  BY DEF RunMissing
<1>4. RunOn("missing", scan.todo \ {b}, items) /\ scan.todo \ {b} \in SUBSET Bills
  BY <1>1, <1>2, <1>3, DoneGoes DEF Typed, ScanType
<1>5. book' \in [Bills -> BookRow] /\ AllUnpaid'
  BY <1>1, <1>2 DEF Typed, AllUnpaid
<1> QED
  BY <1>2, <1>4, <1>5, GoesOn, AllTreated

LEMMA RunEndsKeeps ==
  ASSUME Invariant, RunEnds
  PROVE  Invariant'
<1>1. Typed /\ AllUnpaid
  BY DEF Invariant, Known
<1>2. UNCHANGED <<book, bank, foreign, settled>> /\ scan.step \in Steps
  BY DEF RunEnds, Steps
<1>3. PICK step \in {"COMPLETED", "FAILED"} :
         scan' = [scan EXCEPT !.step = step] /\ (step = "COMPLETED" => scan.step = "missing")
  BY DEF RunEnds
<1>4. scan' = [scan EXCEPT !.step = step, !.todo = scan.todo, !.review = scan.review \cup {}]
  BY <1>1, <1>3 DEF Typed, ScanType
<1>5. RunOn(step, scan.todo, {}) /\ scan.todo \in SUBSET Bills
  BY <1>1, <1>2, <1>4 DEF RunOn, Typed, ScanType
<1>6. book' \in [Bills -> BookRow] /\ AllUnpaid'
  BY <1>1, <1>2 DEF Typed, AllUnpaid
<1> QED
  BY <1>2, <1>3, <1>5, <1>6, GoesOn, AllTreated

-----------------------------------------------------------------------------
(* The theorems. *)

LEMMA InitInvariant == BooksInit => Invariant
<1> SUFFICES ASSUME BooksInit PROVE Invariant
  OBVIOUS
<1>1. Typed
  BY InitTyped
<1>2. \A b \in Bills : book[b].status = "OPEN"
  <2> SUFFICES ASSUME NEW b \in Bills PROVE book[b].status = "OPEN"
    OBVIOUS
  <2>1. book[b] \in [status : {"OPEN"}, held : {FALSE}, credited : {FALSE}, fresh : {TRUE}]
    BY DEF BooksInit
  <2> QED
    BY <2>1
<1>3. AllUnpaid
  BY <1>2 DEF AllUnpaid, Unpaid
<1>4. scan.step = "none" /\ DOMAIN scan.rows = {}
  BY DEF BooksInit, NoScan
<1> QED
  BY <1>1, <1>3, <1>4 DEF Invariant, Known, Heard, ListCurrent, Treated, Current, Steps

LEMMA NextKeeps == Invariant /\ [BooksNext]_booksVars => Invariant'
<1> SUFFICES ASSUME Invariant, [BooksNext]_booksVars PROVE Invariant'
  OBVIOUS
<1>1. CASE UNCHANGED booksVars
  BY <1>1 DEF booksVars, Invariant, Known, Typed, AllUnpaid, Heard, ListCurrent, Treated, Current
<1>2. CASE Gateway
  BY <1>2, GatewayKeeps
<1>3. CASE \E b \in Bills : Deeds(b)
  BY <1>3, DeedsKeep
<1>4. CASE BeginRun \/ RunListed \/ RunCredits \/ RunEnds
  BY <1>4, BeginKeeps, RunListedKeeps, RunCreditsKeeps, RunEndsKeeps
<1>5. CASE \E b \in Bills : RunRow(b) \/ RunStale(b) \/ RunMissing(b)
  BY <1>5, RunRowKeeps, RunStaleKeeps, RunMissingKeeps
<1>6. ASSUME NEW item, NEW who, ResolveItem(item, who)
      PROVE  Invariant'
  BY <1>6 DEF ResolveItem, Invariant, Known, Typed, AllUnpaid, Heard, ListCurrent, Treated, Current
<1> QED
  BY <1>1, <1>2, <1>3, <1>4, <1>5, <1>6 DEF BooksNext, Gateway, Deeds

(* The rows, the gateway's answers and the run keep their types; what is     *)
(* resolved was listed (payments/service.py:693-793).                        *)
THEOREM TypeCorrect == BooksSpec => []BooksTypeOK
<1>1. Invariant => BooksTypeOK
  BY DEF Invariant, Known, Typed, ScanType, BooksTypeOK
<1> QED
  BY <1>1, InitInvariant, NextKeeps, PTL DEF BooksSpec

(* When the run has completed and the gateway has not moved, what is not     *)
(* listed agrees, and if nothing is, the revenue is the money received.      *)
LEMMA InvariantHolds == Invariant => BooksHold
<1> SUFFICES ASSUME Invariant, scan.step = "COMPLETED", scan.quiet
    PROVE  /\ \A b \in Bills \ scan.review : Agrees(b)
           /\ foreign => Stranger \in scan.review
           /\ scan.review = {} => Gross = Received
  BY DEF BooksHold
<1>1. Current /\ scan.step # "rows"
  BY DEF Current
<1>2. \A b \in Bills : b \in scan.review \/ InStep(book[b], bank[b])
  BY <1>1 DEF Invariant, Treated
<1>3. \A b \in Bills \ scan.review : Agrees(b)
  BY <1>2 DEF InStep, Agrees
<1>4. foreign => Stranger \in scan.review
  BY <1>1 DEF Invariant, ListCurrent
<1>5. ASSUME scan.review = {} PROVE Gross = Received
  <2>1. {b \in Bills : LocalSuccess(book[b])} = {b \in Bills : bank[b].charge = "success"}
    BY <1>2, <1>5 DEF InStep, LocalSuccess
  <2> QED
    BY <2>1 DEF Gross, Received
<1> QED
  BY <1>3, <1>4, <1>5

(* docs/OPERATIONS.md:215: no completed reconciliation leaves a difference   *)
(* unlisted, however many payments there are and whatever happens to them    *)
(* while it runs.                                                            *)
THEOREM Reconciled == BooksSpec => []BooksHold
<1> QED
  BY InvariantHolds, InitInvariant, NextKeeps, PTL DEF BooksSpec

-----------------------------------------------------------------------------
(* Billing: the inductive invariant.                                         *)

Task == {Resting} \cup [op : {"trial", "cancel", "change", "bill", "overdue", "renew", "end"}, row : Subscription]
        \cup [op : {"redeem"}, row : Subscription, count : Nat]
        \cup [op : {"renewed"}, row : Subscription, paid : BOOLEAN]
        \cup [op : {"pay"}, row : Subscription, invoice : Nat]

BillingTyped == BillingTypeOK /\ work \in [Tasks -> Task]

PaysThere(w) == w.op = "pay" => w.invoice \in 1..Len(invoices)
PaymentsThere == \A t \in Tasks : PaysThere(work[t])

(* What was recorded, and billed, lies in the past. *)
PastUsage == usage \subseteq 0..day /\ \A i \in 1..Len(invoices) : invoices[i].rows \subseteq 0..day

(* Where requests wait for each other, one is at work; what it has loaded    *)
(* is still so.                                                              *)
OneWorks == calm => \A t, u \in Tasks : Busy(t) /\ Busy(u) => t = u

Last == invoices[Len(invoices)]

Loaded(w) ==
    /\ w.op \in {"trial", "cancel", "renew", "renewed", "end", "pay", "bill"} => w.row = sub
    /\ w.op \in {"redeem", "change"} =>
         /\ w.row.end = sub.end /\ w.row.cancel = sub.cancel
         /\ IF w.row.plan = "FREE" THEN w.row.status = "ACTIVE" ELSE w.row.status = sub.status
    /\ w.op = "redeem" => w.count = redemptions /\ w.count < MaxRedemptions
    /\ w.op = "bill" => w.row.plan = "PAID"
    /\ w.op = "overdue" /\ ~FullCoupon => Len(invoices) > 0 /\ Last.status = "OPEN"
    /\ w.op = "renew" => w.row.end <= day
    /\ w.op = "renewed" => /\ Len(invoices) > 0 /\ Last.status = (IF w.paid THEN "PAID" ELSE "OPEN")
AllLoaded == calm => \A t \in Tasks : Loaded(work[t])

(* The end of the last period billed by a renewal: that of the row, or the   *)
(* next one while its invoice is issued and the row not saved.               *)
BilledTo == IF \E t \in Tasks : work[t].op = "renewed" THEN sub.end + Month ELSE sub.end

(* No invoice is for more than that, but one of before a trial for its time. *)
Within(invoice, to) ==
    /\ invoice.trials <= trials
    /\ \A u \in invoice.rows : u < to
    /\ invoice.renewal /\ invoice.trials = trials => invoice.to <= to
AllWithin == calm => \A i \in 1..Len(invoices) : Within(invoices[i], BilledTo)

InOrder == calm => RenewedOnce /\ PastDueOwes /\ redemptions = redeemed /\ redeemed <= MaxRedemptions

BillingIInv == BillingTyped /\ PaymentsThere /\ PastUsage /\ OneWorks /\ AllLoaded /\ AllWithin /\ InOrder

-----------------------------------------------------------------------------
(* Billing: types.                                                           *)

LEMMA TaskIs ==
  ASSUME NEW w \in Task
  PROVE  /\ w.op \in {"rest", "trial", "cancel", "change", "bill", "overdue", "renew", "end", "redeem", "renewed", "pay"}
         /\ w.op # "rest" => w.row \in Subscription
         /\ w.op = "redeem" => w.count \in Nat
         /\ w.op = "renewed" => w.paid \in BOOLEAN
         /\ w.op = "pay" => w.invoice \in Nat
         /\ w.op = "rest" => w = Resting
  BY DEF Task, Resting

LEMMA BillingNumbers ==
  /\ Month \in Nat /\ Trial \in Nat /\ Month > 0 /\ Trial > 0 /\ LastDay \in Nat /\ MaxInvoices \in Nat
  /\ MaxRedemptions \in Nat /\ FullCoupon \in BOOLEAN
  BY BillingAssumption DEF BillingAssumption

LEMMA BillingTypes ==
  ASSUME BillingIInv
  PROVE  /\ sub \in Subscription /\ day \in 0..LastDay /\ day \in Nat /\ invoices \in Seq(Invoice) /\ usage \subseteq 0..LastDay
         /\ redemptions \in Nat /\ redeemed \in Nat /\ trials \in Nat /\ calm \in BOOLEAN
         /\ work \in [Tasks -> Task] /\ sub.end \in Int /\ Len(invoices) \in Nat
  BY BillingNumbers DEF BillingIInv, BillingTyped, BillingTypeOK, Subscription

(* A task moves on: the others have nothing to do where requests wait.       *)
OthersRest(t) == \A u \in Tasks : u # t => work[u].op = "rest"

LEMMA TaskMoves ==
  ASSUME BillingIInv, NEW t \in Tasks, NEW w \in Task, work' = [work EXCEPT ![t] = w]
  PROVE  /\ work' \in [Tasks -> Task] /\ work'[t] = w
         /\ \A u \in Tasks : u # t => work'[u] = work[u]
  BY DEF BillingIInv, BillingTyped

LEMMA BusyIsAlone ==
  ASSUME BillingIInv, NEW t \in Tasks, Busy(t) \/ Ready(t)
  PROVE  calm => OthersRest(t)
<1>1. CASE Busy(t)
  BY <1>1 DEF BillingIInv, OneWorks, OthersRest, Busy
<1>2. CASE Ready(t)
  BY <1>2 DEF Ready, OthersRest, Busy
<1> QED
  BY <1>1, <1>2

LEMMA WorkMoves ==
  ASSUME BillingIInv, NEW t \in Tasks, NEW w \in Task, work' = [work EXCEPT ![t] = w], calm' = calm,
         calm => OthersRest(t), calm => Loaded(w)'
  PROVE  /\ OneWorks' /\ AllLoaded'
         /\ calm => BilledTo' = IF w.op = "renewed" THEN sub'.end + Month ELSE sub'.end
<1>1. PICK z : z = work' /\ z \in [Tasks -> Task] /\ z[t] = w /\ \A u \in Tasks : u # t => z[u] = work[u]
  BY TaskMoves
<1>2. calm => \A u \in Tasks : u # t => z[u].op = "rest"
  BY <1>1 DEF OthersRest
<1>3. OneWorks'
  BY <1>1, <1>2 DEF OneWorks, Busy
<1>4. ASSUME NEW u \in Tasks, calm PROVE Loaded(z[u])'
  <2>1. CASE u = t
    BY <1>1, <1>4, <2>1
  <2>2. CASE u # t
    <3>1. z[u].op = "rest"
      BY <1>2, <1>4, <2>2
    <3> QED
      BY <3>1 DEF Loaded
  <2> QED
    BY <2>1, <2>2
<1>5. AllLoaded'
  BY <1>1, <1>4 DEF AllLoaded
<1>6. calm => ((\E u \in Tasks : z[u].op = "renewed") <=> w.op = "renewed")
  BY <1>1, <1>2
<1>7. calm => BilledTo' = IF w.op = "renewed" THEN sub'.end + Month ELSE sub'.end
  BY <1>1, <1>6 DEF BilledTo
<1> QED
  BY <1>3, <1>5, <1>7

(* Invoices as they were, but for what is paid. *)
SameInvoices ==
    /\ invoices' \in Seq(Invoice) /\ Len(invoices') = Len(invoices)
    /\ \A i \in 1..Len(invoices) :
         /\ invoices'[i].rows = invoices[i].rows /\ invoices'[i].renewal = invoices[i].renewal
         /\ invoices'[i].trials = invoices[i].trials
         /\ invoices'[i].from = invoices[i].from /\ invoices'[i].to = invoices[i].to

LEMMA InvoicesStand == ASSUME BillingIInv, UNCHANGED invoices PROVE SameInvoices
  BY DEF BillingIInv, BillingTyped, BillingTypeOK, SameInvoices

LEMMA InvoiceIs ==
  ASSUME BillingIInv, NEW i \in 1..Len(invoices)
  PROVE  /\ invoices[i] \in Invoice /\ invoices[i].from \in Int /\ invoices[i].to \in Int
         /\ invoices[i].trials \in Nat /\ invoices[i].rows \subseteq Int /\ invoices[i].renewal \in BOOLEAN
<1>1. invoices[i] \in Invoice
  BY BillingTypes
<1> QED
  BY <1>1 DEF Invoice

LEMMA BilledToIsInt == ASSUME BillingIInv PROVE BilledTo \in Int /\ sub.end <= BilledTo
  BY BillingTypes, BillingNumbers DEF BilledTo

LEMMA WithinStill ==
  ASSUME BillingIInv, calm, SameInvoices, UNCHANGED trials, NEW to \in Int, BilledTo <= to, NEW z, z = invoices'
  PROVE  RenewedOnce' /\ \A i \in 1..Len(z) : Within(z[i], to)'
<1>1. z = invoices'
  OBVIOUS
<1>2. ASSUME NEW i \in 1..Len(z) PROVE Within(z[i], to)'
  <2>1. i \in 1..Len(invoices)
    BY <1>1, <1>2 DEF SameInvoices
  <2>2. Within(invoices[i], BilledTo)
    BY <2>1 DEF BillingIInv, AllWithin
  <2>3. invoices[i].to \in Int /\ invoices[i].rows \subseteq Int /\ BilledTo \in Int
    BY <2>1, InvoiceIs, BilledToIsInt
  <2>4. /\ invoices[i].trials <= trials /\ (\A u \in invoices[i].rows : u < to)
        /\ invoices[i].renewal /\ invoices[i].trials = trials => invoices[i].to <= to
    BY <2>2, <2>3 DEF Within
  <2>5. /\ z[i].trials = invoices[i].trials /\ z[i].rows = invoices[i].rows /\ z[i].renewal = invoices[i].renewal
        /\ z[i].to = invoices[i].to
    BY <1>1, <2>1 DEF SameInvoices
  <2> QED
    BY <2>4, <2>5 DEF Within
<1>3. RenewedOnce'
  BY DEF BillingIInv, InOrder, RenewedOnce, SameInvoices
<1> QED
  BY <1>1, <1>2, <1>3

LEMMA UsageStands ==
  ASSUME BillingIInv, SameInvoices, UNCHANGED <<day, usage>>
  PROVE  PastUsage'
  BY DEF BillingIInv, PastUsage, SameInvoices

(* A task moves on, no invoice is issued: what is left to show. *)
LEMMA NoInvoice ==
  ASSUME BillingIInv, NEW t \in Tasks, NEW w \in Task, work' = [work EXCEPT ![t] = w], Busy(t) \/ Ready(t),
         SameInvoices, UNCHANGED <<calm, day, usage, trials>>, sub' \in Subscription,
         redemptions' \in Nat, redeemed' \in Nat, PaysThere(w)',
         calm => /\ Loaded(w)'
                 /\ BilledTo <= IF w.op = "renewed" THEN sub'.end + Month ELSE sub'.end
                 /\ PastDueOwes' /\ redemptions' = redeemed' /\ redeemed' <= MaxRedemptions
  PROVE  BillingIInv'
<1>1. calm => OthersRest(t)
  BY BusyIsAlone
<1>2. /\ OneWorks' /\ AllLoaded'
      /\ calm => BilledTo' = IF w.op = "renewed" THEN sub'.end + Month ELSE sub'.end
  BY <1>1, WorkMoves
<1>3. PICK to : to = IF w.op = "renewed" THEN sub'.end + Month ELSE sub'.end
  OBVIOUS
<1>4. to \in Int
  BY <1>3, BillingNumbers DEF Subscription
<1>13. PICK z : z = invoices'
  OBVIOUS
<1>5. calm => RenewedOnce' /\ \A i \in 1..Len(z) : Within(z[i], to)'
  BY <1>3, <1>4, <1>13, WithinStill
<1>6. AllWithin'
  <2>1. calm => BilledTo' = to
    BY <1>2, <1>3
  <2> QED
    BY <1>5, <1>13, <2>1 DEF AllWithin
<1>7. InOrder'
  BY <1>5 DEF InOrder
<1>8. work' \in [Tasks -> Task] /\ work'[t] = w /\ \A u \in Tasks : u # t => work'[u] = work[u]
  BY TaskMoves
<1>9. PaymentsThere'
  BY <1>8 DEF BillingIInv, PaymentsThere, PaysThere, SameInvoices
<1>10. PastUsage'
  BY UsageStands
<1>11. BillingTyped'
  BY <1>8, BillingTypes DEF BillingTyped, BillingTypeOK, SameInvoices
<1> QED
  BY <1>2, <1>6, <1>7, <1>9, <1>10, <1>11 DEF BillingIInv

-----------------------------------------------------------------------------
(* Billing: the steps.                                                       *)

(* What a task has loaded. *)
LEMMA LoadedBy ==
  ASSUME BillingIInv, NEW t \in Tasks, Busy(t)
  PROVE  /\ work[t] \in Task /\ work[t].row \in Subscription
         /\ calm => Loaded(work[t]) /\ OthersRest(t) /\ InOrder
         /\ calm => BilledTo = IF work[t].op = "renewed" THEN sub.end + Month ELSE sub.end
<1>1. work[t] \in Task /\ work[t].op # "rest"
  BY DEF Busy, BillingIInv, BillingTyped
<1>2. work[t].row \in Subscription
  BY <1>1, TaskIs
<1>3. calm => Loaded(work[t]) /\ OthersRest(t) /\ InOrder
  BY BusyIsAlone DEF BillingIInv, AllLoaded
<1>4. calm => BilledTo = IF work[t].op = "renewed" THEN sub.end + Month ELSE sub.end
  BY <1>3 DEF BilledTo, OthersRest
<1> QED
  BY <1>1, <1>2, <1>3, <1>4

LEMMA NextDayKeeps == ASSUME BillingIInv, NextDay PROVE BillingIInv'
<1>1. /\ day' = day + 1 /\ day < LastDay /\ UNCHANGED <<calm, sub, invoices, usage, redemptions, redeemed, trials, work>>
  BY DEF NextDay
<1>2. BillingTyped'
  BY <1>1, BillingTypes, BillingNumbers DEF BillingTyped, BillingTypeOK
<1>3. PaymentsThere' /\ OneWorks'
  BY <1>1 DEF BillingIInv, PaymentsThere, PaysThere, OneWorks, Busy
<1>4. PastUsage'
  BY <1>1, BillingTypes DEF BillingIInv, PastUsage
<1>5. AllLoaded'
  <2>1. PICK z : z = work /\ z = work' /\ z \in [Tasks -> Task]
    BY <1>1, BillingTypes
  <2>2. ASSUME NEW u \in Tasks, calm PROVE Loaded(z[u])'
    <3>1. Loaded(z[u])
      BY <2>1, <2>2 DEF BillingIInv, AllLoaded
    <3>2. z[u].op = "renew" => z[u].row.end \in Int
      BY <2>1, TaskIs DEF Subscription
    <3> QED
      BY <1>1, <3>1, <3>2, BillingTypes DEF Loaded, Last
  <2> QED
    BY <1>1, <2>1, <2>2 DEF AllLoaded
<1>6. AllWithin' /\ InOrder'
  BY <1>1 DEF BillingIInv, AllWithin, Within, BilledTo, InOrder, RenewedOnce, PastDueOwes
<1> QED
  BY <1>2, <1>3, <1>4, <1>5, <1>6 DEF BillingIInv

LEMMA RecordUsageKeeps == ASSUME BillingIInv, RecordUsage PROVE BillingIInv'
<1>1. /\ usage' = usage \cup {day} /\ UNCHANGED <<calm, day, sub, invoices, redemptions, redeemed, trials, work>>
  BY DEF RecordUsage
<1>2. BillingTyped'
  BY <1>1, BillingTypes DEF BillingTyped, BillingTypeOK
<1>3. PaymentsThere' /\ OneWorks'
  BY <1>1 DEF BillingIInv, PaymentsThere, PaysThere, OneWorks, Busy
<1>4. PastUsage'
  <2>1. day \in 0..day
    BY BillingTypes
  <2> QED
    BY <1>1, <2>1 DEF BillingIInv, PastUsage
<1>5. AllLoaded'
  BY <1>1 DEF BillingIInv, AllLoaded, Loaded, Last
<1>6. AllWithin' /\ InOrder'
  BY <1>1 DEF BillingIInv, AllWithin, Within, BilledTo, InOrder, RenewedOnce, PastDueOwes
<1> QED
  BY <1>2, <1>3, <1>4, <1>5, <1>6 DEF BillingIInv

(* A request or the renewal loads the row; nothing else changes. *)
LEMMA LoadKeeps ==
  ASSUME BillingIInv, NEW t \in Tasks, NEW w \in Task, work' = [work EXCEPT ![t] = w], Ready(t),
         UNCHANGED <<calm, day, sub, invoices, usage, redemptions, redeemed, trials>>,
         w.op \notin {"overdue", "renewed"}, PaysThere(w), calm => Loaded(w)
  PROVE  BillingIInv'
<1>1. SameInvoices
  BY InvoicesStand
<1>2. PaysThere(w)' /\ (calm => Loaded(w)')
  BY DEF PaysThere, Loaded
<1>3. calm => BilledTo <= sub'.end
  <2>1. calm => BilledTo = sub.end
    <3>1. calm => \A u \in Tasks : work[u].op # "renewed"
      BY DEF Ready, Busy
    <3> QED
      BY <3>1 DEF BilledTo
  <2> QED
    BY <2>1, BillingTypes
<1>4. calm => PastDueOwes' /\ redemptions' = redeemed' /\ redeemed' <= MaxRedemptions
  BY DEF BillingIInv, InOrder, PastDueOwes
<1>5. sub' \in Subscription /\ redemptions' \in Nat /\ redeemed' \in Nat
  BY BillingTypes
<1> QED
  BY <1>1, <1>2, <1>3, <1>4, <1>5, NoInvoice

LEMMA LoadRowKeeps == ASSUME BillingIInv, NEW t \in Tasks, LoadRow(t) PROVE BillingIInv'
<1>1. PICK op \in {"trial", "cancel"} : Goes(t, op, sub)
  BY DEF LoadRow
<1>2. PICK w : w = [op |-> op, row |-> sub]
  OBVIOUS
<1>3. w \in Task /\ w.op \in {"trial", "cancel"} /\ w.row = sub
  BY <1>2, BillingTypes DEF Task
<1>4. work' = [work EXCEPT ![t] = w] /\ Ready(t) /\ UNCHANGED <<calm, day, sub, invoices, usage, redemptions, redeemed, trials>>
  BY <1>1, <1>2 DEF LoadRow, Goes
<1>5. PaysThere(w) /\ Loaded(w)
  BY <1>3 DEF PaysThere, Loaded
<1> QED
  BY <1>3, <1>4, <1>5, LoadKeeps

LEMMA RenewLoadKeeps == ASSUME BillingIInv, NEW t \in Tasks, RenewLoad(t) PROVE BillingIInv'
<1>1. PICK op \in {"end", "renew"} : Goes(t, op, sub)
  BY DEF RenewLoad
<1>2. PICK w : w = [op |-> op, row |-> sub]
  OBVIOUS
<1>3. w \in Task /\ w.op \in {"end", "renew"} /\ w.row = sub
  BY <1>2, BillingTypes DEF Task
<1>4. /\ work' = [work EXCEPT ![t] = w] /\ Ready(t) /\ UNCHANGED <<calm, day, sub, invoices, usage, redemptions, redeemed, trials>>
      /\ sub.end <= day
  BY <1>1, <1>2 DEF RenewLoad, Goes
<1>5. PaysThere(w) /\ Loaded(w)
  BY <1>3, <1>4 DEF PaysThere, Loaded
<1> QED
  BY <1>3, <1>4, <1>5, LoadKeeps

LEMMA PayLoadKeeps == ASSUME BillingIInv, NEW t \in Tasks, NEW i \in 1..MaxInvoices, PayLoad(t, i) PROVE BillingIInv'
<1>1. PICK w : w = [op |-> "pay", row |-> sub, invoice |-> i]
  OBVIOUS
<1>2. i \in Nat /\ i \in 1..Len(invoices)
  BY BillingTypes, BillingNumbers DEF PayLoad
<1>3. w \in Task /\ w.op = "pay" /\ w.row = sub /\ w.invoice = i
  BY <1>1, <1>2, BillingTypes DEF Task
<1>4. work' = [work EXCEPT ![t] = w] /\ Ready(t) /\ UNCHANGED <<calm, day, sub, invoices, usage, redemptions, redeemed, trials>>
  BY <1>1 DEF PayLoad
<1>5. PaysThere(w) /\ Loaded(w)
  BY <1>2, <1>3 DEF PaysThere, Loaded
<1> QED
  BY <1>3, <1>4, <1>5, LoadKeeps

LEMMA ChangeLoadKeeps ==
  ASSUME BillingIInv, NEW t \in Tasks, NEW plan \in Plans, NEW coupon \in BOOLEAN, ChangeLoad(t, plan, coupon)
  PROVE  BillingIInv'
<1>1. PICK row : row = [sub EXCEPT !.plan = plan, !.coupon = coupon \/ sub.coupon,
                                   !.status = IF plan = "FREE" THEN "ACTIVE" ELSE sub.status]
  OBVIOUS
<1>2. row \in Subscription
  <2>1. sub \in Subscription /\ (coupon \/ sub.coupon) \in BOOLEAN /\ "ACTIVE" \in Statuses
    BY BillingTypes DEF Statuses
  <2>2. PICK c, s : c = (coupon \/ sub.coupon) /\ s = IF plan = "FREE" THEN "ACTIVE" ELSE sub.status
    OBVIOUS
  <2>3. c \in BOOLEAN /\ s \in Statuses
    BY <2>1, <2>2 DEF Subscription
  <2> QED
    BY <1>1, <2>1, <2>2, <2>3 DEF Subscription
<1>3. /\ row.end = sub.end /\ row.cancel = sub.cancel
      /\ IF row.plan = "FREE" THEN row.status = "ACTIVE" ELSE row.status = sub.status
  BY <1>1, BillingTypes DEF Subscription
<1>4. PICK w : w = IF coupon THEN [op |-> "redeem", row |-> row, count |-> redemptions] ELSE [op |-> "change", row |-> row]
  OBVIOUS
<1>5. w \in Task /\ w.op \in {"redeem", "change"} /\ w.row = row /\ (w.op = "redeem" => w.count = redemptions /\ coupon)
  BY <1>2, <1>4, BillingTypes DEF Task
<1>6. /\ work' = [work EXCEPT ![t] = w] /\ Ready(t) /\ UNCHANGED <<calm, day, sub, invoices, usage, redemptions, redeemed, trials>>
      /\ coupon => redemptions < MaxRedemptions
  BY <1>1, <1>4 DEF ChangeLoad
<1>7. PaysThere(w) /\ Loaded(w)
  BY <1>3, <1>5, <1>6 DEF PaysThere, Loaded
<1> QED
  BY <1>5, <1>6, <1>7, LoadKeeps

(* The end of a request: it rests. *)
LEMMA RestKeeps ==
  ASSUME BillingIInv, NEW t \in Tasks, Busy(t), Rest(t),
         SameInvoices, UNCHANGED <<calm, day, usage, redemptions, redeemed, trials>>, sub' \in Subscription,
         calm => BilledTo <= sub'.end /\ PastDueOwes'
  PROVE  BillingIInv'
<1>1. PICK w : w = Resting
  OBVIOUS
<1>2. w \in Task /\ w.op = "rest"
  BY <1>1 DEF Task, Resting
<1>3. work' = [work EXCEPT ![t] = w]
  BY <1>1 DEF Rest
<1>4. PaysThere(w)' /\ Loaded(w)'
  BY <1>2 DEF PaysThere, Loaded
<1>5. calm => redemptions' = redeemed' /\ redeemed' <= MaxRedemptions
  BY DEF BillingIInv, InOrder
<1>6. redemptions' \in Nat /\ redeemed' \in Nat
  BY BillingTypes
<1> QED
  BY <1>2, <1>3, <1>4, <1>5, <1>6, NoInvoice

LEMMA CancelKeeps == ASSUME BillingIInv, NEW t \in Tasks, Cancel(t) PROVE BillingIInv'
<1>1. PICK c : c = ~work[t].row.cancel
  OBVIOUS
<1>2. /\ work[t].op = "cancel" /\ sub' = [sub EXCEPT !.cancel = c] /\ Rest(t)
      /\ UNCHANGED <<calm, day, invoices, usage, redemptions, redeemed, trials>>
  BY <1>1 DEF Cancel
<1>3. Busy(t) /\ c \in BOOLEAN
  BY <1>1, <1>2 DEF Busy
<1>4. sub' \in Subscription /\ sub'.end = sub.end /\ sub'.status = sub.status
  BY <1>2, <1>3, BillingTypes DEF Subscription
<1>5. calm => BilledTo <= sub'.end /\ PastDueOwes'
  BY <1>2, <1>3, <1>4, LoadedBy, BillingTypes DEF InOrder, PastDueOwes
<1> QED
  BY <1>2, <1>3, <1>4, <1>5, InvoicesStand, RestKeeps

LEMMA EndSubscriptionKeeps == ASSUME BillingIInv, NEW t \in Tasks, EndSubscription(t) PROVE BillingIInv'
<1>1. /\ work[t].op = "end" /\ sub' = [sub EXCEPT !.status = "CANCELED"] /\ Rest(t)
      /\ UNCHANGED <<calm, day, invoices, usage, redemptions, redeemed, trials>>
  BY DEF EndSubscription
<1>2. Busy(t)
  BY <1>1 DEF Busy
<1>3. sub' \in Subscription /\ sub'.end = sub.end /\ sub'.status = "CANCELED"
  BY <1>1, BillingTypes DEF Subscription, Statuses
<1>4. calm => BilledTo <= sub'.end /\ PastDueOwes'
  BY <1>1, <1>2, <1>3, LoadedBy, BillingTypes DEF PastDueOwes
<1> QED
  BY <1>1, <1>2, <1>3, <1>4, InvoicesStand, RestKeeps

LEMMA ChangeOverdueKeeps == ASSUME BillingIInv, NEW t \in Tasks, ChangeOverdue(t) PROVE BillingIInv'
<1>1. /\ work[t].op = "overdue" /\ sub' = [sub EXCEPT !.status = "PAST_DUE"] /\ Rest(t)
      /\ UNCHANGED <<calm, day, invoices, usage, redemptions, redeemed, trials>>
  BY DEF ChangeOverdue
<1>2. Busy(t)
  BY <1>1 DEF Busy
<1>3. sub' \in Subscription /\ sub'.end = sub.end
  BY <1>1, BillingTypes DEF Subscription, Statuses
<1>4. calm => Loaded(work[t]) /\ BilledTo <= sub'.end
  BY <1>1, <1>2, <1>3, LoadedBy, BillingTypes
<1>5. calm /\ ~FullCoupon => Len(invoices) \in 1..Len(invoices) /\ invoices[Len(invoices)].status = "OPEN"
  BY <1>1, <1>4, BillingTypes DEF Loaded, Last
<1>6. calm => PastDueOwes'
  BY <1>1, <1>5 DEF PastDueOwes
<1> QED
  BY <1>1, <1>2, <1>3, <1>4, <1>6, InvoicesStand, RestKeeps

LEMMA RenewSaveKeeps == ASSUME BillingIInv, NEW t \in Tasks, RenewSave(t) PROVE BillingIInv'
<1>1. /\ work[t].op = "renewed" /\ sub' = Renewed(work[t].row, work[t].paid) /\ Rest(t)
      /\ UNCHANGED <<calm, day, invoices, usage, redemptions, redeemed, trials>>
  BY DEF RenewSave
<1>2. Busy(t)
  BY <1>1 DEF Busy
<1>3. PICK row, paid : row = work[t].row /\ paid = work[t].paid /\ row \in Subscription /\ paid \in BOOLEAN
  BY <1>1, <1>2, LoadedBy, TaskIs
<1>4. PICK to, status : to = row.end + Month /\ status = (IF paid THEN "ACTIVE" ELSE "PAST_DUE") /\ to \in Int /\ status \in Statuses
  BY <1>3, BillingNumbers DEF Subscription, Statuses
<1>5. sub' = [row EXCEPT !.end = to, !.status = status]
  BY <1>1, <1>3, <1>4 DEF Renewed
<1>6. sub' \in Subscription /\ sub'.end = to /\ sub'.status = status
  BY <1>3, <1>4, <1>5 DEF Subscription
<1>7. calm => /\ row = sub /\ BilledTo = sub.end + Month
              /\ Len(invoices) > 0 /\ Last.status = (IF paid THEN "PAID" ELSE "OPEN")
  BY <1>1, <1>2, <1>3, LoadedBy DEF Loaded
<1>8. calm => BilledTo <= sub'.end
  BY <1>4, <1>6, <1>7
<1>9. calm => PastDueOwes'
  <2>1. calm /\ status = "PAST_DUE" => Len(invoices) \in 1..Len(invoices) /\ invoices[Len(invoices)].status = "OPEN"
    BY <1>4, <1>7, BillingTypes DEF Last
  <2> QED
    BY <1>1, <1>6, <2>1 DEF PastDueOwes
<1> QED
  BY <1>1, <1>2, <1>6, <1>8, <1>9, InvoicesStand, RestKeeps

LEMMA PayCommitKeeps == ASSUME BillingIInv, NEW t \in Tasks, PayCommit(t) PROVE BillingIInv'
<1>1. PICK i, row : i = work[t].invoice /\ row = work[t].row
  OBVIOUS
<1>2. /\ work[t].op = "pay" /\ invoices' = [invoices EXCEPT ![i].status = "PAID"] /\ Rest(t)
      /\ sub' = [row EXCEPT !.status = "ACTIVE", !.end = Later(row.end, invoices[i].to)]
      /\ UNCHANGED <<calm, day, usage, redemptions, redeemed, trials>>
  BY <1>1 DEF PayCommit
<1>3. Busy(t)
  BY <1>2 DEF Busy
<1>4. row \in Subscription /\ row.end \in Int /\ i \in 1..Len(invoices)
  BY <1>1, <1>2, <1>3, LoadedBy DEF BillingIInv, PaymentsThere, PaysThere, Subscription
<1>5. SameInvoices
  <2>1. PICK v : v = [invoices[i] EXCEPT !.status = "PAID"]
    OBVIOUS
  <2>2. invoices[i] \in Invoice
    BY <1>4, InvoiceIs
  <2>3. v \in Invoice /\ v.rows = invoices[i].rows /\ v.renewal = invoices[i].renewal
        /\ v.trials = invoices[i].trials /\ v.from = invoices[i].from /\ v.to = invoices[i].to
    BY <2>1, <2>2 DEF Invoice
  <2>4. invoices' = [invoices EXCEPT ![i] = v]
    BY <1>2, <2>1
  <2>5. invoices' \in Seq(Invoice) /\ Len(invoices') = Len(invoices)
    BY <1>4, <2>3, <2>4, BillingTypes, ExceptSeq
  <2>6. invoices'[i] = v /\ \A j \in 1..Len(invoices) : j # i => invoices'[j] = invoices[j]
    BY <1>4, <2>4, BillingTypes
  <2> QED
    BY <2>3, <2>5, <2>6 DEF SameInvoices
<1>6. PICK to : to = Later(row.end, invoices[i].to) /\ to \in Int /\ row.end <= to
  BY <1>4, InvoiceIs DEF Later
<1>7. sub' \in Subscription /\ sub'.end = to /\ sub'.status = "ACTIVE"
  BY <1>2, <1>4, <1>6 DEF Subscription, Statuses
<1>8. calm => BilledTo <= sub'.end
  <2>1. calm => row = sub /\ BilledTo = sub.end
    BY <1>1, <1>2, <1>3, LoadedBy DEF Loaded
  <2> QED
    BY <1>6, <1>7, <2>1
<1>9. PastDueOwes'
  BY <1>7 DEF PastDueOwes
<1> QED
  BY <1>2, <1>3, <1>5, <1>7, <1>8, <1>9, RestKeeps

LEMMA DiesKeeps == ASSUME BillingIInv, NEW t \in Tasks, Dies(t) PROVE BillingIInv'
<1>1. Busy(t) /\ ~calm /\ Rest(t) /\ UNCHANGED <<calm, day, sub, invoices, usage, redemptions, redeemed, trials>>
  BY DEF Dies
<1>2. sub' \in Subscription
  BY <1>1, BillingTypes
<1> QED
  BY <1>1, <1>2, InvoicesStand, RestKeeps

LEMMA ChangeRedeemKeeps == ASSUME BillingIInv, NEW t \in Tasks, ChangeRedeem(t) PROVE BillingIInv'
<1>1. PICK row : row = work[t].row
  OBVIOUS
<1>2. /\ work[t].op = "redeem" /\ redemptions' = work[t].count + 1 /\ redeemed' = redeemed + 1
      /\ work' = [work EXCEPT ![t] = [op |-> "change", row |-> row]]
      /\ UNCHANGED <<calm, day, sub, invoices, usage, trials>>
  BY <1>1 DEF ChangeRedeem, Goes
<1>3. Busy(t)
  BY <1>2 DEF Busy
<1>4. row \in Subscription /\ work[t].count \in Nat
  BY <1>1, <1>2, <1>3, LoadedBy, TaskIs
<1>5. PICK w : w = [op |-> "change", row |-> row]
  OBVIOUS
<1>6. w \in Task /\ w.op = "change" /\ w.row = row
  BY <1>4, <1>5 DEF Task
<1>7. redemptions' \in Nat /\ redeemed' \in Nat /\ sub' \in Subscription
  BY <1>2, <1>4, BillingTypes
<1>8. PaysThere(w)'
  BY <1>6 DEF PaysThere
<1>9. calm => Loaded(work[t]) /\ InOrder /\ BilledTo = sub.end
  BY <1>2, <1>3, LoadedBy
<1>10. calm => Loaded(w)'
  BY <1>1, <1>2, <1>6, <1>9 DEF Loaded
<1>11. calm => redemptions' = redeemed' /\ redeemed' <= MaxRedemptions
  BY <1>2, <1>9, BillingTypes, BillingNumbers DEF Loaded, InOrder
<1>12. calm => PastDueOwes'
  BY <1>2, <1>9 DEF InOrder, PastDueOwes
<1>13. calm => BilledTo <= IF w.op = "renewed" THEN sub'.end + Month ELSE sub'.end
  BY <1>2, <1>6, <1>9, BillingTypes
<1>14. work' = [work EXCEPT ![t] = w]
  BY <1>2, <1>5
<1> QED
  BY <1>2, <1>3, <1>6, <1>7, <1>8, <1>10, <1>11, <1>12, <1>13, <1>14, InvoicesStand, NoInvoice

LEMMA ChangeSaveKeeps == ASSUME BillingIInv, NEW t \in Tasks, ChangeSave(t) PROVE BillingIInv'
<1>1. PICK row : row = work[t].row
  OBVIOUS
<1>2. /\ work[t].op = "change" /\ sub' = row
      /\ UNCHANGED <<calm, day, invoices, usage, redemptions, redeemed, trials>>
  BY <1>1 DEF ChangeSave
<1>3. Busy(t)
  BY <1>2 DEF Busy
<1>4. row \in Subscription
  BY <1>1, <1>3, LoadedBy
<1>5. calm => /\ row.end = sub.end /\ BilledTo = sub.end /\ InOrder
              /\ IF row.plan = "FREE" THEN row.status = "ACTIVE" ELSE row.status = sub.status
  BY <1>1, <1>2, <1>3, LoadedBy DEF Loaded
<1>6. calm => BilledTo <= sub'.end /\ PastDueOwes'
  <2>1. calm => BilledTo <= sub'.end
    BY <1>2, <1>5, BillingTypes
  <2>2. calm => PastDueOwes'
    BY <1>2, <1>5 DEF InOrder, PastDueOwes
  <2> QED
    BY <2>1, <2>2
<1>7. sub' \in Subscription
  BY <1>2, <1>4
<1>8. CASE Rest(t)
  BY <1>2, <1>3, <1>6, <1>7, <1>8, InvoicesStand, RestKeeps
<1>9. CASE Goes(t, "bill", row) /\ row.plan = "PAID"
  <2>1. PICK w : w = [op |-> "bill", row |-> row]
    OBVIOUS
  <2>2. w \in Task /\ w.op = "bill" /\ w.row = row
    BY <1>4, <2>1 DEF Task
  <2>3. work' = [work EXCEPT ![t] = w]
    BY <1>9, <2>1 DEF Goes
  <2>4. PaysThere(w)'
    BY <2>2 DEF PaysThere
  <2>5. Loaded(w)'
    BY <1>2, <1>9, <2>2 DEF Loaded
  <2>6. calm => redemptions' = redeemed' /\ redeemed' <= MaxRedemptions
    BY <1>2, <1>5 DEF InOrder
  <2>7. redemptions' \in Nat /\ redeemed' \in Nat
    BY <1>2, BillingTypes
  <2>8. calm => BilledTo <= IF w.op = "renewed" THEN sub'.end + Month ELSE sub'.end
    BY <1>6, <2>2
  <2> QED
    BY <1>2, <1>3, <1>6, <1>7, <2>2, <2>3, <2>4, <2>5, <2>6, <2>7, <2>8, InvoicesStand, NoInvoice
<1> QED
  BY <1>1, <1>8, <1>9 DEF ChangeSave

(* A trial: what was billed before is for a time before its end. *)
LEMMA StartTrialKeeps == ASSUME BillingIInv, NEW t \in Tasks, StartTrial(t) PROVE BillingIInv'
<1>1. PICK row : row = work[t].row
  OBVIOUS
<1>2. /\ work[t].op = "trial" /\ sub' = [row EXCEPT !.plan = "PAID", !.status = "TRIALING", !.end = day + Trial]
      /\ trials' = trials + 1 /\ Rest(t)
      /\ UNCHANGED <<calm, day, invoices, usage, redemptions, redeemed>>
  BY <1>1 DEF StartTrial
<1>3. Busy(t)
  BY <1>2 DEF Busy
<1>4. row \in Subscription
  BY <1>1, <1>3, LoadedBy
<1>5. PICK to : to = day + Trial /\ to \in Int /\ day < to
  BY BillingTypes, BillingNumbers
<1>6. sub' \in Subscription /\ sub'.end = to /\ sub'.status = "TRIALING"
  BY <1>2, <1>4, <1>5 DEF Subscription, Plans, Statuses
<1>7. PICK w : w = Resting
  OBVIOUS
<1>8. w \in Task /\ w.op = "rest"
  BY <1>7 DEF Task, Resting
<1>9. work' = [work EXCEPT ![t] = w]
  BY <1>2, <1>7 DEF Rest
<1>10. PaysThere(w)' /\ Loaded(w)'
  BY <1>8 DEF PaysThere, Loaded
<1>11. calm => OthersRest(t)
  BY <1>3, BusyIsAlone
<1>12. OneWorks' /\ AllLoaded' /\ (calm => BilledTo' = to)
  BY <1>2, <1>6, <1>8, <1>9, <1>10, <1>11, WorkMoves
<1>13. AllWithin'
  <2>1. PICK z : z = invoices /\ z = invoices'
    BY <1>2
  <2>2. ASSUME NEW i \in 1..Len(z), calm PROVE Within(z[i], to)'
    <3>1. z[i].trials \in Nat /\ z[i].trials <= trials /\ z[i].rows \subseteq 0..day
      BY <2>1, <2>2, InvoiceIs DEF BillingIInv, AllWithin, Within, PastUsage
    <3>2. z[i].trials <= trials' /\ z[i].trials # trials'
      BY <1>2, <3>1, BillingTypes
    <3>3. \A u \in z[i].rows : u < to
      BY <1>5, <3>1, BillingTypes
    <3> QED
      BY <3>2, <3>3 DEF Within
  <2> QED
    BY <1>2, <1>12, <2>1, <2>2 DEF AllWithin
<1>14. InOrder'
  BY <1>2, <1>6 DEF BillingIInv, InOrder, RenewedOnce, PastDueOwes
<1>15. work' \in [Tasks -> Task] /\ work'[t] = w /\ \A u \in Tasks : u # t => work'[u] = work[u]
  BY <1>8, <1>9, TaskMoves
<1>16. PaymentsThere'
  BY <1>2, <1>8, <1>15 DEF BillingIInv, PaymentsThere, PaysThere
<1>17. PastUsage'
  BY <1>2, InvoicesStand, UsageStands
<1>18. BillingTyped'
  BY <1>2, <1>6, <1>15, BillingTypes DEF BillingTyped, BillingTypeOK
<1> QED
  BY <1>12, <1>13, <1>14, <1>16, <1>17, <1>18 DEF BillingIInv

(* An invoice is issued: by a renewal, for the time after what was billed.   *)
LEMMA IssueKeeps ==
  ASSUME BillingIInv, NEW t \in Tasks, NEW w \in Task, work' = [work EXCEPT ![t] = w], Busy(t),
         UNCHANGED <<calm, day, sub, usage, redemptions, redeemed, trials>>,
         NEW v \in Invoice, invoices' = Append(invoices, v), v.trials = trials, v.rows \subseteq usage,
         \A u \in v.rows : v.from <= u /\ u < v.to,
         w.op # "pay", calm => Loaded(w)',
         NEW to \in Int, to = IF w.op = "renewed" THEN sub.end + Month ELSE sub.end,
         calm => BilledTo <= to /\ (IF v.renewal THEN BilledTo <= v.from /\ v.to = to ELSE v.rows = {})
  PROVE  BillingIInv'
<1>1. PICK z : z = invoices'
  OBVIOUS
<1>2. /\ z \in Seq(Invoice) /\ Len(z) = Len(invoices) + 1 /\ Len(invoices) \in Nat
      /\ z[Len(z)] = v /\ \A i \in 1..Len(invoices) : z[i] = invoices[i]
  BY <1>1, BillingTypes, AppendProperties
<1>3. v.from \in Int /\ v.to \in Int /\ v.trials \in Nat /\ v.rows \subseteq Int /\ v.renewal \in BOOLEAN
  BY DEF Invoice
<1>4. calm => OthersRest(t) /\ InOrder
  BY LoadedBy
<1>5. OneWorks' /\ AllLoaded' /\ (calm => BilledTo' = to)
  BY <1>4, WorkMoves
<1>6. ASSUME NEW i \in 1..Len(invoices), calm
      PROVE  /\ Within(z[i], to)' /\ \A u \in z[i].rows : u < BilledTo
             /\ z[i].renewal /\ z[i].trials = v.trials => z[i].to <= BilledTo
  <2>1. Within(invoices[i], BilledTo) /\ z[i] = invoices[i]
    BY <1>2, <1>6 DEF BillingIInv, AllWithin
  <2>2. z[i].to \in Int /\ z[i].rows \subseteq Int /\ BilledTo \in Int
    BY <2>1, InvoiceIs, BilledToIsInt
  <2>3. /\ z[i].trials <= trials /\ (\A u \in z[i].rows : u < BilledTo)
        /\ z[i].renewal /\ z[i].trials = trials => z[i].to <= BilledTo
    BY <2>1 DEF Within
  <2>4. /\ z[i].trials <= trials' /\ (\A u \in z[i].rows : u < to)
        /\ z[i].renewal /\ z[i].trials = trials' => z[i].to <= to
    BY <1>6, <2>2, <2>3
  <2> QED
    BY <2>3, <2>4 DEF Within
<1>7. calm => Within(v, to)'
  <2>1. calm => /\ v.trials <= trials' /\ (\A u \in v.rows : u < to)
                /\ v.renewal /\ v.trials = trials' => v.to <= to
    BY <1>3
  <2> QED
    BY <2>1 DEF Within
<1>8. AllWithin'
  <2>1. ASSUME NEW i \in 1..Len(z), calm PROVE Within(z[i], to)'
    <3>1. CASE i = Len(z)
      BY <1>2, <1>7, <2>1, <3>1
    <3>2. CASE i # Len(z)
      <4>1. i \in 1..Len(invoices)
        BY <1>2, <3>2
      <4> QED
        BY <1>6, <2>1, <4>1
    <3> QED
      BY <3>1, <3>2
  <2> QED
    BY <1>1, <1>5, <2>1 DEF AllWithin
<1>9. ASSUME calm, NEW i \in 1..Len(invoices)
      PROVE  /\ z[i].rows \cap v.rows = {}
             /\ z[i].renewal /\ v.renewal /\ z[i].trials = v.trials => z[i].to <= v.from
  <2>1. invoices[i].to \in Int /\ invoices[i].rows \subseteq Int /\ BilledTo \in Int /\ z[i] = invoices[i]
    BY <1>2, <1>9, InvoiceIs, BilledToIsInt
  <2>2. CASE v.renewal
    BY <1>3, <1>6, <1>9, <2>1, <2>2
  <2>3. CASE ~v.renewal
    BY <1>9, <2>3
  <2> QED
    BY <2>2, <2>3
<1>10. calm => RenewedOnce'
  <2>1. SUFFICES ASSUME calm, NEW i \in 1..Len(z), NEW j \in 1..Len(z), i # j
                 PROVE  /\ z[i].rows \cap z[j].rows = {}
                        /\ z[i].renewal /\ z[j].renewal /\ z[i].trials = z[j].trials
                             => z[i].to <= z[j].from \/ z[j].to <= z[i].from
    BY <1>1 DEF RenewedOnce
  <2>2. CASE i \in 1..Len(invoices) /\ j \in 1..Len(invoices)
    BY <1>2, <1>4, <2>1, <2>2 DEF InOrder, RenewedOnce
  <2>3. CASE i \in 1..Len(invoices) /\ j = Len(z)
    BY <1>2, <1>9, <2>1, <2>3
  <2>4. CASE i = Len(z) /\ j \in 1..Len(invoices)
    BY <1>2, <1>9, <2>1, <2>4
  <2> QED
    BY <1>2, <2>1, <2>2, <2>3, <2>4
<1>11. calm => PastDueOwes'
  BY <1>1, <1>2, <1>4 DEF InOrder, PastDueOwes
<1>12. InOrder'
  BY <1>4, <1>10, <1>11 DEF InOrder
<1>13. work' \in [Tasks -> Task] /\ work'[t] = w /\ \A u \in Tasks : u # t => work'[u] = work[u]
  BY TaskMoves
<1>14. PaymentsThere'
  <2>1. \A u \in Tasks : u # t => PaysThere(work[u])
    BY DEF BillingIInv, PaymentsThere
  <2> QED
    BY <1>1, <1>2, <1>13, <2>1 DEF PaymentsThere, PaysThere
<1>15. PastUsage'
  <2>1. v.rows \subseteq 0..day /\ \A i \in 1..Len(invoices) : z[i].rows \subseteq 0..day
    BY <1>2 DEF BillingIInv, PastUsage
  <2>2. \A i \in 1..Len(z) : i = Len(z) \/ i \in 1..Len(invoices)
    BY <1>2
  <2>3. \A i \in 1..Len(z) : z[i].rows \subseteq 0..day
    BY <1>2, <2>1, <2>2
  <2> QED
    BY <1>1, <2>3 DEF BillingIInv, PastUsage
<1>16. BillingTyped'
  BY <1>1, <1>2, <1>13, BillingTypes DEF BillingTyped, BillingTypeOK
<1> QED
  BY <1>5, <1>8, <1>12, <1>14, <1>15, <1>16 DEF BillingIInv

LEMMA IssuedIs ==
  ASSUME BillingIInv, NEW row, NEW from \in Int, NEW to \in Int, NEW renewal \in BOOLEAN, NEW v, v = Issued(row, from, to, renewal)
  PROVE  /\ v \in Invoice /\ v.trials = trials /\ v.rows \subseteq usage /\ v.renewal = renewal
         /\ v.from = from /\ v.to = to /\ (~renewal => v.rows = {})
         /\ \A u \in v.rows : from <= u /\ u < to
         /\ ~renewal /\ row.plan # "FREE" /\ ~FullCoupon => v.status = "OPEN"
<1>1. PICK rs : rs = IF renewal THEN {u \in usage : from <= u /\ u < to} ELSE {}
  OBVIOUS
<1>2. PICK free \in BOOLEAN : free <=> (row.plan = "FREE" /\ rs = {}) \/ (row.coupon /\ FullCoupon)
  OBVIOUS
<1>3. v = [from |-> from, to |-> to, status |-> IF free THEN "PAID" ELSE "OPEN",
           renewal |-> renewal, trials |-> trials, rows |-> rs]
  BY <1>1, <1>2 DEF Issued
<1>4. rs \subseteq usage /\ rs \in SUBSET Int /\ trials \in Nat
  BY <1>1, BillingTypes
<1> QED
  BY <1>1, <1>2, <1>3, <1>4 DEF Invoice

LEMMA ChangeBillKeeps == ASSUME BillingIInv, NEW t \in Tasks, ChangeBill(t) PROVE BillingIInv'
<1>1. PICK row, v : row = work[t].row /\ v = Issued(row, day, day + Month, FALSE)
  OBVIOUS
<1>2. /\ work[t].op = "bill" /\ invoices' = Append(invoices, v)
      /\ work' = [work EXCEPT ![t] = [op |-> "overdue", row |-> row]]
      /\ UNCHANGED <<calm, day, sub, usage, redemptions, redeemed, trials>>
  BY <1>1 DEF ChangeBill, Issue, Goes
<1>3. Busy(t)
  BY <1>2 DEF Busy
<1>4. row \in Subscription /\ (calm => row.plan = "PAID" /\ BilledTo = sub.end)
  BY <1>1, <1>2, <1>3, LoadedBy DEF Loaded
<1>5. day \in Int /\ day + Month \in Int
  BY BillingTypes, BillingNumbers
<1>6. /\ v \in Invoice /\ v.trials = trials /\ v.rows \subseteq usage /\ ~v.renewal /\ v.rows = {}
      /\ row.plan # "FREE" /\ ~FullCoupon => v.status = "OPEN"
  <2>1. PICK from \in Int, to \in Int : from = day /\ to = day + Month
    BY <1>5
  <2>2. PICK no \in BOOLEAN : no = FALSE
    OBVIOUS
  <2>3. v = Issued(row, from, to, no)
    BY <1>1, <2>1, <2>2
  <2>4. no \in BOOLEAN /\ ~no
    BY <2>2
  <2>5. /\ v \in Invoice /\ v.trials = trials /\ v.rows \subseteq usage /\ v.renewal = no
        /\ (~no => v.rows = {}) /\ (~no /\ row.plan # "FREE" /\ ~FullCoupon => v.status = "OPEN")
    BY <2>3, IssuedIs
  <2> QED
    BY <2>4, <2>5
<1>7. PICK w : w = [op |-> "overdue", row |-> row]
  OBVIOUS
<1>8. w \in Task /\ w.op = "overdue"
  BY <1>4, <1>7 DEF Task
<1>9. work' = [work EXCEPT ![t] = w]
  BY <1>2, <1>7
<1>10. Len(invoices') > 0 /\ Last' = v
  BY <1>2, <1>6, BillingTypes, AppendProperties DEF Last
<1>11. calm => Loaded(w)'
  BY <1>4, <1>6, <1>8, <1>10 DEF Loaded
<1>12. calm => BilledTo <= sub.end
  BY <1>4, BillingTypes
<1>13. PICK to \in Int : to = sub.end
  BY BillingTypes
<1> QED
  BY <1>2, <1>3, <1>6, <1>8, <1>9, <1>11, <1>12, <1>13, IssueKeeps

LEMMA RenewBillKeeps == ASSUME BillingIInv, NEW t \in Tasks, RenewBill(t) PROVE BillingIInv'
<1>1. PICK row, v : row = work[t].row /\ v = Issued(row, row.end, row.end + Month, TRUE)
  OBVIOUS
<1>2. /\ work[t].op = "renew" /\ invoices' = Append(invoices, v)
      /\ work' = [work EXCEPT ![t] = [op |-> "renewed", row |-> row, paid |-> invoices'[Len(invoices')].status = "PAID"]]
      /\ UNCHANGED <<calm, day, sub, usage, redemptions, redeemed, trials>>
  BY <1>1 DEF RenewBill, Issue
<1>3. Busy(t)
  BY <1>2 DEF Busy
<1>4. row \in Subscription /\ (calm => row = sub /\ BilledTo = sub.end)
  BY <1>1, <1>2, <1>3, LoadedBy DEF Loaded
<1>5. row.end \in Int /\ row.end + Month \in Int
  BY <1>4, BillingNumbers DEF Subscription
<1>6. /\ v \in Invoice /\ v.trials = trials /\ v.rows \subseteq usage /\ v.renewal
      /\ v.from = row.end /\ v.to = row.end + Month /\ (\A u \in v.rows : v.from <= u /\ u < v.to)
  <2>1. PICK from \in Int, to \in Int : from = row.end /\ to = row.end + Month
    BY <1>5
  <2>2. PICK yes \in BOOLEAN : yes = TRUE
    OBVIOUS
  <2>3. v = Issued(row, from, to, yes)
    BY <1>1, <2>1, <2>2
  <2>4. /\ v \in Invoice /\ v.trials = trials /\ v.rows \subseteq usage /\ v.renewal = yes
        /\ v.from = from /\ v.to = to /\ \A u \in v.rows : from <= u /\ u < to
    BY <2>3, IssuedIs
  <2>5. v.renewal
    BY <2>2, <2>4
  <2> QED
    BY <2>1, <2>4, <2>5
<1>7. Len(invoices') > 0 /\ invoices'[Len(invoices')] = v
  BY <1>2, <1>6, BillingTypes, AppendProperties
<1>8. PICK paid \in BOOLEAN : paid <=> v.status = "PAID"
  OBVIOUS
<1>9. PICK w : w = [op |-> "renewed", row |-> row, paid |-> paid]
  OBVIOUS
<1>10. w \in Task /\ w.op = "renewed" /\ w.row = row /\ w.paid = paid
  BY <1>4, <1>9 DEF Task
<1>11. work' = [work EXCEPT ![t] = w]
  <2>1. (invoices'[Len(invoices')].status = "PAID") = paid
    BY <1>7, <1>8
  <2> QED
    BY <1>2, <1>9, <2>1
<1>12. calm => Loaded(w)'
  <2>1. v.status \in {"OPEN", "PAID"}
    BY <1>6 DEF Invoice
  <2> QED
    BY <1>2, <1>4, <1>7, <1>8, <1>10, <2>1 DEF Loaded, Last
<1>13. PICK to \in Int : to = sub.end + Month
  BY BillingTypes, BillingNumbers
<1>14. calm => BilledTo <= to /\ BilledTo <= v.from /\ v.to = to
  BY <1>4, <1>6, <1>13, BillingTypes, BillingNumbers
<1> QED
  BY <1>2, <1>3, <1>6, <1>10, <1>11, <1>12, <1>13, <1>14, IssueKeeps

-----------------------------------------------------------------------------
(* Billing: the theorems.                                                    *)

LEMMA BillingStart == ASSUME BillingInit PROVE BillingIInv
<1>1. /\ calm \in BOOLEAN /\ day = 0 /\ invoices = <<>> /\ usage = {} /\ redemptions = 0 /\ redeemed = 0 /\ trials = 0
      /\ sub = [plan |-> "FREE", status |-> "ACTIVE", end |-> Month, cancel |-> FALSE, coupon |-> FALSE]
      /\ work = [t \in Tasks |-> Resting]
  BY DEF BillingInit
<1>2. sub \in Subscription /\ sub.status = "ACTIVE" /\ Resting \in Task /\ Resting.op = "rest"
  BY <1>1, BillingNumbers DEF Subscription, Plans, Statuses, Task, Resting
<1>3. BillingTyped
  BY <1>1, <1>2, BillingNumbers DEF BillingTyped, BillingTypeOK
<1>4. PaymentsThere /\ OneWorks /\ AllLoaded
  BY <1>1, <1>2 DEF PaymentsThere, PaysThere, OneWorks, Busy, AllLoaded, Loaded
<1>5. PastUsage /\ AllWithin
  BY <1>1 DEF PastUsage, AllWithin
<1>6. InOrder
  BY <1>1, <1>2, BillingNumbers DEF InOrder, RenewedOnce, PastDueOwes
<1> QED
  BY <1>3, <1>4, <1>5, <1>6 DEF BillingIInv

LEMMA BillingStep == ASSUME BillingIInv, [BillingNext]_billingVars PROVE BillingIInv'
<1>1. CASE UNCHANGED billingVars
  BY <1>1 DEF billingVars, BillingIInv, BillingTyped, BillingTypeOK, PaymentsThere, PaysThere, PastUsage, OneWorks, Busy,
              AllLoaded, Loaded, Last, AllWithin, Within, BilledTo, InOrder, RenewedOnce, PastDueOwes
<1>2. CASE NextDay \/ RecordUsage
  BY <1>2, NextDayKeeps, RecordUsageKeeps
<1>3. CASE \E t \in Tasks : LoadRow(t) \/ StartTrial(t) \/ Cancel(t)
  BY <1>3, LoadRowKeeps, StartTrialKeeps, CancelKeeps
<1>4. CASE \E t \in Tasks : \E plan \in Plans, coupon \in BOOLEAN : ChangeLoad(t, plan, coupon)
  BY <1>4, ChangeLoadKeeps
<1>5. CASE \E t \in Tasks : ChangeRedeem(t) \/ ChangeSave(t) \/ ChangeBill(t) \/ ChangeOverdue(t)
  BY <1>5, ChangeRedeemKeeps, ChangeSaveKeeps, ChangeBillKeeps, ChangeOverdueKeeps
<1>6. CASE \E t \in Tasks : RenewLoad(t) \/ EndSubscription(t) \/ RenewBill(t) \/ RenewSave(t)
  BY <1>6, RenewLoadKeeps, EndSubscriptionKeeps, RenewBillKeeps, RenewSaveKeeps
<1>7. CASE \E t \in Tasks : \E i \in 1..MaxInvoices : PayLoad(t, i)
  BY <1>7, PayLoadKeeps
<1>8. CASE \E t \in Tasks : PayCommit(t) \/ Dies(t)
  BY <1>8, PayCommitKeeps, DiesKeeps
<1> QED
  BY <1>1, <1>2, <1>3, <1>4, <1>5, <1>6, <1>7, <1>8 DEF BillingNext

LEMMA BillingFollow == ASSUME BillingIInv PROVE BillingTypeOK /\ BilledOnce
<1>1. ASSUME calm PROVE PaidTimeIsKept
  <2>1. SUFFICES ASSUME \A t \in Tasks : work[t].op # "renewed", NEW i \in 1..Len(invoices),
                        invoices[i].trials = trials, invoices[i].renewal
                 PROVE  sub.end >= invoices[i].to
    BY DEF PaidTimeIsKept
  <2>2. BilledTo = sub.end
    BY <2>1 DEF BilledTo
  <2>3. invoices[i].to <= sub.end
    BY <1>1, <2>1, <2>2 DEF BillingIInv, AllWithin, Within
  <2> QED
    BY <2>3, InvoiceIs, BillingTypes
<1> QED
  BY <1>1 DEF BillingIInv, BillingTyped, InOrder, BilledOnce

(* The invariant holds in every state. *)
THEOREM BillingInvariant == BillingSpec => []BillingIInv
<1>1. BillingInit => BillingIInv
  BY BillingStart
<1>2. BillingIInv /\ [BillingNext]_billingVars => BillingIInv'
  BY BillingStep
<1> QED
  BY <1>1, <1>2, PTL DEF BillingSpec

(* Types of the subscription, its invoices and its counters. *)
THEOREM BillingTypeCorrect == BillingSpec => []BillingTypeOK
<1>1. BillingIInv => BillingTypeOK
  BY BillingFollow
<1> QED
  BY <1>1, BillingInvariant, PTL

(* generate_invoice, renew_due_subscriptions, change_plan, mark_invoice_paid:*)
(* while they wait for each other no usage and no time is billed twice       *)
(* between two trials, what was paid for is kept, who is past due has        *)
(* something to pay, and a coupon is used as often as it may be.             *)
THEOREM BillingCalm == BillingSpec => []BilledOnce
<1>1. BillingIInv => BilledOnce
  BY BillingFollow
<1> QED
  BY <1>1, BillingInvariant, PTL
=============================================================================
