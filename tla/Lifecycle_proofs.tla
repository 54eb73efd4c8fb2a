--------------------------- MODULE Lifecycle_proofs ---------------------------
(***************************************************************************)
(* What TLAPS proves about an election before and while it is voted in,    *)
(* for every number of officials, handlers, positions and candidates.      *)
(*                                                                         *)
(* Lifecycle: every window and any number of edits.  Whole rows are        *)
(* loaded, kept and saved later, so an invariant of the election row must  *)
(* hold of every row a handler keeps as well: it is stated of rows. With   *)
(* handlers that run one at a time, what a handler found is still so when  *)
(* it saves.                                                               *)
(*                                                                         *)
(* Nominations: the ballot paper. What a handler judged is still so when   *)
(* it saves, if handlers wait for each other: then an institutional        *)
(* election is a draft, or what is saved is no part of its ballot.         *)
(***************************************************************************)
EXTENDS Lifecycle, Nominations, TLAPS

(* The types alone: the window may be inverted when saves overlap. *)
ReqRow == [op : {"idle", "reset", "save", "extend", "open", "close"},
           scope : Scopes, at : 0..MaxTime, row : Row]

Typed ==
    /\ event \in Row
    /\ ballot \in 0..MaxEdits /\ edits \in 0..MaxEdits
    /\ key \in BOOLEAN
    /\ signed \in [settings : 0..MaxEdits, ballot : 0..MaxEdits]
    /\ asked \subseteq Approvals
    /\ now \in 0..MaxTime
    /\ req \in [Requests -> ReqRow]

(* A secret-ballot election that is scheduled, or may be opened from where   *)
(* it stands, needs a key. *)
NeedsKey(row) == Institutional(row) /\ row.status \in {"SCHEDULED", "CLOSED"} \cup Live

(* A second person reviewed what this row says was approved. *)
Reviewed(row) ==
    DualApproval /\ row.status \in Approved
        => row.reviewedBy # Nobody /\ row.reviewedBy # row.submittedBy

Keyed == /\ NeedsKey(event) => key
         /\ \A r \in Requests : NeedsKey(req[r].row) => key

AllReviewed == /\ Reviewed(event)
               /\ \A r \in Requests : Reviewed(req[r].row)

-----------------------------------------------------------------------------
LEMMA NewTyped == \A mode \in {"institutional", "paid"} : NewEvent(mode) \in Row
  BY LifecycleAssumption DEF LifecycleAssumption, Row, NewEvent, Statuses

LEMMA IdleTyped == Idle \in ReqRow
  BY NewTyped, LifecycleAssumption DEF LifecycleAssumption, ReqRow, Idle, Scopes

LEMMA InitTyped == Init => Typed
<1> SUFFICES ASSUME Init PROVE Typed
  OBVIOUS
<1>1. event \in Row
  BY NewTyped, LifecycleAssumption DEF LifecycleAssumption, Init
<1>2. req \in [Requests -> ReqRow]
  BY IdleTyped DEF Init
<1>3. 0 \in 0..MaxEdits /\ 0 \in 0..MaxTime
  BY LifecycleAssumption DEF LifecycleAssumption
<1> QED
  BY <1>1, <1>2, <1>3 DEF Init, Typed

LEMMA OpenedTyped ==
  ASSUME event \in Row, now \in 0..MaxTime
  PROVE  Opened(Becoming("OPEN")) \in Row
<1>1. Becoming("OPEN") \in Row
  BY DEF Becoming, Row, Statuses, Live
<1>2. Earlier(Becoming("OPEN").start, now) \in 0..MaxTime
  BY <1>1 DEF Earlier, Row
<1> QED
  BY <1>1, <1>2 DEF Opened, Row

(* Where the officials' transitions lead. *)
LEMMA ConsoleTyped ==
  ASSUME Typed, NEW o \in Officials, Console(o)
  PROVE  Typed'
<1> USE LifecycleAssumption DEF LifecycleAssumption, Typed, RowOnly, From, Becoming, Row, Statuses, Live, Final
<1>1. CASE Submit(o)
  BY <1>1 DEF Submit
<1>2. CASE Withdraw
  BY <1>2 DEF Withdraw
<1>3. CASE Approve(o)
  BY <1>3 DEF Approve
<1>4. CASE Reject
  BY <1>4 DEF Reject
<1>5. CASE Schedule
  BY <1>5 DEF Schedule, KeyAtSchedule, Institutional
<1>6. CASE Unschedule
  BY <1>6 DEF Unschedule
<1>7. CASE OpenNow
  BY <1>7 DEF OpenNow, Open, Opened, Earlier, Institutional, Scopes
<1>8. CASE Pause
  BY <1>8 DEF Pause
<1>9. CASE Resume
  BY <1>9 DEF Resume
<1>10. CASE CloseNow
  BY <1>10 DEF CloseNow, Close, Closed, Earlier
<1>11. CASE StartTally
  BY <1>11 DEF StartTally
<1>12. CASE Publish
  BY <1>12 DEF Publish
<1>13. CASE Archive
  BY <1>13 DEF Archive
<1>14. CASE ReopenFromConsole
  BY ZenonT(60), <1>14 DEF ReopenFromConsole, Reopened, Opened, Earlier, Institutional, Scopes
<1>15. CASE Decertify
  BY <1>15 DEF Decertify
<1> QED
  BY <1>1, <1>2, <1>3, <1>4, <1>5, <1>6, <1>7, <1>8, <1>9, <1>10, <1>11, <1>12, <1>13,
     <1>14, <1>15 DEF Console

(* Edits and freezes, the actions that were approved, the scheduler. *)
LEMMA ContinuesTyped ==
  ASSUME Typed, NEW r \in Requests, Continues(r)
  PROVE  Typed'
<1> USE LifecycleAssumption, IdleTyped DEF LifecycleAssumption, Typed, End
<1>0. /\ req[r] \in ReqRow
      /\ req[r].row \in Row
  BY DEF ReqRow
<1>1. CASE EditReset(r)
  <2>1. event' \in Row
    BY <1>1 DEF EditReset, Becoming, Row, Statuses
  <2>2. req' \in [Requests -> ReqRow]
    BY <1>0, <1>1 DEF EditReset, ReqRow
  <2> QED
    BY <1>1, <2>1, <2>2 DEF EditReset
<1>2. CASE EditSave(r)
  <2>1. edits + 1 \in 0..MaxEdits
    BY <1>2 DEF EditSave
  <2>2. event' \in Row
    BY <1>0, <1>2, <2>1 DEF EditSave, Row
  <2> QED
    BY <1>2, <2>1, <2>2 DEF EditSave
<1>3. CASE ExecExtendSave(r)
  <2>1. event' \in Row
    BY <1>3 DEF ExecExtendSave, Row
  <2> QED
    BY <1>3, <2>1 DEF ExecExtendSave
<1>4. CASE TickOpen(r)
  <2>1. event' \in Row
    BY <1>4, OpenedTyped DEF TickOpen, Open
  <2>2. req' \in [Requests -> ReqRow]
    BY <1>0, <1>4 DEF TickOpen, ReqRow
  <2> QED
    BY <1>4, <2>1, <2>2 DEF TickOpen, Open
<1>5. CASE TickClose(r)
  <2>1. event' \in Row
    BY <1>5 DEF TickClose, Close, Closed, Becoming, Earlier, Row, Statuses, Final
  <2> QED
    BY <1>5, <2>1 DEF TickClose, Close
<1>6. CASE Abandon(r)
  BY <1>6 DEF Abandon
<1> QED
  BY <1>1, <1>2, <1>3, <1>4, <1>5, <1>6 DEF Continues

LEMMA StartsTyped ==
  ASSUME Typed, NEW r \in Requests, Starts(r)
  PROVE  Typed'
<1> USE LifecycleAssumption, IdleTyped DEF LifecycleAssumption, Typed
<1>1. CASE \E scope \in {"config", "ballot"} : EditStart(r, scope)
  <2> PICK scope \in {"config", "ballot"} : EditStart(r, scope)
    BY <1>1
  <2>1. Becoming("DRAFT") \in Row
    BY DEF Becoming, Row, Statuses
  <2>2. req' \in [Requests -> ReqRow]
    BY <2>1 DEF EditStart, ReqRow, Scopes
  <2> QED
    BY <2>2 DEF EditStart
<1>2. CASE ExecExtendCheck(r)
  <2>1. req' \in [Requests -> ReqRow]
    BY <1>2 DEF ExecExtendCheck, ReqRow
  <2> QED
    BY <1>2, <2>1 DEF ExecExtendCheck, Executes
<1>3. CASE TickRead(r)
  <2>1. req' \in [Requests -> ReqRow]
    BY <1>3 DEF TickRead, ReqRow, Scopes
  <2> QED
    BY <1>3, <2>1 DEF TickRead
<1> QED
  BY <1>1, <1>2, <1>3 DEF Starts

LEMMA OfficialdomTyped ==
  ASSUME Typed, Officialdom
  PROVE  Typed'
<1> USE LifecycleAssumption DEF LifecycleAssumption, Typed, RowOnly, Executes
<1>1. CASE \E o \in Officials : Console(o)
  BY <1>1, ConsoleTyped
<1>2. CASE \E scope \in FreezeScopes : Freeze(scope)
  BY <1>2 DEF Freeze, Row
<1>3. CASE \E action \in Askable : Request(action)
  BY <1>3 DEF Request
<1>4. CASE ExecUnfreeze
  BY <1>4 DEF ExecUnfreeze, Row
<1>5. CASE ExecReopen
  <2>1. event' \in Row
    BY ZenonT(60), <1>5 DEF ExecReopen, Reopened, Opened, Becoming, Earlier, Institutional, Row, Statuses, Live, Scopes
  <2> QED
    BY <1>5, <2>1 DEF ExecReopen
<1>6. CASE ExecDecertify
  BY <1>6 DEF ExecDecertify, From, Becoming, Row, Statuses, Final
<1>7. CASE Certify
  BY <1>7 DEF Certify, From, Becoming, Row, Statuses, Final
<1> QED
  BY <1>1, <1>2, <1>3, <1>4, <1>5, <1>6, <1>7 DEF Officialdom

LEMMA StepTyped == Typed /\ [Next]_vars => Typed'
<1> SUFFICES ASSUME Typed, [Next]_vars PROVE Typed'
  OBVIOUS
<1>1. CASE \E r \in Requests : Continues(r)
  BY <1>1, ContinuesTyped
<1>2. CASE \E r \in Requests : Starts(r)
  BY <1>2, StartsTyped
<1>3. CASE Officialdom
  BY <1>3, OfficialdomTyped
<1>4. CASE ClockTick
  BY <1>4, LifecycleAssumption DEF LifecycleAssumption, ClockTick, Typed
<1>5. CASE UNCHANGED vars
  BY <1>5 DEF vars, Typed
<1> QED
  BY <1>1, <1>2, <1>3, <1>4, <1>5 DEF Next

-----------------------------------------------------------------------------
(* The keys of elections that need one are never thrown away, and no row     *)
(* that needs one is made, or loaded, before it exists. *)
LEMMA StepKeyed ==
  ASSUME Typed, Keyed, [Next]_vars
  PROVE  Keyed'
<1> USE DEF Typed, Keyed, NeedsKey, Institutional, Live
<1>0. NewEvent("paid").mode = "paid" /\ Idle.row.mode = "paid"
  BY DEF NewEvent, Idle
<1>1. ASSUME NEW o \in Officials, Console(o) PROVE Keyed'
  <2> USE DEF RowOnly, From, Becoming, Row
  <2>1. CASE Submit(o) \/ Withdraw \/ Approve(o) \/ Reject
    BY <2>1 DEF Submit, Withdraw, Approve, Reject
  <2>2. CASE Schedule \/ Unschedule
    BY <2>2 DEF Schedule, Unschedule, KeyAtSchedule
  <2>3. CASE OpenNow
    BY <2>3 DEF OpenNow, Open, Opened
  <2>4. CASE Pause \/ Resume \/ CloseNow
    BY <2>4 DEF Pause, Resume, CloseNow, Close, Closed
  <2>5. CASE StartTally \/ Publish \/ Archive \/ Decertify
    BY <2>5 DEF StartTally, Publish, Archive, Decertify
  <2>6. CASE ReopenFromConsole
    BY <2>6 DEF ReopenFromConsole, Reopened, Opened
  <2> QED
    BY <1>1, <2>1, <2>2, <2>3, <2>4, <2>5, <2>6 DEF Console
<1>2. ASSUME NEW r \in Requests, Continues(r) PROVE Keyed'
  <2>0. req[r].row \in Row
    BY DEF ReqRow
  <2> USE DEF End, From, Becoming, Row, ReqRow
  <2>1. CASE EditReset(r)
    BY <1>2, <2>1 DEF EditReset
  <2>2. CASE EditSave(r)
    BY <1>0, <2>0, <2>2 DEF EditSave
  <2>3. CASE ExecExtendSave(r)
    BY <1>0, <2>3 DEF ExecExtendSave
  <2>4. CASE TickOpen(r)
    BY ZenonT(60), <1>0, <2>4 DEF TickOpen, Open, Opened
  <2>5. CASE TickClose(r)
    BY <1>0, <2>5 DEF TickClose, Close, Closed
  <2>6. CASE Abandon(r)
    BY <1>0, <2>6 DEF Abandon
  <2> QED
    BY <1>2, <2>1, <2>2, <2>3, <2>4, <2>5, <2>6 DEF Continues
<1>3. ASSUME NEW r \in Requests, Starts(r) PROVE Keyed'
  <2> USE DEF Becoming, Row
  <2>1. ASSUME NEW scope \in {"config", "ballot"}, EditStart(r, scope) PROVE Keyed'
    BY <2>1 DEF EditStart
  <2>2. CASE ExecExtendCheck(r)
    BY <1>0, <2>2 DEF ExecExtendCheck
  <2>3. CASE TickRead(r)
    BY <2>3 DEF TickRead
  <2> QED
    BY <1>3, <2>1, <2>2, <2>3 DEF Starts
<1>4. ASSUME Officialdom PROVE Keyed'
  <2> USE DEF RowOnly, From, Becoming, Row
  <2>1. CASE \E scope \in FreezeScopes : Freeze(scope)
    BY <2>1 DEF Freeze
  <2>2. CASE \E action \in Askable : Request(action)
    BY <2>2 DEF Request
  <2>3. CASE ExecUnfreeze
    BY <2>3 DEF ExecUnfreeze
  <2>4. CASE ExecReopen
    BY <2>4 DEF ExecReopen, Reopened, Opened
  <2>5. CASE ExecDecertify \/ Certify
    BY <2>5 DEF ExecDecertify, Certify
  <2> QED
    BY <1>1, <1>4, <2>1, <2>2, <2>3, <2>4, <2>5 DEF Officialdom
<1>5. CASE ClockTick \/ UNCHANGED vars
  BY <1>5 DEF ClockTick, vars
<1> QED
  BY <1>2, <1>3, <1>4, <1>5 DEF Next

(* Only an approval makes a row that counts as approved, and the approver is *)
(* a second person; every row loaded or saved later says so still. *)
LEMMA StepReviewed ==
  ASSUME Typed, AllReviewed, [Next]_vars
  PROVE  AllReviewed'
<1> USE DEF Typed, AllReviewed, Reviewed, Approved, Live
<1>0. Reviewed(Idle.row)
  BY DEF NewEvent, Idle
<1>1. ASSUME NEW o \in Officials, Console(o) PROVE AllReviewed'
  <2> USE DEF RowOnly, From, Becoming, Row
  <2>1. CASE Submit(o) \/ Withdraw \/ Reject
    BY ZenonT(60), <2>1 DEF Submit, Withdraw, Reject
  <2>2. CASE Approve(o)
    BY <2>2, LifecycleAssumption DEF Approve, MayApprove, LifecycleAssumption
  <2>3. CASE Schedule \/ Unschedule
    BY <2>3 DEF Schedule, Unschedule
  <2>4. CASE OpenNow
    BY <2>4 DEF OpenNow, Open, Opened
  <2>5. CASE Pause \/ Resume \/ CloseNow
    BY <2>5 DEF Pause, Resume, CloseNow, Close, Closed
  <2>6. CASE StartTally \/ Publish \/ Archive \/ Decertify
    BY <2>6 DEF StartTally, Publish, Archive, Decertify
  <2>7. CASE ReopenFromConsole
    BY <2>7 DEF ReopenFromConsole, Reopened, Opened
  <2> QED
    BY <1>1, <2>1, <2>2, <2>3, <2>4, <2>5, <2>6, <2>7 DEF Console
<1>2. ASSUME NEW r \in Requests, Continues(r) PROVE AllReviewed'
  <2>0. req[r].row \in Row
    BY DEF ReqRow
  <2> USE DEF End, From, Becoming, Row, ReqRow
  <2>1. CASE EditReset(r)
    BY <1>2, <2>1 DEF EditReset
  <2>2. CASE EditSave(r)
    BY <1>0, <2>0, <2>2 DEF EditSave
  <2>3. CASE ExecExtendSave(r)
    BY <1>0, <2>3 DEF ExecExtendSave
  <2>4. CASE TickOpen(r)
    <3>1. event'.status \in Statuses /\ event'.reviewedBy = event.reviewedBy /\ event'.submittedBy = event.submittedBy
      BY <2>4 DEF TickOpen, Open, Opened, Statuses
    <3>2. event.status = "SCHEDULED"
      BY <2>4 DEF TickOpen, Open
    <3>3. Reviewed(event')
      BY <3>1, <3>2
    <3>4. req' = [req EXCEPT ![r] = IF req[r].at >= event.end THEN [req[r] EXCEPT !.op = "close"] ELSE Idle]
      BY <2>4 DEF TickOpen
    <3>5. [req[r] EXCEPT !.op = "close"].row = req[r].row
      OBVIOUS
    <3> QED
      BY <1>0, <3>3, <3>4, <3>5
  <2>5. CASE TickClose(r)
    BY <1>0, <2>5 DEF TickClose, Close, Closed
  <2>6. CASE Abandon(r)
    BY <1>0, <2>6 DEF Abandon
  <2> QED
    BY <1>2, <2>1, <2>2, <2>3, <2>4, <2>5, <2>6 DEF Continues
<1>3. ASSUME NEW r \in Requests, Starts(r) PROVE AllReviewed'
  <2> USE DEF Becoming, Row
  <2>1. ASSUME NEW scope \in {"config", "ballot"}, EditStart(r, scope) PROVE AllReviewed'
    BY <2>1 DEF EditStart
  <2>2. CASE ExecExtendCheck(r)
    BY <1>0, <2>2 DEF ExecExtendCheck
  <2>3. CASE TickRead(r)
    BY <2>3 DEF TickRead
  <2> QED
    BY <1>3, <2>1, <2>2, <2>3 DEF Starts
<1>4. ASSUME Officialdom PROVE AllReviewed'
  <2> USE DEF RowOnly, From, Becoming, Row
  <2>1. CASE \E scope \in FreezeScopes : Freeze(scope)
    BY <2>1 DEF Freeze
  <2>2. CASE \E action \in Askable : Request(action)
    BY <2>2 DEF Request
  <2>3. CASE ExecUnfreeze
    BY <2>3 DEF ExecUnfreeze
  <2>4. CASE ExecReopen
    BY <2>4 DEF ExecReopen, Reopened, Opened
  <2>5. CASE ExecDecertify \/ Certify
    BY <2>5 DEF ExecDecertify, Certify
  <2> QED
    BY <1>1, <1>4, <2>1, <2>2, <2>3, <2>4, <2>5 DEF Officialdom
<1>5. CASE ClockTick \/ UNCHANGED vars
  BY <1>5 DEF ClockTick, vars
<1> QED
  BY <1>2, <1>3, <1>4, <1>5 DEF Next

-----------------------------------------------------------------------------
(* Handlers one at a time: only one is under way, and what it is about to    *)
(* write was judged on the row as it still is. *)
Alone == \A r, s \in Requests : req[r] # Idle /\ req[s] # Idle => r = s

JudgedStill == \A r \in Requests :
    /\ req[r].op = "reset" =>
          /\ req[r].scope \in {"config", "ballot"}
          /\ event.status \in {"APPROVED", "SCHEDULED"} /\ req[r].row.status = "DRAFT"
    /\ req[r].op = "save" =>
          /\ req[r].scope \in {"config", "ballot"}
          /\ req[r].scope = "config" => event.status = "DRAFT" /\ req[r].row.status = "DRAFT"
          /\ req[r].scope = "ballot" /\ Institutional(event) => event.status = "DRAFT"

(* A handler that goes on was the only one. *)
LEMMA ContinuesSerial ==
  ASSUME Typed, Alone, JudgedStill, NEW r \in Requests, Continues(r)
  PROVE  Alone' /\ JudgedStill'
<1>0. /\ Idle.op = "idle"
      /\ req[r] \in ReqRow /\ req[r].row \in Row /\ event \in Row
  BY DEF Idle, Typed, ReqRow
<1>1. req[r] # Idle
  BY <1>0 DEF Continues, EditReset, EditSave, ExecExtendSave, TickOpen, TickClose, Abandon
<1>2. \A s \in Requests : s # r => req[s] = Idle
  BY <1>1 DEF Alone
<1>3. \A s \in Requests : s # r => req'[s] = Idle
  BY <1>2 DEF Typed, Continues, EditReset, EditSave, ExecExtendSave, TickOpen, TickClose, Abandon, End
<1>4. Alone'
  BY <1>3 DEF Alone
<1>5. SUFFICES JudgedStill'
  BY <1>4
<1>6. CASE EditReset(r)
  <2>1. req'[r] = [req[r] EXCEPT !.op = "save"]
    BY <1>6 DEF EditReset, Typed
  <2>2. event'.status = "DRAFT"
    BY <1>0, <1>6 DEF EditReset, Becoming, Row
  <2>3. req'[r].op = "save" /\ req'[r].scope = req[r].scope /\ req'[r].row = req[r].row
    BY <1>0, <2>1 DEF ReqRow
  <2> QED
    BY <1>0, <1>3, <1>6, <2>2, <2>3 DEF EditReset, JudgedStill
<1>7. CASE ~EditReset(r)
  <2>1. req'[r].op \in {"idle", "close"}
    BY <1>0, <1>7 DEF Typed, Continues, EditSave, ExecExtendSave, TickOpen, TickClose, Abandon, End, ReqRow
  <2> QED
    BY <1>0, <1>3, <2>1 DEF JudgedStill
<1> QED
  BY <1>6, <1>7

(* Whoever starts found the others idle. *)
LEMMA StartsSerial ==
  ASSUME Typed, \A s \in Requests : req[s] = Idle, NEW r \in Requests, Starts(r)
  PROVE  Alone' /\ JudgedStill'
<1>0. Idle.op = "idle" /\ event \in Row
  BY DEF Idle, Typed
<1>1. \A s \in Requests : s # r => req'[s] = Idle
  BY DEF Typed, Starts, EditStart, ExecExtendCheck, TickRead
<1>2. Alone'
  BY <1>1 DEF Alone
<1>3. SUFFICES JudgedStill'
  BY <1>2
<1>4. ASSUME NEW scope \in {"config", "ballot"}, EditStart(r, scope) PROVE JudgedStill'
  <2>1. event' = event
    BY <1>4 DEF EditStart
  <2>2. Becoming("DRAFT").status = "DRAFT"
    BY <1>0 DEF Becoming, Row
  <2>3. CASE Resets(event, scope)
    <3>1. req'[r] = [op |-> "reset", scope |-> scope, at |-> 0, row |-> Becoming("DRAFT")]
      BY <1>4, <2>3 DEF EditStart, Typed
    <3> QED
      BY <1>0, <1>1, <2>1, <2>2, <2>3, <3>1 DEF JudgedStill, Resets
  <2>4. CASE ~Resets(event, scope)
    <3>1. req'[r] = [op |-> "save", scope |-> scope, at |-> 0, row |-> event]
      BY <1>4, <2>4 DEF EditStart, Typed
    <3>2. /\ scope = "config" => event.status = "DRAFT"
          /\ scope = "ballot" /\ Institutional(event) => event.status = "DRAFT"
      BY <1>0, <1>4, <2>4 DEF EditStart, Editable, Resets, Row, Statuses, Live, Final
    <3> QED
      BY <1>0, <1>1, <2>1, <3>1, <3>2 DEF JudgedStill
  <2> QED
    BY <2>3, <2>4
<1>5. CASE ExecExtendCheck(r) \/ TickRead(r)
  <2>1. req'[r].op \in {"extend", "open", "close"}
    BY <1>5 DEF ExecExtendCheck, TickRead, Typed, Idle
  <2> QED
    BY <1>0, <1>1, <2>1 DEF JudgedStill
<1> QED
  BY <1>4, <1>5 DEF Starts

LEMMA StepSerial ==
  ASSUME OneAtATime, Typed, Alone, JudgedStill, [Next]_vars
  PROVE  Alone' /\ JudgedStill'
<1>0. Idle.op = "idle"
  BY DEF Idle
<1>1. CASE \E r \in Requests : Continues(r)
  BY <1>1, ContinuesSerial
<1>2. CASE Quiet /\ \E r \in Requests : Starts(r)
  BY <1>2, StartsSerial DEF Quiet
<1>3. CASE Quiet /\ Officialdom
  <2>1. \A s \in Requests : req[s] = Idle
    BY <1>3 DEF Quiet
  <2>2. req' = req
    BY <1>3 DEF Officialdom, Console, RowOnly, Freeze, Request, ExecUnfreeze, ExecReopen, ExecDecertify,
                Certify, Submit, Withdraw, Approve, Reject, Schedule, Unschedule, OpenNow, Pause, Resume,
                CloseNow, StartTally, Publish, Archive, ReopenFromConsole, Decertify
  <2> QED
    BY <1>0, <2>1, <2>2 DEF Alone, JudgedStill
<1>4. CASE ClockTick \/ UNCHANGED vars
  BY <1>4 DEF ClockTick, vars, Alone, JudgedStill, Institutional
<1> QED
  BY <1>1, <1>2, <1>3, <1>4 DEF Next

(* What one step leaves of an approved secret-ballot election. *)
LEMMA StepUnchanged ==
  ASSUME Typed, JudgedStill, ApprovedIsUnchanged, [Next]_vars
  PROVE  ApprovedIsUnchanged'
<1> USE DEF Typed, ApprovedIsUnchanged, Institutional, Approved, Live
<1>1. ASSUME NEW o \in Officials, Console(o) PROVE ApprovedIsUnchanged'
  <2> USE DEF RowOnly, From, Becoming, Row
  <2>1. CASE Submit(o) \/ Withdraw \/ Reject
    BY <2>1 DEF Submit, Withdraw, Reject
  <2>2. CASE Approve(o)
    <3>1. event'.settings = event.settings
      BY <2>2 DEF Approve
    <3> QED
      BY <2>2, <3>1 DEF Approve
  <2>3. CASE Schedule \/ Unschedule
    BY <2>3 DEF Schedule, Unschedule
  <2>4. CASE OpenNow
    BY <2>4 DEF OpenNow, Open, Opened
  <2>5. CASE Pause \/ Resume \/ CloseNow
    BY <2>5 DEF Pause, Resume, CloseNow, Close, Closed
  <2>6. CASE StartTally \/ Publish \/ Archive \/ Decertify
    BY <2>6 DEF StartTally, Publish, Archive, Decertify
  <2>7. CASE ReopenFromConsole
    BY <2>7 DEF ReopenFromConsole, Reopened, Opened
  <2> QED
    BY <1>1, <2>1, <2>2, <2>3, <2>4, <2>5, <2>6, <2>7 DEF Console
<1>2. ASSUME NEW r \in Requests, Continues(r) PROVE ApprovedIsUnchanged'
  <2> USE DEF From, Becoming, Row
  <2>1. CASE EditReset(r)
    BY <1>2, <2>1 DEF EditReset
  <2>2. CASE EditSave(r)
    <3>1. /\ req[r].scope \in {"config", "ballot"}
          /\ req[r].scope = "config" => req[r].row.status = "DRAFT"
          /\ req[r].scope = "ballot" /\ Institutional(event) => event.status = "DRAFT"
      BY <2>2 DEF EditSave, JudgedStill
    <3>2. CASE req[r].scope = "config"
      <4>1. req[r].row \in Row
        BY DEF ReqRow
      <4>2. event'.status = "DRAFT"
        BY <2>2, <3>1, <3>2, <4>1 DEF EditSave
      <4> QED
        BY <4>2
    <3>3. CASE req[r].scope = "ballot"
      BY <2>2, <3>1, <3>3 DEF EditSave
    <3> QED
      BY <3>1, <3>2, <3>3
  <2>3. CASE ExecExtendSave(r)
    BY <2>3 DEF ExecExtendSave
  <2>4. CASE TickOpen(r)
    BY <2>4 DEF TickOpen, Open, Opened
  <2>5. CASE TickClose(r)
    BY <2>5 DEF TickClose, Close, Closed
  <2>6. CASE Abandon(r)
    BY <2>6 DEF Abandon
  <2> QED
    BY <1>2, <2>1, <2>2, <2>3, <2>4, <2>5, <2>6 DEF Continues
<1>3. CASE \E r \in Requests : Starts(r)
  BY <1>3 DEF Starts, EditStart, ExecExtendCheck, TickRead
<1>4. CASE Officialdom
  <2> USE DEF RowOnly, From, Becoming, Row
  <2>1. CASE \E scope \in FreezeScopes : Freeze(scope)
    BY <2>1 DEF Freeze
  <2>2. CASE \E action \in Askable : Request(action)
    BY <2>2 DEF Request
  <2>3. CASE ExecUnfreeze
    BY <2>3 DEF ExecUnfreeze
  <2>4. CASE ExecReopen
    BY <2>4 DEF ExecReopen, Reopened, Opened
  <2>5. CASE ExecDecertify \/ Certify
    BY <2>5 DEF ExecDecertify, Certify
  <2> QED
    BY <1>1, <1>4, <2>1, <2>2, <2>3, <2>4, <2>5 DEF Officialdom
<1>5. CASE ClockTick \/ UNCHANGED vars
  BY <1>5 DEF ClockTick, vars
<1> QED
  BY <1>2, <1>3, <1>4, <1>5 DEF Next

(* No step of anybody returns it to preparation. *)
LEMMA StepNotBack ==
  ASSUME Typed, JudgedStill, Next, event.status \in Live \cup Final
  PROVE  event'.status \in Live \cup Final
<1> USE DEF Typed, Live, Final
<1>1. ASSUME NEW o \in Officials, Console(o) PROVE event'.status \in Live \cup Final
  <2> USE DEF RowOnly, From, Becoming, Row
  <2>1. CASE Submit(o) \/ Withdraw \/ Approve(o) \/ Reject \/ Schedule \/ Unschedule
    BY <2>1 DEF Submit, Withdraw, Approve, Reject, Schedule, Unschedule
  <2>2. CASE OpenNow
    BY <2>2 DEF OpenNow, Open
  <2>3. CASE Pause \/ Resume \/ CloseNow
    BY <2>3 DEF Pause, Resume, CloseNow, Close, Closed
  <2>4. CASE StartTally \/ Publish \/ Archive \/ Decertify
    BY <2>4 DEF StartTally, Publish, Archive, Decertify
  <2>5. CASE ReopenFromConsole
    BY <2>5 DEF ReopenFromConsole, Reopened, Opened
  <2> QED
    BY <1>1, <2>1, <2>2, <2>3, <2>4, <2>5 DEF Console
<1>2. ASSUME NEW r \in Requests, Continues(r) PROVE event'.status \in Live \cup Final
  <2> USE DEF From, Becoming, Row
  <2>1. CASE EditReset(r)
    BY <2>1 DEF EditReset, JudgedStill
  <2>2. CASE EditSave(r)
    BY <2>2 DEF EditSave, JudgedStill
  <2>3. CASE ExecExtendSave(r)
    BY <2>3 DEF ExecExtendSave
  <2>4. CASE TickOpen(r)
    BY <2>4 DEF TickOpen, Open
  <2>5. CASE TickClose(r)
    BY <2>5 DEF TickClose, Close, Closed
  <2>6. CASE Abandon(r)
    BY <2>6 DEF Abandon
  <2> QED
    BY <1>2, <2>1, <2>2, <2>3, <2>4, <2>5, <2>6 DEF Continues
<1>3. CASE \E r \in Requests : Starts(r)
  BY <1>3 DEF Starts, EditStart, ExecExtendCheck, TickRead
<1>4. CASE Officialdom
  <2> USE DEF RowOnly, From, Becoming, Row
  <2>1. CASE \E scope \in FreezeScopes : Freeze(scope)
    BY <2>1 DEF Freeze
  <2>2. CASE \E action \in Askable : Request(action)
    BY <2>2 DEF Request
  <2>3. CASE ExecUnfreeze
    BY <2>3 DEF ExecUnfreeze
  <2>4. CASE ExecReopen
    BY <2>4 DEF ExecReopen, Reopened, Opened
  <2>5. CASE ExecDecertify \/ Certify
    BY <2>5 DEF ExecDecertify, Certify
  <2> QED
    BY <1>1, <1>4, <2>1, <2>2, <2>3, <2>4, <2>5 DEF Officialdom
<1>5. CASE ClockTick
  BY <1>5 DEF ClockTick
<1> QED
  BY <1>2, <1>3, <1>4, <1>5 DEF Next

-----------------------------------------------------------------------------
(* The theorems. *)

LEMMA InitKeyed == Init => Keyed /\ AllReviewed /\ Alone /\ JudgedStill /\ ApprovedIsUnchanged
<1> SUFFICES ASSUME Init PROVE Keyed /\ AllReviewed /\ Alone /\ JudgedStill /\ ApprovedIsUnchanged
  OBVIOUS
<1>1. /\ event.status = "DRAFT" /\ Idle.op = "idle" /\ Idle.row.status = "DRAFT"
      /\ \A r \in Requests : req[r] = Idle
  BY DEF Init, NewEvent, Idle
<1> QED
  BY <1>1 DEF Keyed, NeedsKey, AllReviewed, Reviewed, Alone, JudgedStill, ApprovedIsUnchanged, Approved, Live

(* Every variable has its type, whatever overlaps. *)
THEOREM TypeCorrect == Spec => []Typed
<1>1. Init => Typed
  BY InitTyped
<1>2. Typed /\ [Next]_vars => Typed'
  BY StepTyped
<1> QED
  BY <1>1, <1>2, PTL DEF Spec

(* _effect_schedule, tick: a secret-ballot election that accepts ballots has *)
(* its key, with any number of overlapping edits, transitions and ticks. *)
THEOREM KeyBeforeVoting == Spec => []LiveHasKey
<1>1. Init => Keyed
  BY InitKeyed
<1>2. Typed /\ Keyed /\ [Next]_vars => Keyed'
  BY StepKeyed
<1>3. Keyed => LiveHasKey
  BY DEF Keyed, NeedsKey, LiveHasKey
<1> QED
  BY <1>1, <1>2, <1>3, TypeCorrect, PTL DEF Spec

(* _guard_approve: what is scheduled, opened or counted was approved by a    *)
(* second person, whatever rows are saved over each other. *)
THEOREM SecondPerson == Spec => []FourEyes
<1>1. Init => AllReviewed
  BY InitKeyed
<1>2. Typed /\ AllReviewed /\ [Next]_vars => AllReviewed'
  BY StepReviewed
<1>3. AllReviewed => FourEyes
  BY DEF AllReviewed, Reviewed, FourEyes
<1> QED
  BY <1>1, <1>2, <1>3, TypeCorrect, PTL DEF Spec

(* Handlers one at a time judge what they change. *)
LEMMA SerialHandlers == ASSUME OneAtATime PROVE Spec => [](Alone /\ JudgedStill)
<1>1. Init => Alone /\ JudgedStill
  BY InitKeyed
<1>2. Typed /\ (Alone /\ JudgedStill) /\ [Next]_vars => (Alone /\ JudgedStill)'
  BY StepSerial
<1> QED
  BY <1>1, <1>2, TypeCorrect, PTL DEF Spec

(* edit_policy: if handlers run one at a time, what is put to the vote   *)
(* is what was approved and signed. *)
THEOREM SignedIsVotedOn == ASSUME OneAtATime PROVE Spec => []ApprovedIsUnchanged
<1>1. Init => ApprovedIsUnchanged
  BY InitKeyed
<1>2. Typed /\ (Alone /\ JudgedStill) /\ ApprovedIsUnchanged /\ [Next]_vars => ApprovedIsUnchanged'
  BY StepUnchanged
<1> QED
  BY <1>1, <1>2, TypeCorrect, SerialHandlers, PTL DEF Spec

(* ... and no edit returns an election to preparation once voting has begun. *)
THEOREM NeverBack == ASSUME OneAtATime PROVE Spec => NoWayBack
<1>1. Typed /\ (Alone /\ JudgedStill) /\ [Next]_vars
        => [event.status \in Live \cup Final => event'.status \in Live \cup Final]_vars
  BY StepNotBack
<1> QED
  BY <1>1, TypeCorrect, SerialHandlers, PTL DEF Spec, NoWayBack

-----------------------------------------------------------------------------
(* Nominations: the inductive invariant.                                     *)

ContestRow == [kind : Kinds, status : {"DRAFT", "REVIEW", "APPROVED", "SCHEDULED"} \cup LiveStates \cup LockedStates,
               frozen : SUBSET {"ballot", "candidates"}]
Some == UNION {[S -> CandidateRow] : S \in SUBSET Candidates}
Desk == {AtDesk} \cup [op : {"post"}, position : Positions, rules : Rules]
          \cup [op : {"remove"}, position : Positions]
          \cup [op : {"stand"}, rows : Some, decided : BOOLEAN]

NominationsTyped == NominationsTypeOK /\ contest \in ContestRow /\ office \in [Staff -> Desk]

(* What is being changed is no approved ballot, or is no part of it.         *)
InDraft == contest.kind = "institutional" => contest.status = "DRAFT"
KeepsPlace(c, row) == c \in Nominees /\ row.position = stand[c].position /\ row.status = stand[c].status

(* What a handler judged is still so when it saves. *)
StillJudged(t) ==
    /\ t.op = "post" => InDraft
    /\ t.op = "remove" => InDraft /\ Votes(t.position) = {}
    /\ t.op = "stand" => /\ InDraft \/ \A c \in DOMAIN t.rows : KeepsPlace(c, t.rows[c])
                         /\ ~t.decided => \A c \in DOMAIN t.rows \cap Nominees : t.rows[c].status = stand[c].status

AsSigned ==
    contest.kind = "institutional" =>
        /\ contest.status \in {"APPROVED", "SCHEDULED"} \cup LiveStates \cup LockedStates => Paper = signedPaper
        /\ contest.status \in {"SCHEDULED"} \cup LiveStates \cup LockedStates => Ready

InTurn ==
    /\ \A g, h \in Staff : office[g] # AtDesk /\ office[h] # AtDesk => g = h
    /\ \A h \in Staff : StillJudged(office[h])
    /\ AsSigned /\ RulingsStand /\ VotesStay

NominationsIInv == NominationsTyped /\ misled = {} /\ paid \subseteq Nominees /\ (oneByOne => InTurn)

-----------------------------------------------------------------------------
(* Nominations: the rows.                                                    *)

LEMMA NominationsTypes ==
  ASSUME NominationsIInv
  PROVE  /\ oneByOne \in BOOLEAN /\ posts \in [Positions -> Rules]
         /\ stand \in [Candidates -> CandidateRow \cup {NoRow}] /\ (\A c \in Nominees : stand[c] \in CandidateRow)
         /\ invited \subseteq Candidates \X People /\ ledger \subseteq Nominees /\ changes \in Nat
         /\ contest \in ContestRow /\ office \in [Staff -> Desk] /\ paid \subseteq Nominees
  BY DEF NominationsIInv, NominationsTyped, NominationsTypeOK, Nominees

LEMMA NoRowIsNone == \A row \in CandidateRow : row # NoRow
<1>1. NoRow.status \notin Standing
  BY DEF NoRow, Standing
<1> QED
  BY <1>1 DEF CandidateRow

LEMMA DeskIs ==
  /\ AtDesk \in Desk /\ AtDesk.op = "none"
  /\ \A t \in Desk : /\ t.op = "post" => t.position \in Positions /\ t.rules \in Rules
                     /\ t.op = "remove" => t.position \in Positions
                     /\ t.op = "stand" => t.rows \in Some /\ t.decided \in BOOLEAN
  BY DEF Desk, AtDesk

LEMMA SomeAre ==
  ASSUME NEW rows \in Some
  PROVE  DOMAIN rows \subseteq Candidates /\ \A c \in DOMAIN rows : rows[c] \in CandidateRow /\ rows[c] # NoRow
<1>1. PICK S \in SUBSET Candidates : rows \in [S -> CandidateRow]
  BY DEF Some
<1> QED
  BY <1>1, NoRowIsNone

(* Nothing on the ballot paper is another.                                   *)
SamePaper == /\ posts' = posts /\ contest'.kind = contest.kind
             /\ \A c \in Candidates : /\ stand'[c].position = stand[c].position /\ stand'[c].status = stand[c].status
                                      /\ stand'[c] = NoRow <=> stand[c] = NoRow

LEMMA PaperStays == ASSUME SamePaper PROVE Paper' = Paper /\ (Ready' <=> Ready)
<1>1. \A c \in Candidates : /\ Place(c)' = Place(c) /\ stand'[c].status = stand[c].status
                            /\ stand'[c] = NoRow <=> stand[c] = NoRow
  BY DEF SamePaper, Place
<1>2. Paper' = Paper
  BY <1>1 DEF SamePaper, Paper
<1>3. Nominees' = Nominees /\ There' = There
  BY <1>1 DEF SamePaper, Nominees, There
<1>4. \A c \in Nominees : c \in Candidates
  BY DEF Nominees
<1>5. ASSUME NEW p \in There PROVE Contested(p)' <=> Contested(p)
  <2>1. Active(p)' = Active(p)
    BY <1>1, <1>3, <1>4 DEF Active
  <2> QED
    BY <2>1 DEF Contested, SamePaper
<1>6. Ready' <=> Ready
  BY <1>1, <1>3, <1>4, <1>5 DEF Ready, SamePaper
<1> QED
  BY <1>2, <1>6

LEMMA SignedStays ==
  ASSUME NominationsIInv, oneByOne, SamePaper, signedPaper' = signedPaper,
         contest'.status = contest.status \/ contest'.status = "DRAFT"
  PROVE  AsSigned'
<1>1. AsSigned /\ Paper' = Paper /\ (Ready' <=> Ready) /\ contest'.kind = contest.kind
  BY PaperStays DEF NominationsIInv, InTurn, SamePaper
<1> QED
  BY <1>1 DEF AsSigned, LiveStates, LockedStates

(* What is left to show of a step after which nobody is at work.             *)
AllAtDesk == oneByOne => \A h \in Staff : office'[h] = AtDesk

LEMMA NominationsAll ==
  ASSUME NominationsIInv, UNCHANGED oneByOne, contest' \in ContestRow, posts' \in [Positions -> Rules],
         stand' \in [Candidates -> CandidateRow \cup {NoRow}], invited' \subseteq Candidates \X People,
         paid' \subseteq Nominees', ledger' \subseteq Nominees', misled' = {}, changes' \in Nat,
         office' \in [Staff -> Desk], AllAtDesk,
         oneByOne => AsSigned' /\ RulingsStand' /\ VotesStay'
  PROVE  NominationsIInv'
<1>1. NominationsTyped'
  BY NominationsTypes DEF NominationsTyped, NominationsTypeOK
<1>2. oneByOne' => InTurn'
  BY DeskIs DEF AllAtDesk, InTurn, StillJudged
<1> QED
  BY <1>1, <1>2 DEF NominationsIInv

LEMMA WaitsRest == ASSUME NominationsIInv, Waits, UNCHANGED office PROVE AllAtDesk /\ office' \in [Staff -> Desk]
  BY NominationsTypes DEF AllAtDesk, Waits

LEMMA FinishRests ==
  ASSUME NominationsIInv, NEW h \in Staff, office[h].op # "none", Finish(h)
  PROVE  AllAtDesk /\ office' \in [Staff -> Desk] /\ changes' \in Nat
<1>1. office' = [office EXCEPT ![h] = AtDesk] /\ changes' = changes + 1
  BY DEF Finish
<1>2. office[h] # AtDesk
  BY DeskIs
<1>3. oneByOne => \A g \in Staff : g # h => office[g] = AtDesk
  BY <1>2 DEF NominationsIInv, InTurn
<1> QED
  BY <1>1, <1>3, NominationsTypes, DeskIs DEF AllAtDesk

-----------------------------------------------------------------------------
(* Nominations: the election moves.                                          *)

LEMMA MovesKeep == ASSUME NominationsIInv, Moves PROVE NominationsIInv'
<1>1. Waits /\ Elsewhere
  BY DEF Moves
<1>2. contest \in ContestRow
  BY NominationsTypes
<1>3. contest' \in ContestRow /\ contest'.kind = contest.kind
  <2>1. CASE Submits \/ Returns \/ Approves \/ Schedules \/ Pauses \/ Tallies
    <3>1. PICK status \in {"DRAFT", "REVIEW", "APPROVED", "SCHEDULED"} \cup LiveStates \cup LockedStates : Becomes(status)
      BY <2>1 DEF Submits, Returns, Approves, Schedules, Pauses, Tallies, LiveStates, LockedStates
    <3> QED
      BY <1>2, <3>1 DEF Becomes, ContestRow
  <2>2. CASE Opens \/ Closes
    <3>1. PICK status, frozen : /\ status \in LiveStates \cup LockedStates /\ frozen \in SUBSET {"ballot", "candidates"}
                                /\ contest' = [contest EXCEPT !.status = status, !.frozen = frozen]
      <4>1. CASE Opens
        <5>1. PICK frozen : frozen = IF contest.kind = "paid" THEN contest.frozen ELSE {"ballot", "candidates"}
          OBVIOUS
        <5>2. frozen \in SUBSET {"ballot", "candidates"}
          BY <1>2, <5>1 DEF ContestRow
        <5>3. contest' = [contest EXCEPT !.status = "OPEN", !.frozen = frozen]
          BY <4>1, <5>1 DEF Opens
        <5> QED
          BY <5>2, <5>3 DEF LiveStates
      <4>2. CASE Closes
        BY <4>2 DEF Closes, LockedStates
      <4> QED
        BY <2>2, <4>1, <4>2
    <3> QED
      BY <1>2, <3>1 DEF ContestRow
  <2>3. CASE Freezing \/ Unfreezing
    <3>1. PICK frozen \in SUBSET {"ballot", "candidates"} : contest' = [contest EXCEPT !.frozen = frozen]
      <4>1. contest.frozen \cup {"candidates"} \in SUBSET {"ballot", "candidates"}
        BY <1>2 DEF ContestRow
      <4> QED
        BY <2>3, <4>1 DEF Freezing, Freezes, Unfreezing
    <3> QED
      BY <1>2, <3>1 DEF ContestRow
  <2> QED
    BY <2>1, <2>2, <2>3 DEF Moves
<1>4. SamePaper
  BY <1>1, <1>3 DEF Elsewhere, SamePaper
<1>5. Paper' = Paper /\ (Ready' <=> Ready)
  BY <1>4, PaperStays
<1>6. ASSUME oneByOne PROVE AsSigned'
  <2>1. AsSigned
    BY <1>6 DEF NominationsIInv, InTurn
  <2>2. CASE Submits \/ Returns \/ Approves \/ Schedules \/ Pauses \/ Tallies
    <3>1. CASE Submits \/ Returns
      <4>1. contest'.status \in {"REVIEW", "DRAFT"}
        BY <1>2, <3>1 DEF Submits, Returns, Becomes, ContestRow
      <4> QED
        BY <4>1 DEF AsSigned, LiveStates, LockedStates
    <3>2. CASE Approves
      <4>1. contest'.status = "APPROVED" /\ signedPaper' = Paper
        BY <1>2, <3>2 DEF Approves, Becomes, ContestRow
      <4> QED
        BY <1>5, <4>1 DEF AsSigned, LiveStates, LockedStates
    <3>3. CASE Schedules
      <4>1. contest'.status = "SCHEDULED" /\ contest.status = "APPROVED" /\ Ready /\ signedPaper' = signedPaper
        BY <1>2, <3>3 DEF Schedules, Becomes, ContestRow
      <4> QED
        BY <1>3, <1>5, <2>1, <4>1 DEF AsSigned, LiveStates, LockedStates
    <3>4. CASE Pauses \/ Tallies
      <4>1. contest.status \in LiveStates \cup LockedStates /\ signedPaper' = signedPaper
        BY <3>4 DEF Pauses, Tallies, LiveStates, LockedStates
      <4> QED
        BY <1>3, <1>5, <2>1, <4>1 DEF AsSigned
    <3> QED
      BY <2>2, <3>1, <3>2, <3>3, <3>4
  <2>3. CASE Opens \/ Closes
    <3>1. contest.status \in {"SCHEDULED"} \cup LiveStates /\ signedPaper' = signedPaper
      BY <2>3 DEF Opens, Closes, LiveStates
    <3> QED
      BY <1>3, <1>5, <2>1, <3>1 DEF AsSigned
  <2>4. CASE Freezing \/ Unfreezing
    <3>1. contest'.status = contest.status /\ signedPaper' = signedPaper
      BY <1>2, <2>4 DEF Freezing, Freezes, Unfreezing, ContestRow
    <3> QED
      BY <1>3, <1>5, <2>1, <3>1 DEF AsSigned
  <2> QED
    BY <2>2, <2>3, <2>4 DEF Moves
<1>7. oneByOne => RulingsStand' /\ VotesStay'
  BY <1>1 DEF NominationsIInv, InTurn, RulingsStand, VotesStay, Elsewhere, Nominees
<1>8. Nominees' = Nominees
  BY <1>1 DEF Elsewhere, Nominees
<1>9. AllAtDesk /\ office' \in [Staff -> Desk]
  BY <1>1, WaitsRest DEF Elsewhere
<1>10. /\ UNCHANGED oneByOne /\ posts' \in [Positions -> Rules] /\ stand' \in [Candidates -> CandidateRow \cup {NoRow}]
       /\ invited' \subseteq Candidates \X People /\ paid' \subseteq Nominees' /\ ledger' \subseteq Nominees' /\ misled' = {}
       /\ changes' \in Nat
  BY <1>1, <1>8, NominationsTypes DEF NominationsIInv, Elsewhere
<1> QED
  BY <1>3, <1>6, <1>7, <1>9, <1>10, NominationsAll

-----------------------------------------------------------------------------
(* Nominations: judging.                                                     *)

(* edit_policy: an institutional election whose structure may be changed is  *)
(* a draft, or is one again. *)
LEMMA RequireIs ==
  ASSUME NominationsIInv, NEW scope, Require(scope)
  PROVE  /\ contest' \in ContestRow /\ contest'.kind = contest.kind
         /\ contest'.status = contest.status \/ contest'.status = "DRAFT"
         /\ scope # "profile" => InDraft'
         /\ scope = "profile" => contest' = contest
<1>1. contest \in ContestRow /\ MayEdit(scope) /\ contest' = IF ResetBy(scope) THEN [contest EXCEPT !.status = "DRAFT"] ELSE contest
  BY NominationsTypes DEF Require
<1>2. CASE ResetBy(scope)
  <2>1. contest' \in ContestRow /\ contest'.status = "DRAFT" /\ contest'.kind = contest.kind
    BY <1>1, <1>2 DEF ContestRow
  <2> QED
    BY <1>2, <2>1 DEF ResetBy, InDraft
<1>3. CASE ~ResetBy(scope)
  <2>1. contest' = contest
    BY <1>1, <1>3
  <2>2. ASSUME scope # "profile", contest.kind = "institutional" PROVE contest.status = "DRAFT"
    BY <1>1, <1>3, <2>2 DEF MayEdit, ResetBy, ContestRow, LiveStates, LockedStates
  <2> QED
    BY <1>1, <2>1, <2>2 DEF InDraft
<1> QED
  BY <1>2, <1>3

LEMMA BeginKeeps ==
  ASSUME NominationsIInv, NEW h \in Staff, NEW t \in Desk, Begin(h, t),
         contest' \in ContestRow, contest'.kind = contest.kind, contest'.status = contest.status \/ contest'.status = "DRAFT",
         oneByOne => StillJudged(t)'
  PROVE  NominationsIInv'
<1>1. /\ office' = [office EXCEPT ![h] = t] /\ Waits
      /\ UNCHANGED <<oneByOne, posts, stand, signedPaper, invited, paid, ledger, given, ruled, misled, changes>>
  BY DEF Begin
<1>2. office' \in [Staff -> Desk] /\ office'[h] = t /\ \A g \in Staff : g # h => office'[g] = office[g]
  BY <1>1, NominationsTypes
<1>3. SamePaper
  BY <1>1 DEF SamePaper
<1>4. NominationsTyped'
  BY <1>1, <1>2, NominationsTypes DEF NominationsTyped, NominationsTypeOK, Nominees
<1>5. ASSUME oneByOne PROVE InTurn'
  <2>1. \A g \in Staff : g # h => office'[g] = AtDesk
    BY <1>1, <1>2, <1>5 DEF Waits
  <2>2. \A g \in Staff : StillJudged(office[g])'
    <3>1. ASSUME NEW g \in Staff PROVE StillJudged(office[g])'
      <4>1. CASE g = h
        BY <1>2, <1>5, <4>1 DEF StillJudged
      <4>2. CASE g # h
        BY <2>1, <4>2, DeskIs DEF StillJudged
      <4> QED
        BY <4>1, <4>2
    <3> QED
      BY <3>1
  <2>3. AsSigned'
    BY <1>1, <1>3, <1>5, SignedStays
  <2>4. RulingsStand' /\ VotesStay'
    BY <1>1, <1>5 DEF NominationsIInv, InTurn, RulingsStand, VotesStay, Nominees
  <2> QED
    BY <2>1, <2>2, <2>3, <2>4 DEF InTurn
<1>6. misled' = {} /\ paid' \subseteq Nominees'
  BY <1>1 DEF NominationsIInv, Nominees
<1> QED
  BY <1>1, <1>4, <1>5, <1>6 DEF NominationsIInv

LEMMA JudgePostKeeps ==
  ASSUME NominationsIInv, NEW h \in Staff, NEW p \in Positions, NEW f \in Forms, JudgePost(h, p, f) \/ CreatePosition(h, p, f)
  PROVE  NominationsIInv'
<1>1. PICK rules \in {Parsed(f), f} : Begin(h, [op |-> "post", position |-> p, rules |-> rules])
  BY DEF JudgePost, CreatePosition
<1>2. PICK scope : scope = "ballot"
  OBVIOUS
<1>3. Require(scope) /\ scope # "profile"
  BY <1>2 DEF JudgePost, CreatePosition
<1>4. rules \in Rules
  <2>1. f \in Rules
    BY NominationsAssumption DEF NominationsAssumption
  <2>2. PICK max \in Nat : max = IF f.max < f.min THEN f.min ELSE f.max
    BY <2>1 DEF Rules
  <2>3. Parsed(f) = [f EXCEPT !.max = max]
    BY <2>2 DEF Parsed
  <2>4. [f EXCEPT !.max = max] \in Rules
    BY <2>1 DEF Rules
  <2> QED
    BY <1>1, <2>1, <2>3, <2>4
<1>5. PICK t : t = [op |-> "post", position |-> p, rules |-> rules]
  OBVIOUS
<1>6. t \in Desk /\ t.op = "post" /\ Begin(h, t)
  BY <1>1, <1>4, <1>5 DEF Desk
<1>7. /\ contest' \in ContestRow /\ contest'.kind = contest.kind
      /\ contest'.status = contest.status \/ contest'.status = "DRAFT"
      /\ InDraft'
  BY <1>3, RequireIs
<1>8. StillJudged(t)'
  BY <1>6, <1>7 DEF StillJudged
<1> QED
  BY <1>6, <1>7, <1>8, BeginKeeps

LEMMA JudgeRemovalKeeps == ASSUME NominationsIInv, NEW h \in Staff, NEW p \in Positions, JudgeRemoval(h, p) PROVE NominationsIInv'
<1>1. PICK scope : scope = "ballot"
  OBVIOUS
<1>2. PICK t : t = [op |-> "remove", position |-> p]
  OBVIOUS
<1>3. Require(scope) /\ scope # "profile" /\ Votes(p) = {} /\ Begin(h, t)
  BY <1>1, <1>2 DEF JudgeRemoval
<1>4. t \in Desk /\ t.op = "remove" /\ t.position = p
  BY <1>2 DEF Desk
<1>5. /\ contest' \in ContestRow /\ contest'.kind = contest.kind
      /\ contest'.status = contest.status \/ contest'.status = "DRAFT"
      /\ InDraft'
  BY <1>3, RequireIs
<1>6. Votes(p)' = {}
  BY <1>3 DEF Begin, Votes, Place
<1>7. StillJudged(t)'
  BY <1>4, <1>5, <1>6 DEF StillJudged, Votes, Place
<1> QED
  BY <1>3, <1>4, <1>5, <1>7, BeginKeeps

(* Candidates to save, added or changed. *)
LEMMA StandIs ==
  ASSUME NEW rows \in Some, NEW decided \in BOOLEAN, NEW t, t = Stand(rows, decided)
  PROVE  t \in Desk /\ t.op = "stand" /\ t.rows = rows /\ t.decided = decided
  BY DEF Stand, Desk

LEMMA NewcomerIs ==
  ASSUME NEW p \in Positions \cup {Unassigned}, NEW email \in People \cup {NoAccount}
  PROVE  Newcomer(p, email) \in CandidateRow
  BY DEF Newcomer, CandidateRow, Standing

(* New candidates, their status given with them. *)
LEMMA NewcomersKeep ==
  ASSUME NominationsIInv, NEW h \in Staff, NEW rows \in Some, Require("candidates"), Begin(h, Stand(rows, TRUE))
  PROVE  NominationsIInv'
<1>1. PICK scope, yes : scope = "candidates" /\ yes = TRUE
  OBVIOUS
<1>2. Require(scope) /\ scope # "profile" /\ yes \in BOOLEAN
  BY <1>1
<1>3. PICK t : t = Stand(rows, yes)
  OBVIOUS
<1>4. t \in Desk /\ t.op = "stand" /\ t.decided = yes
  BY <1>2, <1>3, StandIs
<1>5. Begin(h, t)
  BY <1>1, <1>3
<1>6. /\ contest' \in ContestRow /\ contest'.kind = contest.kind
      /\ contest'.status = contest.status \/ contest'.status = "DRAFT"
      /\ InDraft'
  BY <1>2, RequireIs
<1>7. StillJudged(t)'
  BY <1>1, <1>4, <1>6 DEF StillJudged
<1> QED
  BY <1>4, <1>5, <1>6, <1>7, BeginKeeps

LEMMA JudgeNomineeKeeps ==
  ASSUME NominationsIInv, NEW h \in Staff, NEW c \in Candidates, NEW p \in Positions \cup {Unassigned},
         NEW email \in People \cup {NoAccount}, JudgeNominee(h, c, p, email)
  PROVE  NominationsIInv'
<1>1. PICK rows : rows = [d \in {c} |-> Newcomer(p, email)]
  OBVIOUS
<1>2. rows \in [{c} -> CandidateRow]
  BY <1>1, NewcomerIs
<1>3. rows \in Some
  BY <1>2 DEF Some
<1>4. Require("candidates") /\ Begin(h, Stand(rows, TRUE))
  BY <1>1 DEF JudgeNominee
<1> QED
  BY <1>3, <1>4, NewcomersKeep

LEMMA JudgeListKeeps == ASSUME NominationsIInv, NEW h \in Staff, NEW p \in Positions, JudgeList(h, p) PROVE NominationsIInv'
<1>1. PICK place \in Positions \cup {Unassigned} : place = IF p \in There THEN p ELSE Unassigned
  OBVIOUS
<1>2. PICK rows : rows = [d \in Candidates \ Nominees |-> Newcomer(place, NoAccount)]
  OBVIOUS
<1>3. Newcomer(place, NoAccount) \in CandidateRow
  BY NewcomerIs
<1>4. rows \in [Candidates \ Nominees -> CandidateRow] /\ Candidates \ Nominees \in SUBSET Candidates
  BY <1>2, <1>3
<1>5. rows \in Some
  BY <1>4 DEF Some
<1>6. Require("candidates") /\ Begin(h, Stand(rows, TRUE))
  BY <1>1, <1>2 DEF JudgeList
<1> QED
  BY <1>5, <1>6, NewcomersKeep

LEMMA ChangedIs ==
  ASSUME NominationsIInv, NEW c \in Nominees, NEW new \in Changed(c)
  PROVE  new \in CandidateRow
<1>1. stand[c] \in CandidateRow
  BY NominationsTypes
<1>2. \A p \in There \cup {Unassigned} : [stand[c] EXCEPT !.position = p] \in CandidateRow
  BY <1>1 DEF CandidateRow, There
<1>3. \A s \in Standing : [stand[c] EXCEPT !.status = s] \in CandidateRow
  BY <1>1 DEF CandidateRow
<1>4. \A e \in People : [stand[c] EXCEPT !.email = e] \in CandidateRow
  BY <1>1 DEF CandidateRow
<1>5. [stand[c] EXCEPT !.name = "second"] \in CandidateRow
  BY <1>1 DEF CandidateRow
<1> QED
  BY <1>2, <1>3, <1>4, <1>5 DEF Changed

LEMMA JudgeCandidateKeeps == ASSUME NominationsIInv, NEW h \in Staff, NEW c \in Candidates, JudgeCandidate(h, c) PROVE NominationsIInv'
<1>1. PICK new \in Changed(c) : /\ Require(IF Structural(stand[c], new) THEN "candidates" ELSE "profile")
                                /\ Begin(h, Stand([d \in {c} |-> new], stand[c].status # new.status))
  BY DEF JudgeCandidate
<1>2. c \in Nominees /\ new \in CandidateRow
  BY <1>1, ChangedIs DEF JudgeCandidate
<1>3. PICK rows : rows = [d \in {c} |-> new]
  OBVIOUS
<1>4. rows \in [{c} -> CandidateRow] /\ rows[c] = new
  BY <1>2, <1>3
<1>5. rows \in Some /\ DOMAIN rows = {c}
  BY <1>4 DEF Some
<1>6. PICK decided : decided = (stand[c].status # new.status)
  OBVIOUS
<1>7. decided \in BOOLEAN
  BY <1>6
<1>8. PICK t : t = Stand(rows, decided)
  OBVIOUS
<1>9. t \in Desk /\ t.op = "stand" /\ t.rows = rows /\ t.decided = decided
  BY <1>5, <1>7, <1>8, StandIs
<1>10. Begin(h, t)
  BY <1>1, <1>3, <1>6, <1>8
<1>11. PICK scope : scope = IF Structural(stand[c], new) THEN "candidates" ELSE "profile"
  OBVIOUS
<1>12. Require(scope)
  BY <1>1, <1>11
<1>13. /\ contest' \in ContestRow /\ contest'.kind = contest.kind
       /\ contest'.status = contest.status \/ contest'.status = "DRAFT"
       /\ scope # "profile" => InDraft'
  BY <1>12, RequireIs
<1>14. ~Structural(stand[c], new) => new.position = stand[c].position /\ new.status = stand[c].status
  BY DEF Structural
<1>15. UNCHANGED stand
  BY <1>10 DEF Begin
<1>16. InDraft' \/ \A d \in DOMAIN rows : KeepsPlace(d, rows[d])'
  <2>1. CASE Structural(stand[c], new)
    BY <1>11, <1>13, <2>1
  <2>2. CASE ~Structural(stand[c], new)
    BY <1>2, <1>4, <1>5, <1>14, <1>15, <2>2 DEF KeepsPlace, Nominees
  <2> QED
    BY <2>1, <2>2
<1>17. ~decided => \A d \in DOMAIN rows : rows[d].status = stand'[d].status
  BY <1>4, <1>5, <1>6, <1>15
<1>18. StillJudged(t)'
  BY <1>9, <1>16, <1>17 DEF StillJudged, KeepsPlace
<1> QED
  BY <1>9, <1>10, <1>13, <1>18, BeginKeeps

LEMMA JudgeProfileKeeps == ASSUME NominationsIInv, NEW h \in Staff, NEW c \in Candidates, JudgeProfile(h, c) PROVE NominationsIInv'
<1>1. c \in Nominees /\ UNCHANGED contest /\ Begin(h, Stand([d \in {c} |-> stand[c]], FALSE))
  BY DEF JudgeProfile
<1>2. PICK rows : rows = [d \in {c} |-> stand[c]]
  OBVIOUS
<1>3. rows \in [{c} -> CandidateRow] /\ rows[c] = stand[c]
  BY <1>1, <1>2, NominationsTypes
<1>4. rows \in Some /\ DOMAIN rows = {c}
  BY <1>3 DEF Some
<1>5. PICK no : no = FALSE
  OBVIOUS
<1>6. no \in BOOLEAN
  BY <1>5
<1>7. PICK t : t = Stand(rows, no)
  OBVIOUS
<1>8. t \in Desk /\ t.op = "stand" /\ t.rows = rows
  BY <1>4, <1>6, <1>7, StandIs
<1>9. Begin(h, t) /\ UNCHANGED stand
  BY <1>1, <1>2, <1>5, <1>7 DEF Begin
<1>10. \A d \in DOMAIN rows : KeepsPlace(d, rows[d])'
  BY <1>1, <1>3, <1>4, <1>9 DEF KeepsPlace, Nominees
<1>11. StillJudged(t)'
  BY <1>8, <1>10 DEF StillJudged, KeepsPlace
<1> QED
  BY <1>1, <1>8, <1>9, <1>11, NominationsTypes, BeginKeeps

-----------------------------------------------------------------------------
(* Nominations: saving.                                                      *)

(* A draft may change. *)
LEMMA DraftIsUnsigned == ASSUME InDraft, UNCHANGED contest PROVE AsSigned'
  BY DEF InDraft, AsSigned, LiveStates, LockedStates

LEMMA SavePostKeeps == ASSUME NominationsIInv, NEW h \in Staff, SavePost(h) PROVE NominationsIInv'
<1>1. /\ office[h].op = "post" /\ posts' = [posts EXCEPT ![office[h].position] = office[h].rules]
      /\ Finish(h) /\ UNCHANGED <<stand, ledger, ruled>>
  BY DEF SavePost
<1>2. office[h].position \in Positions /\ office[h].rules \in Rules
  BY <1>1, NominationsTypes, DeskIs
<1>3. posts' \in [Positions -> Rules]
  BY <1>1, <1>2, NominationsTypes
<1>4. UNCHANGED <<oneByOne, contest, signedPaper, invited, paid, given, misled>>
  BY <1>1 DEF Finish
<1>5. AllAtDesk /\ office' \in [Staff -> Desk] /\ changes' \in Nat
  BY <1>1, FinishRests
<1>6. ASSUME oneByOne PROVE AsSigned' /\ RulingsStand' /\ VotesStay'
  <2>1. InTurn /\ StillJudged(office[h])
    BY <1>6 DEF NominationsIInv, InTurn
  <2>2. AsSigned'
    BY <1>1, <1>4, <2>1, DraftIsUnsigned DEF StillJudged
  <2> QED
    BY <1>1, <1>4, <2>1, <2>2 DEF InTurn, RulingsStand, VotesStay, Nominees
<1>7. Nominees' = Nominees
  BY <1>1 DEF Nominees
<1> QED
  BY <1>1, <1>3, <1>4, <1>5, <1>6, <1>7, NominationsTypes, NominationsAll DEF NominationsIInv

(* delete_category: no candidate with a payment goes, and none with votes.   *)
LEMMA SaveRemovalKeeps == ASSUME NominationsIInv, NEW h \in Staff, SaveRemoval(h) PROVE NominationsIInv'
<1>1. PICK p, gone : p = office[h].position /\ gone = {c \in Nominees : Place(c) = p}
  OBVIOUS
<1>2. office[h].op = "remove" /\ Finish(h)
  BY DEF SaveRemoval
<1>3. p \in Positions
  BY <1>1, <1>2, NominationsTypes, DeskIs
<1>4. UNCHANGED <<oneByOne, contest, signedPaper, invited, paid, given, misled>>
  BY <1>2 DEF Finish
<1>5. AllAtDesk /\ office' \in [Staff -> Desk] /\ changes' \in Nat
  BY <1>2, FinishRests
<1>6. CASE gone \cap paid # {}
  <2>1. UNCHANGED <<posts, stand, ledger, ruled>>
    BY <1>1, <1>6 DEF SaveRemoval
  <2>2. SamePaper /\ Nominees' = Nominees
    BY <1>4, <2>1 DEF SamePaper, Nominees
  <2>3. ASSUME oneByOne PROVE AsSigned' /\ RulingsStand' /\ VotesStay'
    <3>1. AsSigned'
      BY <1>4, <2>2, <2>3, SignedStays
    <3> QED
      BY <1>4, <2>1, <2>2, <2>3, <3>1 DEF NominationsIInv, InTurn, RulingsStand, VotesStay
  <2> QED
    BY <1>4, <1>5, <2>1, <2>2, <2>3, NominationsTypes, NominationsAll DEF NominationsIInv
<1>7. CASE gone \cap paid = {}
  <2>1. /\ posts' = [posts EXCEPT ![p] = NoPost]
        /\ stand' = [c \in Candidates |-> IF c \in gone THEN NoRow ELSE stand[c]]
        /\ ledger' = ledger \ gone
        /\ ruled' = [c \in Candidates |-> IF c \in gone THEN "" ELSE ruled[c]]
    BY <1>1, <1>7 DEF SaveRemoval
  <2>2. NoPost \in Rules
    BY DEF NoPost, Rules
  <2>3. posts' \in [Positions -> Rules] /\ stand' \in [Candidates -> CandidateRow \cup {NoRow}]
    BY <1>3, <2>1, <2>2, NominationsTypes
  <2>4. Nominees' = Nominees \ gone
    BY <2>1 DEF Nominees
  <2>5. paid' \subseteq Nominees' /\ ledger' \subseteq Nominees'
    BY <1>4, <1>7, <2>1, <2>4, NominationsTypes
  <2>6. ASSUME oneByOne PROVE AsSigned' /\ RulingsStand' /\ VotesStay'
    <3>1. InTurn /\ StillJudged(office[h])
      BY <2>6 DEF NominationsIInv, InTurn
    <3>2. InDraft /\ Votes(p) = {}
      BY <1>1, <1>2, <3>1 DEF StillJudged
    <3>3. AsSigned'
      BY <1>4, <3>2, DraftIsUnsigned
    <3>4. ledger' = ledger
      BY <1>1, <2>1, <3>2 DEF Votes
    <3>5. VotesStay'
      BY <1>4, <3>1, <3>4 DEF InTurn, VotesStay
    <3>6. RulingsStand'
      BY <2>1, <2>4, <3>1 DEF InTurn, RulingsStand, Nominees
    <3> QED
      BY <3>3, <3>5, <3>6
  <2> QED
    BY <1>4, <1>5, <2>3, <2>5, <2>6, NominationsTypes, NominationsAll DEF NominationsIInv
<1> QED
  BY <1>6, <1>7

(* candidate.save(): a row that was not decided about says what it said.     *)
LEMMA SaveCandidateKeeps == ASSUME NominationsIInv, NEW h \in Staff, SaveCandidate(h) PROVE NominationsIInv'
<1>1. PICK rows, decided : rows = office[h].rows /\ decided = office[h].decided
  OBVIOUS
<1>2. PICK saved : saved = {c \in DOMAIN rows : rows[c].position \in There \cup {Unassigned}}
  OBVIOUS
<1>3. /\ office[h].op = "stand" /\ Finish(h) /\ UNCHANGED <<posts, ledger>>
      /\ stand' = [c \in Candidates |-> IF c \in saved THEN rows[c] ELSE stand[c]]
      /\ ruled' = [c \in Candidates |-> IF c \in saved /\ (decided \/ c \notin Nominees) THEN rows[c].status ELSE ruled[c]]
  BY <1>1, <1>2 DEF SaveCandidate
<1>4. rows \in Some
  BY <1>1, <1>3, NominationsTypes, DeskIs
<1>5. saved \subseteq DOMAIN rows /\ saved \subseteq Candidates /\ \A c \in saved : rows[c] \in CandidateRow /\ rows[c] # NoRow
  BY <1>2, <1>4, SomeAre
<1>6. UNCHANGED <<oneByOne, contest, signedPaper, invited, paid, given, misled>>
  BY <1>3 DEF Finish
<1>7. AllAtDesk /\ office' \in [Staff -> Desk] /\ changes' \in Nat
  BY <1>3, FinishRests
<1>8. stand' \in [Candidates -> CandidateRow \cup {NoRow}]
  BY <1>3, <1>5, NominationsTypes
<1>9. Nominees' = Nominees \cup saved
  BY <1>3, <1>5 DEF Nominees
<1>10. ASSUME oneByOne PROVE AsSigned' /\ RulingsStand' /\ VotesStay'
  <2>1. InTurn /\ StillJudged(office[h])
    BY <1>10 DEF NominationsIInv, InTurn
  <2>2. AsSigned'
    <3>1. CASE InDraft
      BY <1>6, <3>1, DraftIsUnsigned
    <3>2. CASE ~InDraft
      <4>1. \A c \in DOMAIN rows : KeepsPlace(c, rows[c])
        BY <1>1, <1>3, <2>1, <3>2 DEF StillJudged
      <4>2. ASSUME NEW c \in Candidates
            PROVE  /\ stand'[c].position = stand[c].position /\ stand'[c].status = stand[c].status
                   /\ stand'[c] = NoRow <=> stand[c] = NoRow
        BY <1>3, <1>5, <4>1 DEF KeepsPlace, Nominees
      <4>3. SamePaper
        BY <1>3, <1>6, <4>2 DEF SamePaper
      <4> QED
        BY <1>6, <1>10, <4>3, SignedStays
    <3> QED
      BY <3>1, <3>2
  <2>3. RulingsStand'
    <3>1. ASSUME NEW c \in Nominees' PROVE stand'[c].status = ruled'[c]
      <4>1. c \in Candidates /\ (c \in Nominees => stand[c].status = ruled[c])
        BY <2>1, <3>1 DEF InTurn, RulingsStand, Nominees
      <4>2. CASE c \notin saved
        BY <1>3, <1>9, <4>1, <4>2
      <4>3. CASE c \in saved /\ (decided \/ c \notin Nominees)
        BY <1>3, <4>1, <4>3
      <4>4. CASE c \in saved /\ ~(decided \/ c \notin Nominees)
        <5>1. rows[c].status = stand[c].status
          BY <1>1, <1>3, <1>5, <2>1, <4>4 DEF StillJudged
        <5> QED
          BY <1>3, <4>1, <4>4, <5>1
      <4> QED
        BY <4>2, <4>3, <4>4
    <3> QED
      BY <3>1 DEF RulingsStand
  <2> QED
    BY <1>3, <1>6, <2>1, <2>2, <2>3 DEF InTurn, VotesStay
<1> QED
  BY <1>3, <1>6, <1>7, <1>8, <1>9, <1>10, NominationsTypes, NominationsAll DEF NominationsIInv

-----------------------------------------------------------------------------
(* Nominations: invitations and votes.                                       *)

LEMMA AcceptKeeps ==
  ASSUME NominationsIInv, NEW c \in Candidates, NEW who \in People, NEW signedIn \in BOOLEAN, Accept(c, who, signedIn)
  PROVE  NominationsIInv'
<1>1. /\ Waits /\ c \in Nominees /\ stand[c].email = who /\ stand' = [stand EXCEPT ![c].user = who]
      /\ misled' = IF stand[c].email # who THEN misled \cup {c} ELSE misled
      /\ changes' = changes + 1
      /\ UNCHANGED <<oneByOne, contest, posts, signedPaper, invited, paid, ledger, given, ruled, office>>
  BY DEF Accept, Addressed
<1>2. PICK row : row = [stand[c] EXCEPT !.user = who]
  OBVIOUS
<1>3. row \in CandidateRow /\ row # NoRow /\ row.position = stand[c].position /\ row.status = stand[c].status
  <2>1. row \in CandidateRow /\ row.position = stand[c].position /\ row.status = stand[c].status
    BY <1>1, <1>2, NominationsTypes DEF CandidateRow
  <2> QED
    BY <2>1, NoRowIsNone
<1>4. stand' \in [Candidates -> CandidateRow \cup {NoRow}] /\ stand'[c] = row /\ \A d \in Candidates : d # c => stand'[d] = stand[d]
  BY <1>1, <1>2, <1>3, NominationsTypes
<1>5. SamePaper
  BY <1>1, <1>3, <1>4 DEF SamePaper, Nominees
<1>6. Nominees' = Nominees
  BY <1>5 DEF SamePaper, Nominees
<1>7. AllAtDesk /\ office' \in [Staff -> Desk]
  BY <1>1, WaitsRest
<1>8. ASSUME oneByOne PROVE AsSigned' /\ RulingsStand' /\ VotesStay'
  <2>1. AsSigned'
    BY <1>1, <1>5, <1>8, SignedStays
  <2>2. InTurn
    BY <1>8 DEF NominationsIInv
  <2>3. RulingsStand'
    BY <1>1, <1>5, <1>6, <2>2 DEF InTurn, RulingsStand, SamePaper, Nominees
  <2> QED
    BY <1>1, <2>1, <2>2, <2>3 DEF InTurn, VotesStay
<1>9. misled' = {} /\ changes' \in Nat
  BY <1>1, NominationsTypes DEF NominationsIInv
<1> QED
  BY <1>1, <1>4, <1>6, <1>7, <1>8, <1>9, NominationsTypes, NominationsAll

(* What concerns no row of the ballot: invitations, payments, votes.         *)
LEMMA BesideKeeps ==
  ASSUME NominationsIInv, NEW c,
         Invite(c) \/ Checkout(c) \/ Credit(c) \/ TicketVote(c) \/ UNCHANGED nominationsVars
  PROVE  NominationsIInv'
<1>1. /\ UNCHANGED <<oneByOne, contest, posts, stand, signedPaper, ruled, misled, office>>
      /\ changes' \in Nat
  BY NominationsTypes DEF Invite, Checkout, Credit, TicketVote, Around, nominationsVars
<1>2. Nominees' = Nominees
  BY <1>1 DEF Nominees
<1>3. /\ invited' \subseteq Candidates \X People /\ paid' \subseteq Nominees /\ ledger' \subseteq Nominees
      /\ given \subseteq ledger => given' \subseteq ledger'
  <2>1. CASE Invite(c)
    <3>1. stand[c].email \in People /\ c \in Candidates
      BY <2>1, NominationsTypes DEF Invite, CandidateRow, Nominees
    <3>2. invited' \subseteq Candidates \X People /\ UNCHANGED <<paid, ledger, given>>
      BY <2>1, <3>1, NominationsTypes DEF Invite
    <3> QED
      BY <3>2, NominationsTypes
  <2>2. CASE Checkout(c) \/ Credit(c) \/ TicketVote(c) \/ UNCHANGED nominationsVars
    BY <2>2, NominationsTypes DEF Checkout, Credit, TicketVote, VotesOn, Around, nominationsVars
  <2> QED
    BY <2>1, <2>2
<1>4. SamePaper
  BY <1>1 DEF SamePaper
<1>5. ASSUME oneByOne PROVE InTurn'
  <2>1. AsSigned'
    BY <1>1, <1>4, <1>5, SignedStays
  <2>2. InTurn
    BY <1>5 DEF NominationsIInv
  <2>3. RulingsStand' /\ VotesStay'
    BY <1>1, <1>2, <1>3, <2>2 DEF InTurn, RulingsStand, VotesStay
  <2>4. \A h \in Staff : StillJudged(office[h])'
    <3>1. CASE UNCHANGED nominationsVars
      BY <2>2, <3>1 DEF InTurn, StillJudged, InDraft, Votes, Place, KeepsPlace, Nominees, nominationsVars
    <3>2. CASE ~UNCHANGED nominationsVars
      <4>1. \A h \in Staff : office'[h] = AtDesk
        BY <1>1, <1>5, <3>2 DEF Invite, Checkout, Credit, TicketVote, Waits
      <4> QED
        BY <4>1, DeskIs DEF StillJudged
    <3> QED
      BY <3>1, <3>2
  <2>5. \A g, h \in Staff : office'[g] # AtDesk /\ office'[h] # AtDesk => g = h
    BY <1>1, <2>2 DEF InTurn
  <2> QED
    BY <2>1, <2>3, <2>4, <2>5 DEF InTurn
<1>6. NominationsTyped'
  BY <1>1, <1>2, <1>3, NominationsTypes DEF NominationsTyped, NominationsTypeOK
<1> QED
  BY <1>1, <1>2, <1>3, <1>5, <1>6 DEF NominationsIInv

-----------------------------------------------------------------------------
(* Nominations: the theorems.                                                *)

LEMMA NominationsStart == ASSUME NominationsInit PROVE NominationsIInv
<1>1. PICK p, c, who : /\ p \in Positions /\ c \in Candidates /\ who \in People
                       /\ posts = [q \in Positions |-> IF q = p THEN [min |-> 1, max |-> 1, seats |-> 1] ELSE NoPost]
                       /\ stand = [d \in Candidates |->
                             IF d = c THEN [position |-> p, name |-> "first", status |-> "ACTIVE",
                                            email |-> who, user |-> NoAccount] ELSE NoRow]
  BY DEF NominationsInit
<1>2. [min |-> 1, max |-> 1, seats |-> 1] \in Rules /\ NoPost \in Rules
  BY DEF Rules, NoPost
<1>3. [position |-> p, name |-> "first", status |-> "ACTIVE", email |-> who, user |-> NoAccount] \in CandidateRow
  BY <1>1 DEF CandidateRow, Standing
<1>4. posts \in [Positions -> Rules] /\ stand \in [Candidates -> CandidateRow \cup {NoRow}]
  BY <1>1, <1>2, <1>3
<1>5. contest \in ContestRow /\ contest.status = "DRAFT"
  BY DEF NominationsInit, ContestRow
<1>6. office \in [Staff -> Desk] /\ \A h \in Staff : office[h] = AtDesk
  BY DeskIs DEF NominationsInit
<1>7. NominationsTyped
  BY <1>4, <1>5, <1>6 DEF NominationsInit, NominationsTyped, NominationsTypeOK
<1>8. AsSigned
  BY <1>5 DEF AsSigned, LiveStates, LockedStates
<1>9. RulingsStand
  BY DEF NominationsInit, RulingsStand, Nominees
<1>10. VotesStay /\ misled = {} /\ paid = {}
  BY DEF NominationsInit, VotesStay
<1>11. InTurn
  BY <1>6, <1>8, <1>9, <1>10, DeskIs DEF InTurn, StillJudged
<1> QED
  BY <1>7, <1>10, <1>11 DEF NominationsIInv

LEMMA HandlesKeep == ASSUME NominationsIInv, NEW h \in Staff, Handles(h) PROVE NominationsIInv'
<1>1. CASE SavePost(h) \/ SaveRemoval(h) \/ SaveCandidate(h)
  BY <1>1, SavePostKeeps, SaveRemovalKeeps, SaveCandidateKeeps
<1>2. ASSUME NEW p \in Positions, JudgeRemoval(h, p) \/ JudgeList(h, p) PROVE NominationsIInv'
  BY <1>2, JudgeRemovalKeeps, JudgeListKeeps
<1>3. ASSUME NEW p \in Positions, NEW f \in Forms, JudgePost(h, p, f) \/ CreatePosition(h, p, f) PROVE NominationsIInv'
  BY <1>3, JudgePostKeeps
<1>4. ASSUME NEW c \in Candidates, JudgeCandidate(h, c) \/ JudgeProfile(h, c) PROVE NominationsIInv'
  BY <1>4, JudgeCandidateKeeps, JudgeProfileKeeps
<1>5. ASSUME NEW c \in Candidates, NEW p \in Positions \cup {Unassigned}, NEW who \in People \cup {NoAccount},
             JudgeNominee(h, c, p, who)
      PROVE  NominationsIInv'
  BY <1>5, JudgeNomineeKeeps
<1>6. CASE \E p \in Positions : \/ \E f \in Forms : JudgePost(h, p, f) \/ CreatePosition(h, p, f)
                                \/ JudgeRemoval(h, p) \/ JudgeList(h, p)
  BY <1>2, <1>3, <1>6
<1>7. CASE \E c \in Candidates : \/ JudgeCandidate(h, c) \/ JudgeProfile(h, c)
                                 \/ \E p \in Positions \cup {Unassigned} :
                                       \E who \in People \cup {NoAccount} : JudgeNominee(h, c, p, who)
  BY <1>4, <1>5, <1>7
<1> QED
  BY <1>1, <1>6, <1>7 DEF Handles

LEMMA NominationsStep == ASSUME NominationsIInv, [NominationsNext]_nominationsVars PROVE NominationsIInv'
<1>1. CASE Moves
  BY <1>1, MovesKeep
<1>2. CASE \E h \in Staff : Handles(h)
  BY <1>2, HandlesKeep
<1>3. CASE \E c \in Candidates : Invite(c) \/ Checkout(c) \/ Credit(c) \/ TicketVote(c)
  BY <1>3, BesideKeeps
<1>4. CASE \E c \in Candidates : \E who \in People, signedIn \in BOOLEAN : Accept(c, who, signedIn)
  BY <1>4, AcceptKeeps
<1>5. CASE UNCHANGED nominationsVars
  BY <1>5, BesideKeeps
<1> QED
  BY <1>1, <1>2, <1>3, <1>4, <1>5 DEF NominationsNext

LEMMA NominationsFollow == NominationsIInv => NominationsTypeOK /\ NominationsHold
<1>1. NominationsIInv => NominationsTypeOK
  BY DEF NominationsIInv, NominationsTyped
<1>2. ASSUME NominationsIInv PROVE NominationsHold
  BY <1>2 DEF NominationsIInv, InTurn, AsSigned, BallotAsSigned, NominationsHold
<1> QED
  BY <1>1, <1>2

(* NominationsIInv holds of every state that officials, candidates and       *)
(* voters reach. *)
THEOREM NominationsInvariant == NominationsSpec => []NominationsIInv
  BY NominationsStart, NominationsStep, PTL DEF NominationsSpec

(* Positions, candidates, invitations and the ledger keep their types.       *)
THEOREM NominationsTypeCorrect == NominationsSpec => []NominationsTypeOK
<1>1. NominationsIInv => NominationsTypeOK
  BY NominationsFollow
<1> QED
  BY <1>1, NominationsInvariant, PTL

(* edit_policy, edit_candidate, delete_category, accept_invitation: while    *)
(* handlers do not overlap the ballot is the one that was signed, rulings    *)
(* stand, votes are not lost, and links go to the address of the candidate;  *)
(* nobody with a payment is deleted, even when they do.                      *)
THEOREM PaperIsKept == NominationsSpec => []NominationsHold
<1>1. NominationsIInv => NominationsHold
  BY NominationsFollow
<1> QED
  BY <1>1, NominationsInvariant, PTL
=============================================================================
