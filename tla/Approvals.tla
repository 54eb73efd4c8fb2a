------------------------------ MODULE Approvals ------------------------------
(***************************************************************************)
(* Dual control: a sensitive action is requested by one official, decided  *)
(* by another and then executed; and the casework that leads to it, legal  *)
(* holds, disputes and the archive they keep closed.                       *)
(*                                                                         *)
(* Grain of atomicity.  The view loads the request without a lock, decide()*)
(* judges that copy and saves it whole, the executor commits on its own,   *)
(* and the outcome is saved whole again: four steps, and the worker may    *)
(* die after each.  "overlap" tells whether several handlers may be in     *)
(* progress on these rows; both settings are checked side by side.         *)
(***************************************************************************)
EXTENDS Naturals, FiniteSets

CONSTANTS
    Officials,     \* people who may request sensitive actions
    Approvers,     \* those of them with the permission approval.decide
    Nobody,        \* no official, no request (NULL)
    Requests,      \* the approval requests that may be made
    Actions,       \* the sensitive actions asked for
    Disputes,      \* the disputes that may be filed
    FirstEnd,      \* Event.end_date to begin with
    Lifetime,      \* how long a request may be decided: three days
    MaxTime

Kinds == {"extend", "unfreeze", "release", "other"}

ASSUME ApprovalsAssumption ==
    /\ Approvers \subseteq Officials /\ Nobody \notin Officials \cup Requests
    /\ Actions \subseteq Kinds
    /\ MaxTime \in Nat /\ Lifetime \in Nat /\ FirstEnd \in 0..MaxTime

VARIABLES
    overlap,    \* handlers of several officials may be in progress at once
    dual,       \* Event.dual_approval_required
    now,
    event,      \* the election row: status, end date, freeze and legal hold
    disputes,   \* the disputes that are open or under review
    asked,      \* the ApprovalRequest rows
    ranBy,      \* who executed each request (not in the code: for the properties)
    job         \* what each official's handler does next, and the row it holds

vars == <<overlap, dual, now, event, disputes, asked, ranBy, job>>

(* ApprovalRequest.Status, and "NONE" before the row exists.                 *)
Decided == {"APPROVED", "REJECTED", "EXECUTED", "FAILED", "CANCELLED", "EXPIRED"}
Status == Decided \cup {"NONE", "PENDING"}

Request == [action : Kinds, status : Status, by : Officials \cup {Nobody},
            decider : Officials \cup {Nobody}, expires : 0..(MaxTime + Lifetime), newEnd : 0..MaxTime]
Blank == [action |-> "other", status |-> "NONE", by |-> Nobody, decider |-> Nobody,
          expires |-> 0, newEnd |-> 0]

Event == [status : {"OPEN", "CLOSED", "ARCHIVED"}, end : 0..MaxTime, frozen : BOOLEAN, hold : BOOLEAN]

Ops == {"idle", "loaded", "self", "execute", "extend", "succeeded", "failed"}
Job == [op : Ops, r : Requests \cup {Nobody}, row : Request]
Idle == [op |-> "idle", r |-> Nobody, row |-> Blank]

Init ==
    /\ overlap \in BOOLEAN /\ dual \in BOOLEAN
    /\ now = 0
    /\ event = [status |-> "OPEN", end |-> FirstEnd, frozen |-> TRUE, hold |-> FALSE]
    /\ disputes = {}
    /\ asked = [r \in Requests |-> Blank]
    /\ ranBy = [r \in Requests |-> {}]
    /\ job = [o \in Officials |-> Idle]

MayStart(o) ==
    /\ job[o] = Idle
    /\ overlap \/ \A p \in Officials : job[p] = Idle

Goes(o, op) == job' = [job EXCEPT ![o].op = op]
Ends(o) == job' = [job EXCEPT ![o] = Idle]
Stays == UNCHANGED <<overlap, dual>>

-----------------------------------------------------------------------------
(* request_approval, with the checks of its callers: unfreeze() refuses once *)
(* voting has closed; an extension or a release may be asked for at any time.*)
Ask(o, r, action, newEnd) ==
    /\ MayStart(o)
    /\ asked[r].status = "NONE"
    /\ action = "unfreeze" => event.status = "OPEN"
    /\ (newEnd # 0) = (action = "extend")
    /\ LET row == [action |-> action, status |-> "PENDING", by |-> o, decider |-> Nobody,
                   expires |-> now + Lifetime, newEnd |-> newEnd]
       IN /\ asked' = [asked EXCEPT ![r] = row]
          /\ job' = IF dual THEN job ELSE [job EXCEPT ![o] = [op |-> "self", r |-> r, row |-> row]]
    /\ UNCHANGED <<now, event, disputes, ranBy>> /\ Stays

(* No second person is needed: the requester's own approval is saved.        *)
ApproveOwn(o) ==
    /\ job[o].op = "self"
    /\ LET row == [job[o].row EXCEPT !.status = "APPROVED", !.decider = o]
       IN /\ asked' = [asked EXCEPT ![job[o].r] = row]
          /\ job' = [job EXCEPT ![o] = [@ EXCEPT !.op = "execute", !.row = row]]
    /\ UNCHANGED <<now, event, disputes, ranBy>> /\ Stays

(* The view approvals: the row is loaded ...                                 *)
Load(o, r) ==
    /\ MayStart(o)
    /\ asked[r].status # "NONE"
    /\ job' = [job EXCEPT ![o] = [op |-> "loaded", r |-> r, row |-> asked[r]]]
    /\ UNCHANGED <<now, event, disputes, asked, ranBy>> /\ Stays

(* decide(): "This request has already been decided."                        *)
Undecided(row) == row.status = "PENDING"

(* Mutant of SecondPerson: the requester may decide.                         *)
AnyApprover(o, row) == o \in Approvers

(* decide(): the permission, and the separation of duties.                   *)
SecondPerson(o, row) == o \in Approvers /\ o # row.by

(* ... cancelled by the one who asked (the status alone is written) ...      *)
Cancel(o) ==
    /\ job[o].op = "loaded"
    /\ job[o].row.by = o /\ job[o].row.status = "PENDING"
    /\ asked' = [asked EXCEPT ![job[o].r].status = "CANCELLED"]
    /\ Ends(o)
    /\ UNCHANGED <<now, event, disputes, ranBy>> /\ Stays

(* ... found too old ...                                                     *)
Expire(o) ==
    /\ job[o].op = "loaded"
    /\ Undecided(job[o].row) /\ job[o].row.expires <= now
    /\ asked' = [asked EXCEPT ![job[o].r].status = "EXPIRED"]
    /\ Ends(o)
    /\ UNCHANGED <<now, event, disputes, ranBy>> /\ Stays

(* ... or decided, and saved whole.                                          *)
Decide(o, approve) ==
    /\ job[o].op = "loaded"
    /\ Undecided(job[o].row) /\ job[o].row.expires > now
    /\ SecondPerson(o, job[o].row)
    /\ LET row == [job[o].row EXCEPT !.decider = o,
                                     !.status = IF approve THEN "APPROVED" ELSE "REJECTED"]
       IN /\ asked' = [asked EXCEPT ![job[o].r] = row]
          /\ job' = [job EXCEPT ![o] = IF approve THEN [@ EXCEPT !.op = "execute", !.row = row]
                                       ELSE Idle]
    /\ UNCHANGED <<now, event, disputes, ranBy>> /\ Stays

(* The worker dies, or the handler refuses: nothing more is written.         *)
GiveUp(o) ==
    /\ job[o] # Idle
    /\ Ends(o)
    /\ UNCHANGED <<now, event, disputes, asked, ranBy>> /\ Stays

-----------------------------------------------------------------------------
(* _execute: the executor, in a transaction of its own ...                   *)

Ran(o) == ranBy' = [ranBy EXCEPT ![job[o].r] = @ \cup {o}]

ExecUnfreeze(o) ==
    /\ job[o].op = "execute" /\ job[o].row.action = "unfreeze"
    /\ event' = [event EXCEPT !.frozen = FALSE]
    /\ Ran(o) /\ Goes(o, "succeeded")
    /\ UNCHANGED <<now, disputes, asked>> /\ Stays

ExecRelease(o) ==
    /\ job[o].op = "execute" /\ job[o].row.action = "release"
    /\ event' = [event EXCEPT !.hold = FALSE]
    /\ Ran(o) /\ Goes(o, "succeeded")
    /\ UNCHANGED <<now, disputes, asked>> /\ Stays

(* Reopening, decertifying, resetting codes and refunding are other modules' *)
(* business: here they succeed or fail.                                      *)
ExecOther(o) ==
    /\ job[o].op = "execute" /\ job[o].row.action = "other"
    /\ \/ Ran(o) /\ Goes(o, "succeeded")
       \/ UNCHANGED ranBy /\ Goes(o, "failed")
    /\ UNCHANGED <<now, event, disputes, asked>> /\ Stays

(* Mutant of Lengthens: only the clock is looked at.                         *)
InTheFuture(newEnd) == newEnd > now

(* _exec_extend: later than both now and the current end time.               *)
Lengthens(newEnd) == newEnd > now /\ newEnd > event.end

(* _exec_extend reads the election and judges it ...                         *)
ExecExtendRead(o) ==
    /\ job[o].op = "execute" /\ job[o].row.action = "extend"
    /\ Goes(o, IF Lengthens(job[o].row.newEnd) /\ event.status = "OPEN" THEN "extend" ELSE "failed")
    /\ UNCHANGED <<now, event, disputes, asked, ranBy>> /\ Stays

(* ... and sets the end date.                                                *)
ExecExtendSave(o) ==
    /\ job[o].op = "extend"
    /\ event' = [event EXCEPT !.end = job[o].row.newEnd]
    /\ Ran(o) /\ Goes(o, "succeeded")
    /\ UNCHANGED <<now, disputes, asked>> /\ Stays

(* ... and its outcome, saved with the whole row.                            *)
Outcome(o) == IF job[o].op = "succeeded" THEN "EXECUTED" ELSE "FAILED"

Record(o) ==
    /\ job[o].op \in {"succeeded", "failed"}
    /\ asked' = [asked EXCEPT ![job[o].r] = [job[o].row EXCEPT !.status = Outcome(o)]]
    /\ Ends(o)
    /\ UNCHANGED <<now, event, disputes, ranBy>> /\ Stays

-----------------------------------------------------------------------------
(* The election they act on.                                                 *)
RowOnly == UNCHANGED <<now, disputes, asked, ranBy, job>> /\ Stays

(* _effect_close: by an official, or by the tick when the end date passes.   *)
CloseVoting ==
    /\ event.status = "OPEN"
    /\ event' = [event EXCEPT !.status = "CLOSED", !.end = IF @ <= now THEN @ ELSE now, !.frozen = TRUE]
    /\ RowOnly

(* set_legal_hold and freeze(): at once, with no second person.              *)
PlaceHold == ~event.hold /\ event' = [event EXCEPT !.hold = TRUE] /\ RowOnly
Freeze == ~event.frozen /\ event' = [event EXCEPT !.frozen = TRUE] /\ RowOnly

(* _guard_archive, under the lock of the election.                           *)
Archive ==
    /\ event.status = "CLOSED"
    /\ ~event.hold /\ disputes = {}
    /\ event' = [event EXCEPT !.status = "ARCHIVED"]
    /\ RowOnly

(* file_dispute and update_dispute.                                          *)
FileDispute(d) ==
    /\ disputes' = disputes \cup {d}
    /\ UNCHANGED <<now, event, asked, ranBy, job>> /\ Stays

SettleDispute(d) ==
    /\ disputes' = disputes \ {d}
    /\ UNCHANGED <<now, event, asked, ranBy, job>> /\ Stays

Tick ==
    /\ now < MaxTime
    /\ now' = now + 1
    /\ UNCHANGED <<event, disputes, asked, ranBy, job>> /\ Stays

Handler(o) ==
    \/ \E r \in Requests, action \in Actions, newEnd \in 0..MaxTime : Ask(o, r, action, newEnd)
    \/ \E r \in Requests : Load(o, r)
    \/ ApproveOwn(o) \/ Cancel(o) \/ Expire(o)
    \/ \E approve \in BOOLEAN : Decide(o, approve)
    \/ ExecUnfreeze(o) \/ ExecRelease(o) \/ ExecOther(o) \/ ExecExtendRead(o) \/ ExecExtendSave(o)
    \/ Record(o) \/ GiveUp(o)

Casework ==
    \/ CloseVoting \/ PlaceHold \/ Freeze \/ Archive
    \/ \E d \in Disputes : FileDispute(d) \/ SettleDispute(d)

Next == (\E o \in Officials : Handler(o)) \/ Casework \/ Tick

Spec == Init /\ [][Next]_vars

-----------------------------------------------------------------------------
(* Correctness. *)

TypeOK ==
    /\ overlap \in BOOLEAN /\ dual \in BOOLEAN
    /\ now \in 0..MaxTime
    /\ event \in Event
    /\ disputes \subseteq Disputes
    /\ asked \in [Requests -> Request]
    /\ ranBy \in [Requests -> SUBSET Officials]
    /\ job \in [Officials -> Job]

(* decide(): under dual control nothing is executed by the person who asked  *)
(* for it, however many handlers overlap and whoever's row was saved last.   *)
TwoPeople == dual => \A r \in Requests : asked[r].by \notin ranBy[r]

(* decide(), _execute: when handlers do not overlap, a request is executed   *)
(* at most once, and what its row says is what happened, even if the worker  *)
(* dies between the execution and the record of it: an approved request may  *)
(* have been executed, a rejected, cancelled, expired or failed one was not. *)
OutcomeIsTold ==
    ~overlap => \A r \in Requests :
        /\ Cardinality(ranBy[r]) <= 1
        /\ asked[r].status \in {"NONE", "PENDING", "REJECTED", "CANCELLED", "EXPIRED", "FAILED"}
              => ranBy[r] = {}
        /\ asked[r].status = "EXECUTED" => ranBy[r] # {}

(* Both.                                                                     *)
ApprovalsHold == TwoPeople /\ OutcomeIsTold

(* _exec_extend: "later than both now and the current end time". An          *)
(* extension never takes voting time away, and a closed election stays so:   *)
(* only the closing itself brings the end forward.                           *)
ExtensionsLengthen ==
    [][~overlap /\ event'.end < event.end => event.status = "OPEN" /\ event'.status = "CLOSED"]_vars
=============================================================================
