------------------------------ MODULE Lifecycle ------------------------------
(***************************************************************************)
(* The life of one election, from draft to archive: the officials' actions *)
(* (a transition runs under the row lock of the election), the edits that  *)
(* are allowed in each state and reset an approval, the scheduler's tick,  *)
(* freezes, and the sensitive actions executed after an approval request.  *)
(*                                                                         *)
(* Grain of atomicity.  A transition re-reads the row under its lock, so   *)
(* it is one action.  An edit and a tick work on a row they loaded before: *)
(* they are a read, kept in req[r].row, and the statements that follow.    *)
(***************************************************************************)
EXTENDS Naturals

CONSTANTS
    Officials,       \* people who may act on the election
    Nobody,          \* no official (NULL)
    Requests,        \* handlers in progress (web requests, scheduler runs)
    Modes,           \* the voting modes an election may have
    DualApproval,    \* Event.dual_approval_required
    SelfRegistration,\* Event.allow_self_registration
    OneAtATime,      \* a handler finishes before anything else happens
    ConsoleActions,  \* the transitions posted to the console
    FreezeScopes,    \* the scopes officials freeze
    Askable,         \* the sensitive actions they request
    StartDate, EndDate, ExtendedEnd, MaxTime,
    MaxEdits         \* bound on edits of the configuration

Scopes == {"config", "ballot", "candidates", "voters"}
Live == {"OPEN", "PAUSED"}
Final == {"CLOSED", "TALLYING", "CERTIFIED", "PUBLISHED", "ARCHIVED"}   \* LOCKED_STATES
Statuses == {"DRAFT", "REVIEW", "APPROVED", "SCHEDULED"} \cup Live \cup Final
Approvals == {"unfreeze", "extend", "reopen", "decertify"}

ASSUME LifecycleAssumption ==
    /\ Nobody \notin Officials
    /\ Modes \subseteq {"institutional", "paid"}
    /\ DualApproval \in BOOLEAN /\ SelfRegistration \in BOOLEAN
    /\ OneAtATime \in BOOLEAN
    /\ FreezeScopes \subseteq Scopes /\ Askable \subseteq Approvals
    /\ MaxTime \in Nat /\ {StartDate, EndDate, ExtendedEnd} \subseteq 0..MaxTime
    /\ StartDate <= EndDate
    /\ MaxEdits \in Nat

VARIABLES
    event,     \* the election row
    ballot,    \* version of the positions and candidates (tables of their own)
    key,       \* an ElectionKey exists
    signed,    \* the latest signed snapshot: versions of settings and ballot
    edits,     \* how many edits were made: the next version
    asked,     \* sensitive actions whose approval request is pending
    now,
    req        \* handler -> what it does next, and the row it loaded

vars == <<event, ballot, key, signed, edits, asked, now, req>>

Row == [mode : {"institutional", "paid"}, status : Statuses, start : 0..MaxTime, end : 0..MaxTime,
        submittedBy : Officials \cup {Nobody}, reviewedBy : Officials \cup {Nobody},
        frozen : SUBSET Scopes, settings : 0..MaxEdits]

NewEvent(mode) == [mode |-> mode, status |-> "DRAFT", start |-> StartDate, end |-> EndDate,
                   submittedBy |-> Nobody, reviewedBy |-> Nobody, frozen |-> {}, settings |-> 0]
Idle == [op |-> "idle", scope |-> "config", at |-> 0, row |-> NewEvent("paid")]

(* Event.is_institutional: a secret-ballot election, otherwise a paid one.   *)
Institutional(row) == row.mode = "institutional"

Init ==
    /\ event \in {NewEvent(mode) : mode \in Modes}
    /\ ballot = 0 /\ edits = 0 /\ key = FALSE
    /\ signed = [settings |-> 0, ballot |-> 0]
    /\ asked = {}
    /\ now = 0
    /\ req = [r \in Requests |-> Idle]

(* Whoever waits for the handlers in progress. *)
Quiet == OneAtATime => \A r \in Requests : req[r] = Idle
End(r) == req' = [req EXCEPT ![r] = Idle]
Earlier(a, b) == IF a <= b THEN a ELSE b

-----------------------------------------------------------------------------
(* transition(): one action per entry of ACTIONS.  Row is the row as locked, *)
(* with its new status; the effect changes it further and it is saved whole. *)
From(sources) == event.status \in sources
Becoming(target) == [event EXCEPT !.status = target]
RowOnly == UNCHANGED <<ballot, key, signed, edits, asked, now, req>>

Submit(o) ==
    /\ From({"DRAFT"})
    /\ event' = [Becoming("REVIEW") EXCEPT !.submittedBy = o]
    /\ RowOnly

Withdraw ==
    /\ From({"REVIEW"})
    /\ event' = [Becoming("DRAFT") EXCEPT !.submittedBy = Nobody]
    /\ RowOnly

(* Mutant of MayApprove: the guard is forgotten. *)
MayApproveOwn(o) == TRUE

(* _guard_approve: separation of duties. *)
MayApprove(o) == DualApproval => event.submittedBy # o

Approve(o) ==
    /\ From({"REVIEW"})
    /\ MayApprove(o)
    /\ event' = [Becoming("APPROVED") EXCEPT !.reviewedBy = o]
    /\ signed' = [settings |-> event.settings, ballot |-> ballot]
    /\ UNCHANGED <<ballot, key, edits, asked, now, req>>

Reject ==
    /\ From({"REVIEW"})
    /\ event' = Becoming("DRAFT")
    /\ RowOnly

(* Mutant of KeyAtSchedule: the key is left to the opening. *)
KeyOnlyAtOpening == key

(* _effect_schedule: ensure_election_key. *)
KeyAtSchedule == key \/ Institutional(event)

Schedule ==
    /\ From({"APPROVED"})
    /\ event.end > now
    /\ event' = Becoming("SCHEDULED")
    /\ key' = KeyAtSchedule
    /\ UNCHANGED <<ballot, signed, edits, asked, now, req>>

Unschedule ==
    /\ From({"SCHEDULED"})
    /\ event' = Becoming("APPROVED")
    /\ RowOnly

(* _effect_open. *)
Opened(row) ==
    [row EXCEPT !.start = Earlier(@, now),
                !.frozen = IF ~Institutional(row) THEN @
                           ELSE @ \cup (Scopes \ IF SelfRegistration THEN {"voters"} ELSE {})]

(* _guard_open, and the key it makes sure of. *)
Open ==
    /\ From({"SCHEDULED"})
    /\ now < event.end
    /\ event' = Opened(Becoming("OPEN"))
    /\ key' = (key \/ Institutional(event))
    /\ UNCHANGED <<ballot, signed, edits, asked, now>>

OpenNow == Open /\ UNCHANGED req

Pause ==
    /\ From({"OPEN"})
    /\ event' = Becoming("PAUSED")
    /\ RowOnly

Resume ==
    /\ From({"PAUSED"})
    /\ now < event.end
    /\ event' = Becoming("OPEN")
    /\ RowOnly

(* _effect_close. *)
Closed == [Becoming("CLOSED") EXCEPT !.end = Earlier(@, now), !.frozen = Scopes]

Close ==
    /\ From(Live)
    /\ event' = Closed
    /\ UNCHANGED <<ballot, key, signed, edits, asked, now>>

CloseNow == Close /\ UNCHANGED req

Reopened(newEnd) == [Opened(Becoming("OPEN")) EXCEPT !.end = newEnd]

(* 'reopen_voting' posted to the console, which offers it to nobody but      *)
(* passes on whatever action is named.                                       *)
ReopenFromConsole ==
    /\ From({"CLOSED"})
    /\ event' = Reopened(event.end)
    /\ RowOnly

(* The tally and what follows: only the status is of interest here.          *)
StartTally == From({"CLOSED"}) /\ event' = Becoming("TALLYING") /\ RowOnly
Certify == From({"TALLYING"}) /\ event' = Becoming("CERTIFIED") /\ RowOnly
Publish == From({"CERTIFIED"}) /\ event' = Becoming("PUBLISHED") /\ RowOnly
Decertify == From({"CERTIFIED", "PUBLISHED"}) /\ event' = Becoming("TALLYING") /\ RowOnly
Archive == From({"PUBLISHED", "CLOSED", "DRAFT"}) /\ event' = Becoming("ARCHIVED") /\ RowOnly

Console(o) ==
    \/ "submit" \in ConsoleActions /\ Submit(o)
    \/ "withdraw" \in ConsoleActions /\ Withdraw
    \/ "approve" \in ConsoleActions /\ Approve(o)
    \/ "reject" \in ConsoleActions /\ Reject
    \/ "schedule" \in ConsoleActions /\ Schedule
    \/ "unschedule" \in ConsoleActions /\ Unschedule
    \/ "open" \in ConsoleActions /\ OpenNow
    \/ "pause" \in ConsoleActions /\ Pause
    \/ "resume" \in ConsoleActions /\ Resume
    \/ "close" \in ConsoleActions /\ CloseNow
    \/ "start_tally" \in ConsoleActions /\ StartTally
    \/ "publish" \in ConsoleActions /\ Publish
    \/ "archive" \in ConsoleActions /\ Archive
    \/ "reopen_voting" \in ConsoleActions /\ ReopenFromConsole
    \/ "decertify" \in ConsoleActions /\ Decertify

-----------------------------------------------------------------------------
(* Edits. *)

(* Mutants of Resets: an approved election is edited in place; an open one   *)
(* is returned to draft like it.                                             *)
NeverResets(row, scope) == FALSE
ResetsUnlessDraft(row, scope) == row.status # "DRAFT" /\ scope # "voters"

(* edit_policy: which edits the loaded row allows ...                        *)
Editable(row, scope) ==
    /\ row.status \notin Final \cup {"REVIEW"}
    /\ scope \notin row.frozen
    /\ row.status \in Live => scope = "voters" \/ (~Institutional(row) /\ scope # "config")

(* ... and which of them return the election to draft.                       *)
Resets(row, scope) == row.status \in {"APPROVED", "SCHEDULED"} /\ scope # "voters"

(* settings_view, the API's PATCH, positions, candidates: the row is loaded  *)
(* and judged ...                                                            *)
EditStart(r, scope) ==
    /\ req[r] = Idle
    /\ edits < MaxEdits
    /\ Editable(event, scope)
    /\ req' = [req EXCEPT ![r] =
                IF Resets(event, scope)
                THEN [op |-> "reset", scope |-> scope, at |-> 0, row |-> Becoming("DRAFT")]
                ELSE [op |-> "save", scope |-> scope, at |-> 0, row |-> event]]
    /\ UNCHANGED <<event, ballot, key, signed, edits, asked, now>>

(* ... the approval is taken back, whatever the status is by then ...        *)
EditReset(r) ==
    /\ req[r].op = "reset"
    /\ event' = [Becoming("DRAFT") EXCEPT !.reviewedBy = Nobody]
    /\ req' = [req EXCEPT ![r].op = "save"]
    /\ UNCHANGED <<ballot, key, signed, edits, asked, now>>

(* ... and the edit is saved: settings with the whole loaded row, positions  *)
(* and candidates in their own tables.                                       *)
EditSave(r) ==
    /\ req[r].op = "save"
    /\ edits < MaxEdits
    /\ edits' = edits + 1
    /\ IF req[r].scope = "config"
       THEN event' = [req[r].row EXCEPT !.settings = edits + 1] /\ ballot' = ballot
       ELSE ballot' = edits + 1 /\ event' = event
    /\ End(r)
    /\ UNCHANGED <<key, signed, asked, now>>

(* The validation fails, or the worker dies. *)
Abandon(r) ==
    /\ req[r] # Idle
    /\ End(r)
    /\ UNCHANGED <<event, ballot, key, signed, edits, asked, now>>

-----------------------------------------------------------------------------
(* Freezes and the actions that need an approval request. *)

Freeze(scope) ==
    /\ event' = [event EXCEPT !.frozen = @ \cup {scope}]
    /\ RowOnly

(* request_approval; unfreeze() refuses once voting has closed, the view of  *)
(* the others asks for nothing. The decision on the request is left to      *)
(* chance: it may be executed at any later time, or never.                 *)
Request(action) ==
    /\ action = "unfreeze" => event.status \notin Final
    /\ asked' = asked \cup {action}
    /\ UNCHANGED <<event, ballot, key, signed, edits, now, req>>

Executes(action) == action \in asked /\ asked' = asked \ {action}

ExecUnfreeze ==
    /\ Executes("unfreeze")
    /\ \E scope \in Scopes : event' = [event EXCEPT !.frozen = @ \ {scope}]
    /\ UNCHANGED <<ballot, key, signed, edits, now, req>>

(* _exec_extend reads and checks the row ...                                 *)
ExecExtendCheck(r) ==
    /\ req[r] = Idle
    /\ Executes("extend")
    /\ ExtendedEnd > now /\ ExtendedEnd > event.end
    /\ event.status \in Live \cup {"SCHEDULED"}
    /\ req' = [req EXCEPT ![r] = [Idle EXCEPT !.op = "extend"]]
    /\ UNCHANGED <<event, ballot, key, signed, edits, now>>

(* ... then sets the end date.                                               *)
ExecExtendSave(r) ==
    /\ req[r].op = "extend"
    /\ event' = [event EXCEPT !.end = ExtendedEnd]
    /\ End(r)
    /\ UNCHANGED <<ballot, key, signed, edits, asked, now>>

(* _exec_reopen. *)
ExecReopen ==
    /\ Executes("reopen")
    /\ ExtendedEnd > now
    /\ From({"CLOSED"})
    /\ event' = Reopened(ExtendedEnd)
    /\ UNCHANGED <<ballot, key, signed, edits, now, req>>

ExecDecertify ==
    /\ Executes("decertify")
    /\ From({"CERTIFIED", "PUBLISHED"})
    /\ event' = Becoming("TALLYING")
    /\ UNCHANGED <<ballot, key, signed, edits, now, req>>

-----------------------------------------------------------------------------
(* The scheduler, and every page that shows an election: tick(). *)

ToOpen(row) == row.status = "SCHEDULED" /\ now >= row.start

ToClose(row) == row.status \in Live /\ now >= row.end

(* The row is loaded, and found due ...                                      *)
TickRead(r) ==
    /\ req[r] = Idle
    /\ ToOpen(event) \/ ToClose(event)
    /\ req' = [req EXCEPT ![r] = [op |-> IF ToOpen(event) THEN "open" ELSE "close",
                                  scope |-> "config", at |-> now, row |-> event]]
    /\ UNCHANGED <<event, ballot, key, signed, edits, asked, now>>

(* Mutant of CatchesUp: the guard is never skipped. *)
NeverCatchesUp(r) == FALSE

(* The scheduler was down for the whole window. *)
CatchesUp(r) == req[r].at >= req[r].row.end

(* ... opened, past its end if need be, and closed again if it is over ...   *)
TickOpen(r) ==
    /\ req[r].op = "open"
    /\ IF CatchesUp(r)
       THEN /\ From({"SCHEDULED"})
            /\ event' = Opened(Becoming("OPEN"))
            /\ UNCHANGED <<ballot, key, signed, edits, asked, now>>
       ELSE Open
    /\ req' = [req EXCEPT ![r] = IF req[r].at >= event.end
                                 THEN [req[r] EXCEPT !.op = "close"] ELSE Idle]

(* ... or closed, whatever its end date is by then.                          *)
TickClose(r) ==
    /\ req[r].op = "close"
    /\ Close
    /\ End(r)

ClockTick ==
    /\ now < MaxTime
    /\ now' = now + 1
    /\ UNCHANGED <<event, ballot, key, signed, edits, asked, req>>

-----------------------------------------------------------------------------
Starts(r) ==
    \/ \E scope \in {"config", "ballot"} : EditStart(r, scope)
    \/ ExecExtendCheck(r)
    \/ TickRead(r)

Continues(r) ==
    \/ EditReset(r) \/ EditSave(r) \/ ExecExtendSave(r)
    \/ TickOpen(r) \/ TickClose(r) \/ Abandon(r)

Officialdom ==
    \/ \E o \in Officials : Console(o)
    \/ \E scope \in FreezeScopes : Freeze(scope)
    \/ \E action \in Askable : Request(action)
    \/ ExecUnfreeze \/ ExecReopen \/ ExecDecertify \/ Certify

Next ==
    \/ \E r \in Requests : Continues(r)
    \/ Quiet /\ ((\E r \in Requests : Starts(r)) \/ Officialdom)
    \/ ClockTick

Spec == Init /\ [][Next]_vars

(* The beat scheduler runs the tick every minute, and a worker finishes what *)
(* it started unless it dies; if workers die now and then, some later run    *)
(* gets through.                                                             *)
Fairness ==
    /\ \A r \in Requests : WF_vars(Continues(r))
    /\ \A r \in Requests : SF_vars(TickRead(r)) /\ SF_vars(TickOpen(r)) /\ SF_vars(TickClose(r))

FairSpec == Spec /\ Fairness

-----------------------------------------------------------------------------
(* Correctness. *)

(* Every variable has its type, and the voting window is never inverted,     *)
(* whichever of early opening, closing, extension and late saves moved it.   *)
TypeOK ==
    /\ event \in Row /\ event.start <= event.end
    /\ ballot \in 0..MaxEdits /\ edits \in 0..MaxEdits
    /\ key \in BOOLEAN
    /\ signed \in [settings : 0..MaxEdits, ballot : 0..MaxEdits]
    /\ asked \subseteq Approvals
    /\ now \in 0..MaxTime
    /\ req \in [Requests -> [op : {"idle", "reset", "save", "extend", "open", "close"},
                             scope : Scopes, at : 0..MaxTime, row : Row]]

Approved == {"APPROVED", "SCHEDULED"} \cup Live \cup {"CLOSED", "TALLYING", "CERTIFIED", "PUBLISHED"}

(* Separation of duties: nothing is scheduled, opened or counted that was    *)
(* approved by the person who submitted it, although edits write back whole  *)
(* rows that were loaded before the submission and the approval.             *)
FourEyes ==
    DualApproval /\ event.status \in Approved
        => event.reviewedBy # Nobody /\ event.reviewedBy # event.submittedBy

(* A secret-ballot election that accepts ballots can encrypt them: its key   *)
(* exists, even when the scheduler opened it late without the guard.         *)
LiveHasKey == Institutional(event) /\ event.status \in Live => key

(* edit_policy: what is put to the vote is what was approved and signed; any *)
(* change takes the approval back, and none is possible while it is open.    *)
ApprovedIsUnchanged ==
    Institutional(event) /\ event.status \in Approved
        => signed = [settings |-> event.settings, ballot |-> ballot]

(* No edit returns an election to preparation once voting has begun.         *)
NoWayBack ==
    [][event.status \in Live \cup Final
         => event'.status \in Live \cup Final]_vars

(* tick: an election whose whole window has passed does not stay scheduled   *)
(* or open: it is opened and closed, unless an official withdrew it or it    *)
(* was extended.                                                             *)
CatchUp == (event.status \in {"SCHEDULED"} \cup Live /\ now >= event.end /\ now >= event.start)
              ~> (event.status \notin {"SCHEDULED"} \cup Live \/ now < event.end)
=============================================================================
