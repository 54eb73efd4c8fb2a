------------------------------ MODULE Casting ------------------------------
(***************************************************************************)
(* The ballot box of one institutional (secret-ballot) election: the voter *)
(* roll, the single-use authorizations, the ballots, and every handler     *)
(* that writes to them while voting is open, as concurrent requests on     *)
(* PostgreSQL at READ COMMITTED.                                           *)
(*                                                                         *)
(* Grain of atomicity.  Requests run without ATOMIC_REQUESTS, so a handler *)
(* is one action per committed statement or per transaction.atomic()       *)
(* block.  A block that only touches rows it has locked is one action, run *)
(* when no other request holds those rows.  The cast block is two actions, *)
(* because it reads the election row without locking it: CastLock takes    *)
(* the authorization row and reads the election, CastCommit takes the      *)
(* voter row and commits.  An authorization row is locked exactly while a  *)
(* cast holds it, and every statement that updates or deletes it waits.    *)
(* Whatever a handler read before its own write is kept in req[r].seen.    *)
(***************************************************************************)
EXTENDS Naturals

CONSTANTS
    Voters,            \* the people the roll is about
    Tokens,            \* ballot tokens that may be drawn (bound on issuing)
    Requests,          \* concurrent web requests
    NoVoter, NoToken,  \* "no row"
    MaxTime,           \* bound on the clock
    EndDate,           \* Event.end_date
    TTL,               \* AUTHORIZATION_TTL
    OfficialStatuses,  \* the statuses officials assign through set_status
    RollFrozen         \* Event.voter_list_frozen while voting is open

CanVote == {"ELIGIBLE", "VERIFIED"}
Barred == {"SUSPENDED", "INELIGIBLE"}
VoterStatus == CanVote \cup Barred \cup {"VOTED", "REMOVED"}
AuthStatus == {"NONE", "ISSUED", "CONSUMED", "REVOKED", "EXPIRED", "DELETED"}
EventStatus == {"OPEN", "PAUSED", "CLOSED", "TALLYING", "CERTIFIED"}
Ops == {"idle", "cast", "issue", "otp", "status", "revoke", "reset", "import",
        "remove", "removeRow", "clearRows"}

ASSUME CastingAssumption ==
    /\ NoVoter \notin Voters /\ NoToken \notin Tokens
    /\ MaxTime \in Nat /\ EndDate \in Nat /\ TTL \in Nat
    /\ OfficialStatuses \subseteq CanVote \cup Barred
    /\ RollFrozen \in BOOLEAN

VARIABLES
    status,    \* Event.status
    now,       \* the database clock
    roll,      \* person -> the Voter row ("REMOVED": there is none)
    auth,      \* token -> the VoteAuthorization row ("NONE": not drawn yet)
    ballots,   \* token -> ballot rows its casts inserted; the code stores no such link
    counted,   \* the official result: whether there is one, and the ballots in it
    req        \* request -> the handler it is in, and what that handler read earlier

vars == <<status, now, roll, auth, ballots, counted, req>>

VoterRow == [status : VoterStatus, code : BOOLEAN]
Authorization == [voter : Voters \cup {NoVoter}, status : AuthStatus, expires : 0..EndDate]
Request == [op : Ops, voter : Voters \cup {NoVoter}, token : Tokens \cup {NoToken},
            seen : VoterRow]

NoRow == [status |-> "REMOVED", code |-> FALSE]
Idle == [op |-> "idle", voter |-> NoVoter, token |-> NoToken, seen |-> NoRow]
Doing(op, v, row) == [op |-> op, voter |-> v, token |-> NoToken, seen |-> row]

(* Event.accepting_votes(); the model starts after start_date. *)
AcceptingVotes == status = "OPEN" /\ now < EndDate

(* The authorizations a status holds for one voter. *)
HeldBy(v, s) == {t \in Tokens : auth[t].voter = v /\ auth[t].status = s}

(* A cast has the authorization row under SELECT ... FOR UPDATE. *)
Locked(t) == \E r \in Requests : req[r].op = "cast" /\ req[r].token = t

(* Mutants of Revoked: every row of the voter, whatever its status; and the  *)
(* statement forgotten.                                                      *)
RevokedWhateverItsStatus(v) ==
    [t \in Tokens |-> IF auth[t].voter = v THEN [auth[t] EXCEPT !.status = "REVOKED"]
                                           ELSE auth[t]]
RevokedNothing(v) == auth

(* UPDATE ... SET status='REVOKED' WHERE voter=v AND status='ISSUED'. *)
Revoked(v) == [t \in Tokens |-> IF t \in HeldBy(v, "ISSUED")
                                THEN [auth[t] EXCEPT !.status = "REVOKED"] ELSE auth[t]]

(* No row the statement would touch is locked, so it need not wait. *)
CanRevoke(v) == \A t \in HeldBy(v, "ISSUED") : ~Locked(t)

(* expires_at: half an hour from now, and never past the end of voting. *)
Expiry == IF now + TTL <= EndDate THEN now + TTL ELSE EndDate

Init ==
    /\ status = "OPEN"
    /\ now = 0
    /\ roll = [v \in Voters |-> [status |-> "ELIGIBLE", code |-> TRUE]]
    /\ auth = [t \in Tokens |-> [voter |-> NoVoter, status |-> "NONE", expires |-> 0]]
    /\ ballots = [t \in Tokens |-> 0]
    /\ counted = [done |-> FALSE, trackers |-> {}]
    /\ req = [r \in Requests |-> Idle]

Begin(r, op, v, row) ==
    /\ req[r] = Idle
    /\ req' = [req EXCEPT ![r] = Doing(op, v, row)]

End(r) == req' = [req EXCEPT ![r] = Idle]

-----------------------------------------------------------------------------
(* Sign-in and the ballot page. *)

(* issue_authorization reads the election before its transaction. *)
IssueStart(r, v) ==
    /\ AcceptingVotes
    /\ roll[v].status # "REMOVED"
    /\ Begin(r, "issue", v, NoRow)
    /\ UNCHANGED <<status, now, roll, auth, ballots, counted>>

(* Its transaction: voter row locked and re-checked, earlier unused          *)
(* authorizations revoked, a new one created.                                *)
IssueCommit(r) ==
    /\ req[r].op = "issue"
    /\ LET v == req[r].voter IN
       /\ roll[v].status \in CanVote
       /\ CanRevoke(v)
       /\ \E t \in Tokens :
            /\ auth[t].status = "NONE"
            /\ auth' = [Revoked(v) EXCEPT ![t] = [voter |-> v, status |-> "ISSUED",
                                                  expires |-> Expiry]]
    /\ End(r)
    /\ UNCHANGED <<status, now, roll, ballots, counted>>

(* The one-time-code page: the Voter row is loaded, the code accepted ...     *)
OtpVerify(r, v) ==
    /\ roll[v].status # "REMOVED"
    /\ Begin(r, "otp", v, roll[v])
    /\ UNCHANGED <<status, now, roll, auth, ballots, counted>>

(* ... and the loaded status is written back, promoted if it was ELIGIBLE.   *)
OtpSave(r) ==
    /\ req[r].op = "otp"
    /\ LET v == req[r].voter IN
       /\ roll[v].status # "REMOVED"
       /\ roll' = [roll EXCEPT ![v].status = IF req[r].seen.status = "ELIGIBLE"
                                             THEN "VERIFIED" ELSE req[r].seen.status]
    /\ End(r)
    /\ UNCHANGED <<status, now, auth, ballots, counted>>

-----------------------------------------------------------------------------
(* Casting. *)

(* SELECT ... FOR UPDATE on the authorization; status and expiry checked;    *)
(* then a plain read of the election.  A failed check ends the request.      *)
CastLock(r, t) ==
    /\ req[r] = Idle
    /\ ~Locked(t)
    /\ auth[t].status = "ISSUED"
    /\ now < auth[t].expires
    /\ AcceptingVotes
    /\ req' = [req EXCEPT ![r] = [op |-> "cast", voter |-> auth[t].voter, token |-> t,
                                  seen |-> NoRow]]
    /\ UNCHANGED <<status, now, roll, auth, ballots, counted>>

(* Mutant of NoneConsumed: the index is not there. *)
NoIndex(v) == TRUE

(* one_consumed_authorization_per_voter: the partial unique index. *)
NoneConsumed(v) == HeldBy(v, "CONSUMED") = {}

(* Mutant of MayVote: the voter row is locked but not checked again. *)
MayVoteUnchecked(v) == TRUE

(* The check under the voter row's lock. *)
MayVote(v) == roll[v].status \in CanVote

(* Voter row locked and checked, ballot inserted, authorization consumed,    *)
(* voter marked and the access code wiped: one commit.                       *)
CastCommit(r) ==
    /\ req[r].op = "cast"
    /\ LET v == req[r].voter
           t == req[r].token IN
       /\ MayVote(v)
       /\ NoneConsumed(v)
       /\ ballots' = [ballots EXCEPT ![t] = @ + 1]
       /\ auth' = [auth EXCEPT ![t].status = "CONSUMED"]
       /\ roll' = [roll EXCEPT ![v] = [status |-> "VOTED", code |-> FALSE]]
    /\ End(r)
    /\ UNCHANGED <<status, now, counted>>

(* A request ends without finishing: a check under the lock fails, the       *)
(* ballot is invalid, the index refuses the row, a deadlock or statement     *)
(* timeout aborts it, or the worker dies.  Its open transaction is rolled    *)
(* back; what it committed before stays.                                     *)
Abandon(r) ==
    /\ req[r] # Idle
    /\ End(r)
    /\ UNCHANGED <<status, now, roll, auth, ballots, counted>>

-----------------------------------------------------------------------------
(* Officials and the roll. *)

(* set_status checks the row it was given ... *)
SetStatusCheck(r, v, s) ==
    /\ s \in OfficialStatuses
    /\ roll[v].status \notin {"VOTED", "REMOVED"}
    /\ Begin(r, "status", v, [status |-> s, code |-> FALSE])
    /\ UNCHANGED <<status, now, roll, auth, ballots, counted>>

(* ... writes the new status ... *)
SetStatusSave(r) ==
    /\ req[r].op = "status"
    /\ LET v == req[r].voter
           s == req[r].seen.status IN
       /\ roll[v].status # "REMOVED"
       /\ roll' = [roll EXCEPT ![v].status = s]
       /\ req' = [req EXCEPT ![r] = IF s \in Barred THEN Doing("revoke", v, NoRow) ELSE Idle]
    /\ UNCHANGED <<status, now, auth, ballots, counted>>

(* ... and, when it bars the voter, revokes in a statement of its own.       *)
SetStatusRevoke(r) ==
    /\ req[r].op = "revoke"
    /\ CanRevoke(req[r].voter)
    /\ auth' = Revoked(req[r].voter)
    /\ End(r)
    /\ UNCHANGED <<status, now, roll, ballots, counted>>

(* reset_credential (and each voter of reset_all_unused_credentials) checks  *)
(* for VOTED before it takes the row lock ...                                *)
ResetCheck(r, v) ==
    /\ roll[v].status \notin {"VOTED", "REMOVED"}
    /\ Begin(r, "reset", v, NoRow)
    /\ UNCHANGED <<status, now, roll, auth, ballots, counted>>

(* ... and under the lock revokes and stores a new plaintext code.           *)
ResetCommit(r) ==
    /\ req[r].op = "reset"
    /\ LET v == req[r].voter IN
       /\ roll[v].status # "REMOVED"
       /\ CanRevoke(v)
       /\ auth' = Revoked(v)
       /\ roll' = [roll EXCEPT ![v].code = TRUE]
    /\ End(r)
    /\ UNCHANGED <<status, now, ballots, counted>>

(* "Lost my code": the status is checked under the row lock. *)
ResendCode(v) ==
    /\ roll[v].status \in CanVote
    /\ CanRevoke(v)
    /\ auth' = Revoked(v)
    /\ roll' = [roll EXCEPT ![v].code = TRUE]
    /\ UNCHANGED <<status, now, ballots, counted, req>>

(* require_editable(event, 'voters') while voting is open. *)
RollEditable == ~RollFrozen /\ status \in {"OPEN", "PAUSED"}

(* import_voters loads the existing rows ... *)
ImportRead(r, v) ==
    /\ RollEditable
    /\ roll[v].status \notin {"VOTED", "REMOVED"}
    /\ Begin(r, "import", v, roll[v])
    /\ UNCHANGED <<status, now, roll, auth, ballots, counted>>

(* ... and saves every column of each; save() re-inserts a row that is gone. *)
ImportSave(r) ==
    /\ req[r].op = "import"
    /\ roll' = [roll EXCEPT ![req[r].voter] = req[r].seen]
    /\ End(r)
    /\ UNCHANGED <<status, now, auth, ballots, counted>>

(* A person without a row gets a new one, with a code. *)
ImportCreate(v) ==
    /\ RollEditable
    /\ roll[v].status = "REMOVED"
    /\ roll' = [roll EXCEPT ![v] = [status |-> "ELIGIBLE", code |-> TRUE]]
    /\ UNCHANGED <<status, now, auth, ballots, counted, req>>

(* remove_voter: the check ... *)
RemoveCheck(r, v) ==
    /\ RollEditable
    /\ roll[v].status \notin {"VOTED", "REMOVED"}
    /\ HeldBy(v, "CONSUMED") = {}
    /\ Begin(r, "remove", v, NoRow)
    /\ UNCHANGED <<status, now, roll, auth, ballots, counted>>

(* ... DELETE of all the voter's authorizations ... *)
RemoveAuthorizations(r) ==
    /\ req[r].op = "remove"
    /\ LET v == req[r].voter
           mine == {t \in Tokens : auth[t].voter = v /\ auth[t].status # "NONE"} IN
       /\ \A t \in mine : ~Locked(t)
       /\ auth' = [t \in Tokens |-> IF t \in mine THEN [auth[t] EXCEPT !.status = "DELETED"]
                                                  ELSE auth[t]]
       /\ req' = [req EXCEPT ![r] = Doing("removeRow", v, NoRow)]
    /\ UNCHANGED <<status, now, roll, ballots, counted>>

(* The foreign key from the authorizations is PROTECT. *)
Unreferenced(v) == \A t \in Tokens : auth[t].voter = v => auth[t].status = "DELETED"

(* ... DELETE of the row. *)
RemoveRow(r) ==
    /\ req[r].op = "removeRow"
    /\ Unreferenced(req[r].voter)
    /\ roll' = [roll EXCEPT ![req[r].voter] = NoRow]
    /\ End(r)
    /\ UNCHANGED <<status, now, auth, ballots, counted>>

NotVoted == {v \in Voters : roll[v].status \notin {"VOTED", "REMOVED"}}

(* clear_unvoted: first the unconsumed authorizations of all who have not    *)
(* voted ...                                                                 *)
ClearAuthorizations(r) ==
    /\ RollEditable
    /\ NotVoted # {}
    /\ LET gone == {t \in Tokens : /\ auth[t].voter \in NotVoted
                                   /\ auth[t].status \notin {"CONSUMED", "DELETED"}} IN
       /\ \A t \in gone : ~Locked(t)
       /\ auth' = [t \in Tokens |-> IF t \in gone THEN [auth[t] EXCEPT !.status = "DELETED"]
                                                  ELSE auth[t]]
    /\ Begin(r, "clearRows", NoVoter, NoRow)
    /\ UNCHANGED <<status, now, roll, ballots, counted>>

(* ... then their rows, all or none.                                         *)
ClearRows(r) ==
    /\ req[r].op = "clearRows"
    /\ \A v \in NotVoted : Unreferenced(v)
    /\ roll' = [v \in Voters |-> IF v \in NotVoted THEN NoRow ELSE roll[v]]
    /\ End(r)
    /\ UNCHANGED <<status, now, auth, ballots, counted>>

-----------------------------------------------------------------------------
(* The clock, the scheduler and the lifecycle around the box. *)

(* Mutant of Overdue: the wrong rows in the filter. *)
OverdueWhileOpen == {t \in Tokens : /\ status = "OPEN"
                                    /\ auth[t].status = "ISSUED" /\ auth[t].expires < now}

(* The rows the housekeeping UPDATE selects. *)
Overdue == {t \in Tokens : auth[t].status = "ISSUED" /\ auth[t].expires < now}

(* core.tasks.housekeeping: one UPDATE, which waits for a cast in progress.  *)
ExpireAuthorizations ==
    /\ Overdue # {}
    /\ \A t \in Overdue : ~Locked(t)
    /\ auth' = [t \in Tokens |-> IF t \in Overdue THEN [auth[t] EXCEPT !.status = "EXPIRED"]
                                                  ELSE auth[t]]
    /\ UNCHANGED <<status, now, roll, ballots, counted, req>>

Pause ==
    /\ status = "OPEN"
    /\ status' = "PAUSED"
    /\ UNCHANGED <<now, roll, auth, ballots, counted, req>>

Resume ==
    /\ status = "PAUSED"
    /\ now < EndDate
    /\ status' = "OPEN"
    /\ UNCHANGED <<now, roll, auth, ballots, counted, req>>

(* An official closes voting at any moment. *)
Close ==
    /\ status \in {"OPEN", "PAUSED"}
    /\ status' = "CLOSED"
    /\ UNCHANGED <<now, roll, auth, ballots, counted, req>>

(* Mutant of DueToClose: a paused election is skipped. *)
DueToCloseIfOpen == status = "OPEN" /\ now >= EndDate

(* The elections lifecycle_tick closes. *)
DueToClose == status \in {"OPEN", "PAUSED"} /\ now >= EndDate

(* lifecycle.tick closes it once the end date has come. *)
Tick == DueToClose /\ Close

(* run_tally moves the election first, in a transaction of its own ...        *)
StartTally ==
    /\ status = "CLOSED"
    /\ status' = "TALLYING"
    /\ UNCHANGED <<now, roll, auth, ballots, counted, req>>

(* ... then reads the ballots and stores the result; it may be run again.    *)
CountBallots ==
    /\ status = "TALLYING"
    /\ counted' = [done |-> TRUE, trackers |-> {t \in Tokens : ballots[t] > 0}]
    /\ UNCHANGED <<status, now, roll, auth, ballots, req>>

Certify ==
    /\ status = "TALLYING"
    /\ counted.done
    /\ status' = "CERTIFIED"
    /\ UNCHANGED <<now, roll, auth, ballots, counted, req>>

ClockTick ==
    /\ now < MaxTime
    /\ now' = now + 1
    /\ UNCHANGED <<status, roll, auth, ballots, counted, req>>

-----------------------------------------------------------------------------
Starts(r) ==
    \/ \E t \in Tokens : CastLock(r, t)
    \/ \E v \in Voters :
        \/ IssueStart(r, v)
        \/ OtpVerify(r, v)
        \/ \E s \in OfficialStatuses : SetStatusCheck(r, v, s)
        \/ ResetCheck(r, v)
        \/ ImportRead(r, v)
        \/ RemoveCheck(r, v)
    \/ ClearAuthorizations(r)

Continues(r) ==
    \/ IssueCommit(r)
    \/ OtpSave(r)
    \/ CastCommit(r)
    \/ SetStatusSave(r)
    \/ SetStatusRevoke(r)
    \/ ResetCommit(r)
    \/ ImportSave(r)
    \/ RemoveAuthorizations(r)
    \/ RemoveRow(r)
    \/ ClearRows(r)
    \/ Abandon(r)

Election ==
    \/ Pause \/ Resume \/ Close \/ Tick
    \/ StartTally \/ CountBallots \/ Certify

Next ==
    \/ \E r \in Requests : Starts(r) \/ Continues(r)
    \/ \E v \in Voters : ResendCode(v) \/ ImportCreate(v)
    \/ ExpireAuthorizations
    \/ Election
    \/ ClockTick

Spec == Init /\ [][Next]_vars

(* A server answers or kills each request; beat runs the two periodic jobs.  *)
(* Nothing makes a person act, nor the clock run.                            *)
Fairness ==
    /\ \A r \in Requests : WF_vars(Continues(r))
    /\ WF_vars(Tick)
    /\ WF_vars(ExpireAuthorizations)

FairSpec == Spec /\ Fairness
-----------------------------------------------------------------------------
(* Correctness. *)

(* Every variable has its type; in particular no authorization outlives the  *)
(* election, whatever the half-hour would allow (casting.py: expires_at).    *)
TypeOK ==
    /\ status \in EventStatus
    /\ now \in 0..MaxTime
    /\ roll \in [Voters -> VoterRow]
    /\ auth \in [Tokens -> Authorization]
    /\ ballots \in [Tokens -> 0..1]
    /\ counted \in [done : BOOLEAN, trackers : SUBSET Tokens]
    /\ req \in [Requests -> Request]

(* No person has two ballots in the box, whichever tokens, devices, retries  *)
(* and official actions came between: the row lock, the VOTED check and the  *)
(* partial unique index together.                                            *)
OneBallotPerVoter ==
    \A t1, t2 \in Tokens :
        (ballots[t1] > 0 /\ ballots[t2] > 0 /\ auth[t1].voter = auth[t2].voter) => t1 = t2

(* The box and the register of participation agree: a ballot is there for    *)
(* each consumed authorization and for nothing else, though no row links     *)
(* them (one commit writes both).                                            *)
BoxMatchesRegister ==
    \A t \in Tokens : ballots[t] = IF auth[t].status = "CONSUMED" THEN 1 ELSE 0

(* issue_authorization: a voter with several devices or tabs has one usable  *)
(* token, and a cast in progress holds a token nobody else is casting or has *)
(* revoked under it.                                                         *)
OneLiveToken ==
    /\ \A t1, t2 \in Tokens : (/\ auth[t1].status = "ISSUED" /\ auth[t2].status = "ISSUED"
                                /\ auth[t1].voter = auth[t2].voter) => t1 = t2
    /\ \A r \in Requests : req[r].op = "cast" => auth[req[r].token].status = "ISSUED"
    /\ \A r1, r2 \in Requests :
         (req[r1].op = "cast" /\ req[r2].op = "cast" /\ req[r1].token = req[r2].token) => r1 = r2

(* _cast re-checks the voter under the lock: from the moment a suspension    *)
(* is committed no ballot of that voter enters the box, not even from a cast *)
(* that was already under way, nor from a token drawn before.                *)
NoBallotFromBarredVoter ==
    [][\A t \in Tokens : ballots'[t] # ballots[t] =>
            roll[auth[t].voter].status \notin Barred \cup {"REMOVED"}]_vars

(* With the roll editable, an official's removal may delete a register row,  *)
(* but never a ballot, and no ballot is there whose authorization was not    *)
(* consumed by the cast that inserted it.                                    *)
BoxCoversRegister ==
    \A t \in Tokens : /\ auth[t].status = "CONSUMED" => ballots[t] = 1
                      /\ ballots[t] > 0 => auth[t].status \in {"CONSUMED", "DELETED"}

(* The abstract ballot box: who has voted, and which ballots are in it.      *)
VotedPeople == {auth[t].voter : t \in {u \in Tokens : ballots[u] > 0}}
Box == {t \in Tokens : ballots[t] > 0}
OV == INSTANCE OneVote WITH Ballots <- Tokens, voted <- VotedPeople, box <- Box

(* Every step of the code is a step of the abstract box or leaves it alone.  *)
ImplementsOneVote == OV!Spec

(* lifecycle_tick: once the end date has come voting closes, paused or not.  *)
ClosesAtTheEnd == (now >= EndDate) ~> (status \notin {"OPEN", "PAUSED"})

(* housekeeping: a token nobody used does not stay ISSUED after its time,    *)
(* even if casts kept taking its row lock.                                   *)
UnusedTokensExpire ==
    \A t \in Tokens : (auth[t].status = "ISSUED" /\ auth[t].expires < now)
                            ~> (auth[t].status # "ISSUED")

-----------------------------------------------------------------------------
(* A claim of the documents that the interleavings refute. *)

(* docs/PRD.md: "voters can check their ballot was counted": what was        *)
(* certified holds every ballot in the box.                                  *)
CertifiedCountsEveryBallot == status = "CERTIFIED" => Box \subseteq counted.trackers
=============================================================================
