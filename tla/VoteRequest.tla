----------------------------- MODULE VoteRequest -----------------------------
(***************************************************************************)
(* A vote posted to the REST API with an Idempotency-Key, from the claim   *)
(* of the key to the voter's confirmation: the key's record, the casting   *)
(* transaction with its audit entry, the job sent after the commit, the    *)
(* outbox row the job writes, and its delivery, retries and sweep.  Web    *)
(* workers, job workers and the broker fail at any point, MaxFaults times. *)
(*                                                                         *)
(* Casting itself is module Casting: here the transaction is one ballot    *)
(* per voter under the lock of the voter's authorization.                  *)
(***************************************************************************)
EXTENDS AuditChain

CONSTANTS
    Voters,      \* each uses one Idempotency-Key
    Bodies,      \* selections a voter may post
    NoBallot,
    Requests,    \* web handlers
    Workers,     \* job workers
    Settings,    \* which of them take part
    MaxAttempts, \* notifications.tasks.MAX_ATTEMPTS
    MaxFaults    \* bound on crashes, lost jobs and lost answers

VARIABLES
    setting,     \* who takes part
    record,      \* voter -> IdempotencyRecord of its key
    ballot,      \* voter -> the ballot it cast: its authorization is consumed
    request,     \* handler -> where it is, for whom, with which selections
    jobs,        \* messages in the broker, those being worked on included
    note,        \* voter -> the confirmation in the outbox
    worker,      \* worker -> the job it has and how far it is
    sent,        \* voter -> how often the provider delivered the confirmation
    faults

requestVars == <<record, ballot, request>>
jobVars == <<jobs, note, worker, sent>>
vars == <<auditVars, requestVars, jobVars, setting, faults>>

NoRecord == [state |-> "NONE", body |-> NoBallot]
Free == [at |-> "idle", voter |-> NoBallot, body |-> NoBallot]
NoNote == [status |-> "NONE", attempts |-> 0]
Confirm(v) == [task |-> "confirm", voter |-> v, by |-> "commit"]
DeliverJob(v, by) == [task |-> "deliver", voter |-> v, by |-> by]
NoJob == [task |-> "none", voter |-> NoBallot, by |-> "commit"]
Resting == [at |-> "idle", job |-> NoJob, result |-> "NONE"]

ASSUME VoteRequestAssumption ==
    /\ NoBallot \notin Bodies \cup Voters
    /\ Writers = Requests /\ Contents = Voters   \* of the audit log, which the handlers write
    /\ MaxAttempts \in Nat \ {0} /\ MaxFaults \in Nat
    /\ Settings \subseteq [voters : SUBSET Voters, requests : SUBSET Requests, workers : SUBSET Workers]

Init ==
    /\ AuditInit
    /\ setting \in Settings
    /\ record = [v \in Voters |-> NoRecord]
    /\ ballot = [v \in Voters |-> NoBallot]
    /\ request = [q \in Requests |-> Free]
    /\ jobs = {}
    /\ note = [v \in Voters |-> NoNote]
    /\ worker = [w \in Workers |-> Resting]
    /\ sent = [v \in Voters |-> 0]
    /\ faults = 0

-----------------------------------------------------------------------------
(* The web handler: idempotent() around vote(). *)

(* Mutant of SameRequest: the fingerprint is not compared. *)
AnyRequest(v, b) == TRUE

(* begin: record.request_hash = fingerprint. *)
SameRequest(v, b) == record[v].body = b

GoesTo(q, at) == request' = [request EXCEPT ![q].at = at]
Ends(q) == request' = [request EXCEPT ![q] = Free]
InProgress(v) == \E q \in Requests : request[q].voter = v

(* begin: the key is new and is claimed.  While it is in progress, or with   *)
(* other selections, a request is refused, and nothing changes.              *)
Claim(q, v, b) ==
    /\ request[q] = Free
    /\ record[v] = NoRecord
    /\ record' = [record EXCEPT ![v] = [state |-> "IN_PROGRESS", body |-> b]]
    /\ request' = [request EXCEPT ![q] = [at |-> "claimed", voter |-> v, body |-> b]]
    /\ UNCHANGED <<auditVars, jobVars, ballot, setting, faults>>

(* begin: the first request has been answered; so is this one.               *)
Replay(q, v, b) ==
    /\ request[q] = Free
    /\ record[v].state = "COMPLETED" /\ SameRequest(v, b)
    /\ request' = [request EXCEPT ![q] = [at |-> "receipt", voter |-> v, body |-> b]]
    /\ UNCHANGED <<auditVars, jobVars, record, ballot, setting, faults>>

(* abandon. *)
Released(v) == [record EXCEPT ![v] = IF @.state = "IN_PROGRESS" THEN NoRecord ELSE @]

(* cast_ballot raises before it has written: the ballot is not valid, voting *)
(* is over, or the voter has voted.  The key is free for another attempt.    *)
Refuse(q) ==
    /\ request[q].at = "claimed"
    /\ record' = Released(request[q].voter)
    /\ Ends(q)
    /\ UNCHANGED <<auditVars, jobVars, ballot, setting, faults>>

(* The transaction up to its audit entry.  Another one of this voter waits   *)
(* for the authorization, one of another voter for the chain's head.         *)
Cast(q) ==
    /\ request[q].at = "claimed"
    /\ ballot[request[q].voter] = NoBallot
    /\ AppendEntry(q, request[q].voter)
    /\ GoesTo(q, "casting")
    /\ UNCHANGED <<jobVars, record, ballot, setting, faults>>

Commit(q) ==
    /\ request[q].at = "casting"
    /\ ballot' = [ballot EXCEPT ![request[q].voter] = request[q].body]
    /\ CommitEntry(q)
    /\ GoesTo(q, "committed")
    /\ UNCHANGED <<jobVars, record, setting, faults>>

(* The database refuses the commit or a later statement: all is undone.      *)
Rollback(q) ==
    /\ request[q].at = "casting"
    /\ DropEntry(q)
    /\ record' = Released(request[q].voter)
    /\ Ends(q)
    /\ UNCHANGED <<jobVars, ballot, setting, faults>>

(* Mutant of AfterCast: the job is sent from inside the transaction.         *)
AfterCastEarly(q) ==
    /\ request[q].at \in {"casting", "committed"}
    /\ jobs' = jobs \cup {Confirm(request[q].voter)}
    /\ IF request[q].at = "committed" THEN GoesTo(q, "queued") ELSE UNCHANGED request
    /\ UNCHANGED <<auditVars, record, ballot, note, worker, sent, setting, faults>>

(* on_commit: _after_cast. *)
AfterCast(q) ==
    /\ request[q].at = "committed"
    /\ jobs' = jobs \cup {Confirm(request[q].voter)}
    /\ GoesTo(q, "queued")
    /\ UNCHANGED <<auditVars, record, ballot, note, worker, sent, setting, faults>>

(* complete: the response is stored and sent. *)
Complete(q) ==
    /\ request[q].at = "queued"
    /\ record' = [record EXCEPT ![request[q].voter].state = "COMPLETED"]
    /\ GoesTo(q, "receipt")
    /\ UNCHANGED <<auditVars, jobVars, ballot, setting, faults>>

Answered(q) ==
    /\ request[q].at = "receipt"
    /\ Ends(q)
    /\ UNCHANGED <<auditVars, jobVars, record, ballot, setting, faults>>

(* A broker that cannot be reached: the exception comes out of cast_ballot   *)
(* with the ballot committed, and the key is released.                       *)
BrokerRefuses(q) ==
    /\ request[q].at = "committed"
    /\ faults < MaxFaults /\ faults' = faults + 1
    /\ record' = Released(request[q].voter)
    /\ Ends(q)
    /\ UNCHANGED <<auditVars, jobVars, ballot, setting>>

(* The handler dies: an open transaction is undone, the key stays claimed.   *)
HandlerDies(q) ==
    /\ request[q].at \notin {"idle", "receipt"}
    /\ faults < MaxFaults /\ faults' = faults + 1
    /\ IF request[q].at = "casting" THEN DropEntry(q) ELSE UNCHANGED auditVars
    /\ Ends(q)
    /\ UNCHANGED <<jobVars, record, ballot, setting>>

(* housekeeping, or begin with an expired key: 24 hours later no handler of  *)
(* the key is left.                                                          *)
Expire(v) ==
    /\ record[v] # NoRecord
    /\ ~InProgress(v)
    /\ record' = [record EXCEPT ![v] = NoRecord]
    /\ UNCHANGED <<auditVars, jobVars, ballot, request, setting, faults>>

-----------------------------------------------------------------------------
(* The job workers.  A job stays in the broker until its worker has finished *)
(* it (acks_late), and is handed out again when the worker dies.             *)
HandedOut == {worker[w].job : w \in Workers}
Rests(w) == worker' = [worker EXCEPT ![w] = Resting]
Unsent == {"QUEUED", "FAILED"}

(* send_vote_confirmation, with notify, of a voter who has an address: the   *)
(* row is created unless its dedupe_key exists ...                           *)
ConfirmStarts(w, v) ==
    /\ worker[w] = Resting
    /\ Confirm(v) \in jobs \ HandedOut
    /\ note[v] = NoNote
    /\ note' = [note EXCEPT ![v].status = "QUEUED"]
    /\ worker' = [worker EXCEPT ![w] = [at |-> "created", job |-> Confirm(v), result |-> "NONE"]]
    /\ UNCHANGED <<auditVars, requestVars, jobs, sent, setting, faults>>

(* ... and after the commit its delivery is queued.                          *)
ConfirmEnds(w) ==
    /\ worker[w].at = "created"
    /\ LET job == worker[w].job IN jobs' = (jobs \ {job}) \cup {DeliverJob(job.voter, "commit")}
    /\ Rests(w)
    /\ UNCHANGED <<auditVars, requestVars, note, sent, setting, faults>>

ConfirmAgain(w, v) ==
    /\ worker[w] = Resting
    /\ Confirm(v) \in jobs \ HandedOut
    /\ note[v] # NoNote
    /\ jobs' = jobs \ {Confirm(v)}
    /\ UNCHANGED <<auditVars, requestVars, note, worker, sent, setting, faults>>

(* Mutant of Deliverable: the status is not looked at again.                 *)
DeliverableWhateverItsStatus(v) == note[v] # NoNote

(* deliver: the row is locked and found unsent ...                           *)
Deliverable(v) == note[v].status \in Unsent

Locked(v) == \E w \in Workers : worker[w].at \in {"locked", "answered"} /\ worker[w].job.voter = v

DeliverStarts(w, job) ==
    /\ worker[w] = Resting
    /\ job.task = "deliver" /\ job \in jobs \ HandedOut
    /\ ~Locked(job.voter)
    /\ IF Deliverable(job.voter)
       THEN /\ worker' = [worker EXCEPT ![w] = [at |-> "locked", job |-> job, result |-> "NONE"]]
            /\ UNCHANGED jobs
       ELSE jobs' = jobs \ {job} /\ UNCHANGED worker
    /\ UNCHANGED <<auditVars, requestVars, note, sent, setting, faults>>

(* ... the provider is called: it takes the message, or not, or the channel  *)
(* is not configured ...                                                     *)
Send(w) ==
    /\ worker[w].at = "locked"
    /\ \E result \in {"SENT", "FAILED", "SKIPPED"} :
         /\ worker' = [worker EXCEPT ![w].at = "answered", ![w].result = result]
         /\ sent' = IF result = "SENT" THEN [sent EXCEPT ![worker[w].job.voter] = @ + 1] ELSE sent
    /\ UNCHANGED <<auditVars, requestVars, jobs, note, setting, faults>>

(* ... or takes it and its answer is lost: any exception counts as failed.   *)
AnswerLost(w) ==
    /\ worker[w].at = "locked"
    /\ faults < MaxFaults /\ faults' = faults + 1
    /\ worker' = [worker EXCEPT ![w].at = "answered", ![w].result = "FAILED"]
    /\ sent' = [sent EXCEPT ![worker[w].job.voter] = @ + 1]
    /\ UNCHANGED <<auditVars, requestVars, jobs, note, setting>>

(* ... the outcome is committed; a failed job is retried later.              *)
DeliverEnds(w) ==
    /\ worker[w].at = "answered"
    /\ LET job == worker[w].job
           attempts == note[job.voter].attempts + 1
       IN /\ note' = [note EXCEPT ![job.voter] = [status |-> worker[w].result, attempts |-> attempts]]
          /\ jobs' = IF worker[w].result = "FAILED" /\ attempts < MaxAttempts THEN jobs ELSE jobs \ {job}
    /\ Rests(w)
    /\ UNCHANGED <<auditVars, requestVars, sent, setting, faults>>

WorkerDies(w) ==
    /\ worker[w] # Resting
    /\ faults < MaxFaults /\ faults' = faults + 1
    /\ Rests(w)
    /\ UNCHANGED <<auditVars, requestVars, jobs, note, sent, setting>>

(* The broker loses a message. *)
LoseJob(job) ==
    /\ job \in jobs \ HandedOut
    /\ faults < MaxFaults /\ faults' = faults + 1
    /\ jobs' = jobs \ {job}
    /\ UNCHANGED <<auditVars, requestVars, note, worker, sent, setting>>

(* Mutant of Stuck: a row whose first delivery was lost is not looked for.   *)
StuckOnceFailed(v) == note[v].status = "FAILED" /\ note[v].attempts < MaxAttempts

(* retry_failed: what the sweep looks for. *)
Stuck(v) == note[v].status \in Unsent /\ note[v].attempts < MaxAttempts

Sweep(v) ==
    /\ Stuck(v)
    /\ jobs' = jobs \cup {DeliverJob(v, "sweep")}
    /\ UNCHANGED <<auditVars, requestVars, note, worker, sent, setting, faults>>

-----------------------------------------------------------------------------
Verify == Check /\ UNCHANGED <<requestVars, jobVars, setting, faults>>

Handle(q) ==
    \/ Cast(q) \/ Commit(q) \/ AfterCast(q) \/ Complete(q) \/ Answered(q)
    \/ Refuse(q) \/ Rollback(q) \/ BrokerRefuses(q) \/ HandlerDies(q)

Work(w) ==
    \/ \E v \in Voters : ConfirmStarts(w, v) \/ ConfirmAgain(w, v)
    \/ ConfirmEnds(w) \/ Send(w) \/ DeliverEnds(w)
    \/ \E job \in jobs : DeliverStarts(w, job)

Next ==
    \/ \E q \in setting.requests, v \in setting.voters, b \in Bodies : Claim(q, v, b) \/ Replay(q, v, b)
    \/ \E q \in setting.requests : Handle(q)
    \/ \E v \in setting.voters : Expire(v) \/ Sweep(v)
    \/ \E w \in setting.workers : Work(w) \/ WorkerDies(w) \/ AnswerLost(w)
    \/ \E job \in jobs : LoseJob(job)
    \/ Verify

Spec == Init /\ [][Next]_vars

(* Job workers run, and beat starts the sweep every ten minutes.             *)
Fairness ==
    /\ \A w \in Workers : WF_vars(w \in setting.workers /\ Work(w))
    /\ \A v \in Voters : WF_vars(v \in setting.voters /\ Sweep(v))

FairSpec == Spec /\ Fairness

-----------------------------------------------------------------------------
(* Correctness. *)

(* Every variable has its type; the audit chain is dense and continued only  *)
(* under the lock of its head; and attempts end: the sweep and the retries   *)
(* of two jobs overshoot MAX_ATTEMPTS by one at most.                        *)
TypeOK ==
    /\ setting \in Settings
    /\ record \in [Voters -> [state : {"NONE", "IN_PROGRESS", "COMPLETED"}, body : Bodies \cup {NoBallot}]]
    /\ ballot \in [Voters -> Bodies \cup {NoBallot}]
    /\ request \in [Requests -> [at : {"idle", "claimed", "casting", "committed", "queued", "receipt"},
                                 voter : Voters \cup {NoBallot}, body : Bodies \cup {NoBallot}]]
    /\ jobs \subseteq [task : {"confirm", "deliver"}, voter : Voters, by : {"commit", "sweep"}]
    /\ note \in [Voters -> [status : {"NONE", "SENT", "SKIPPED"} \cup Unsent, attempts : 0..(MaxAttempts + 1)]]
    /\ \A w \in Workers : worker[w].at \in {"idle", "created", "locked", "answered"}
    /\ sent \in [Voters -> 0..(MaxFaults + 1)]
    /\ faults \in 0..MaxFaults
    /\ Chained

(* docs/API.md: a key replays the response of the same request only: whoever *)
(* gets a receipt, now or again, has cast exactly the selections it sent.    *)
ReceiptIsMine ==
    \A q \in Requests :
        request[q].at = "receipt" => ballot[request[q].voter] = request[q].body

(* A ballot and its audit entry are committed together, whatever fails.      *)
AuditTellsEveryBallot ==
    /\ \A v \in Voters : ballot[v] # NoBallot <=> \E i \in DOMAIN entries : entries[i].content = v
    /\ \A i, j \in DOMAIN entries : entries[i].content = entries[j].content => i = j

(* on_commit: no voter is told of a ballot that is not in the box.           *)
NoConfirmationWithoutBallot ==
    \A v \in Voters : note[v] # NoNote => ballot[v] # NoBallot

(* The abstract vote: what the box, the log and the outbox hold of it.       *)
Log == [i \in DOMAIN entries |-> entries[i].content]
Told == {v \in Voters : note[v] # NoNote}
RV == INSTANCE RecordedVotes WITH box <- ballot, log <- Log, told <- Told

(* Every step of the code is a step of the abstract vote or leaves it alone: *)
(* ballot and audit entry come together and stay, and before any             *)
(* confirmation, whichever handler, worker or message is lost.               *)
ImplementsRecordedVotes == RV!Spec

(* dedupe_key and the lock of the row: a voter gets a second confirmation    *)
(* only if a worker died, or an answer was lost, after the first was sent.   *)
ConfirmedOnce == \A v \in Voters : sent[v] > 1 => faults >= sent[v] - 1

(* retry_failed: a confirmation in the outbox is sent or given up after its  *)
(* attempts, although its job was lost or its worker died.                   *)
Unsettled(v) == note[v].status \in Unsent /\ note[v].attempts < MaxAttempts
EveryConfirmationSettles == \A v \in Voters : Unsettled(v) ~> ~Unsettled(v)
=============================================================================
