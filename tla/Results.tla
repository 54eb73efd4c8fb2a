------------------------------- MODULE Results -------------------------------
(***************************************************************************)
(* From the close of voting to the published result of one secret-ballot   *)
(* election: the automatic and the manual tally, the trustees' key shares, *)
(* the review of a tallied result, certification, decertification and      *)
(* recounts, by officials whose requests interleave.                       *)
(*                                                                         *)
(* Grain of atomicity.  Every service function first reads (the election,  *)
(* a result, the current certification), checks, and only later opens its  *)
(* transaction, which repeats none of the checks but the one transition()  *)
(* makes under the row lock of the election.  Read and transaction are     *)
(* therefore two actions; what the read found is kept in req[r].  The      *)
(* transaction that stores a tally is two actions as well: its UPDATE      *)
(* locks the pending results it sees, its INSERT is seen at the commit.    *)
(***************************************************************************)
EXTENDS Naturals, Sequences, FiniteSets

CONSTANTS
    Officials,       \* people with the results permissions
    Nobody,          \* no person: the automatic tally
    Trustees,        \* holders of key shares under trustee custody
    Threshold,       \* shares needed
    Requests,        \* handlers in progress
    DualApproval,    \* Event.dual_approval_required
    Settings,        \* the key custody, whether handlers overlap, a bound on tallies
    MaxCertifications   \* bound on certifications

ASSUME ResultsAssumption ==
    /\ Nobody \notin Officials
    /\ Threshold \in Nat
    /\ DualApproval \in BOOLEAN
    /\ Settings \subseteq [custody : {"SYSTEM", "TRUSTEES"}, overlap : BOOLEAN, tallies : Nat]
    /\ MaxCertifications \in Nat

VARIABLES
    setting,    \* Event.key_custody and the rest, fixed at the start
    status,     \* Event.status
    autoTally,  \* the auto_tally task: not sent, queued, or consumed
    results,    \* the ElectionResult rows, oldest first
    certs,      \* the ResultCertification rows, oldest first
    shares,     \* trustee -> the TrusteeShare row
    byName,     \* somebody posted 'certify' or 'decertify' to the console
    req         \* handler -> its next step, and what it read

vars == <<setting, status, autoTally, results, certs, shares, byName, req>>

Statuses == {"OPEN", "CLOSED", "TALLYING", "CERTIFIED", "PUBLISHED", "ARCHIVED"}
ResultStatus == {"PENDING_REVIEW", "APPROVED", "REJECTED", "SUPERSEDED", "INFORMATIONAL"}
Result == [status : ResultStatus, talliedBy : Officials \cup {Nobody}]
Certification == [result : Nat \ {0}, revoked : BOOLEAN]
(* pending_share and submitted_share present; submitted_at set. *)
Share == [pending : BOOLEAN, submitted : BOOLEAN, submittedAt : BOOLEAN]
Ops == {"idle", "count", "store", "commit", "wipe", "certify", "reject", "revoke"}

Idle == [op |-> "idle", official |-> TRUE, by |-> Nobody, item |-> 0, marked |-> {}]

Init ==
    /\ setting \in Settings
    /\ byName = FALSE
    /\ status = "OPEN" /\ autoTally = "unsent"
    /\ results = <<>> /\ certs = <<>>
    /\ shares = [t \in Trustees |-> [pending |-> setting.custody = "TRUSTEES",
                                     submitted |-> FALSE, submittedAt |-> FALSE]]
    /\ req = [r \in Requests |-> Idle]

Free(r) == IF setting.overlap THEN req[r] = Idle ELSE \A q \in Requests : req[q] = Idle
Does(r, op) == req[r].op = op
Then(r, op) == req' = [req EXCEPT ![r].op = op]
End(r) == req' = [req EXCEPT ![r] = Idle]

Pending == {i \in DOMAIN results : results[i].status = "PENDING_REVIEW"}
LiveCerts == {c \in DOMAIN certs : ~certs[c].revoked}

(* Result rows an uncommitted tally has updated. *)
Locked(i) == \E r \in Requests : i \in req[r].marked

-----------------------------------------------------------------------------
(* Voting closes; the task is sent after the commit, if the process lives.   *)
Close ==
    /\ status = "OPEN"
    /\ status' = "CLOSED"
    /\ autoTally' \in {"queued", "lost"}
    /\ UNCHANGED <<setting, results, certs, shares, req, byName>>

(* run_tally begins: a closed election is moved to TALLYING at once.         *)
StartsTally(r, o) ==
    /\ status \in {"CLOSED", "TALLYING"}
    /\ status' = "TALLYING"
    /\ req' = [req EXCEPT ![r] = [Idle EXCEPT !.op = "count", !.by = o]]
    /\ UNCHANGED <<setting, results, certs, shares, byName>>

Tally(r, o) ==
    /\ Free(r)
    /\ StartsTally(r, o)
    /\ UNCHANGED autoTally

(* The task looks at the election, and leaves one with trustees to them.     *)
RunsByItself == status = "CLOSED" /\ setting.custody = "SYSTEM"

AutoTally(r) ==
    /\ autoTally = "queued"
    /\ Free(r)
    /\ autoTally' = "done"
    /\ IF RunsByItself THEN StartsTally(r, Nobody)
       ELSE UNCHANGED <<setting, status, results, certs, shares, req, byName>>

(* recount() tallies without moving the election.                            *)
Recount(r, o) ==
    /\ Free(r)
    /\ status \in {"TALLYING", "CERTIFIED", "PUBLISHED", "ARCHIVED"}
    /\ req' = [req EXCEPT ![r] = [Idle EXCEPT !.op = "count", !.by = o, !.official = FALSE]]
    /\ UNCHANGED <<setting, status, autoTally, results, certs, shares, byName>>

Submitted == {t \in Trustees : shares[t].submittedAt}
Given == {t \in Trustees : shares[t].submitted}

(* The query has no order: combine_shares gets some Threshold of the rows    *)
(* with a submission date.                                                   *)
Picks == IF setting.custody = "SYSTEM" THEN {{}}
         ELSE {chosen \in SUBSET Submitted : Cardinality(chosen) = Threshold}

(* private_key_for_tally needs every share it picked. A row whose share was  *)
(* wiped breaks the combination, and the tally ends (Abandon).               *)
Count(r) ==
    /\ Does(r, "count")
    /\ \E chosen \in Picks : chosen \subseteq Given
    /\ Then(r, "store")
    /\ UNCHANGED <<setting, status, autoTally, results, certs, shares, byName>>

(* The earlier tallies an official one replaces. *)
ToSupersede == Pending

(* UPDATE ... SET status='SUPERSEDED' WHERE status='PENDING_REVIEW' ...      *)
Supersede(r) ==
    /\ Does(r, "store")
    /\ LET marked == IF req[r].official THEN ToSupersede ELSE {} IN
       /\ \A i \in marked : ~Locked(i)
       /\ req' = [req EXCEPT ![r].op = "commit", ![r].marked = marked]
    /\ UNCHANGED <<setting, status, autoTally, results, certs, shares, byName>>

(* ... INSERT of the new row, COMMIT.                                        *)
Store(r) ==
    /\ Does(r, "commit")
    /\ Len(results) < setting.tallies
    /\ LET kept == [i \in DOMAIN results |->
                        IF i \in req[r].marked THEN [results[i] EXCEPT !.status = "SUPERSEDED"]
                                               ELSE results[i]]
           new == IF req[r].official THEN "PENDING_REVIEW" ELSE "INFORMATIONAL" IN
       results' = Append(kept, [status |-> new, talliedBy |-> req[r].by])
    /\ req' = [req EXCEPT ![r] = IF req[r].official
                                 THEN [@ EXCEPT !.op = "wipe", !.marked = {}] ELSE Idle]
    /\ UNCHANGED <<setting, status, autoTally, certs, shares, byName>>

Wiped(t) == [shares[t] EXCEPT !.submitted = FALSE]

(* wipe_submitted_shares, after the transaction, of an official tally only.  *)
Wipe(r) ==
    /\ Does(r, "wipe")
    /\ shares' = [t \in Trustees |-> Wiped(t)]
    /\ End(r)
    /\ UNCHANGED <<setting, status, autoTally, results, certs, byName>>

-----------------------------------------------------------------------------
(* Review. *)

(* approve_and_certify checks what it loaded ...                             *)
Certifiable(o, i) ==
    /\ results[i].status = "PENDING_REVIEW" /\ status = "TALLYING"
    /\ DualApproval => results[i].talliedBy # o

CertifyLoad(r, o, i) ==
    /\ Free(r)
    /\ Certifiable(o, i)
    /\ req' = [req EXCEPT ![r] = [Idle EXCEPT !.op = "certify", !.by = o, !.item = i]]
    /\ UNCHANGED <<setting, status, autoTally, results, certs, shares, byName>>

(* transition('certify') under the lock of the election. *)
InTallying == status = "TALLYING"

(* ... and approves, certifies and moves the election in one transaction.    *)
CertifyCommit(r) ==
    /\ Does(r, "certify")
    /\ ~Locked(req[r].item)
    /\ InTallying
    /\ Len(certs) < MaxCertifications
    /\ results' = [results EXCEPT ![req[r].item].status = "APPROVED"]
    /\ certs' = Append(certs, [result |-> req[r].item, revoked |-> FALSE])
    /\ status' = "CERTIFIED"
    /\ End(r)
    /\ UNCHANGED <<setting, autoTally, shares, byName>>

(* Mutant of Rejectable: any official result. *)
RejectableAny(i) == results[i].status # "INFORMATIONAL"

Rejectable(i) == i \in Pending

(* reject_result: the check on the loaded row ...                            *)
RejectLoad(r, i) ==
    /\ Free(r)
    /\ Rejectable(i)
    /\ req' = [req EXCEPT ![r] = [Idle EXCEPT !.op = "reject", !.item = i]]
    /\ UNCHANGED <<setting, status, autoTally, results, certs, shares, byName>>

(* ... and the save.                                                         *)
RejectSave(r) ==
    /\ Does(r, "reject")
    /\ ~Locked(req[r].item)
    /\ results' = [results EXCEPT ![req[r].item].status = "REJECTED"]
    /\ End(r)
    /\ UNCHANGED <<setting, status, autoTally, certs, shares, byName>>

(* revoke_certification: the newest live certification ...                   *)
RevokeLoad(r) ==
    /\ Free(r)
    /\ \E c \in LiveCerts :
         /\ \A d \in LiveCerts : d <= c
         /\ req' = [req EXCEPT ![r] = [Idle EXCEPT !.op = "revoke", !.item = c]]
    /\ UNCHANGED <<setting, status, autoTally, results, certs, shares, byName>>

(* Mutant of Decertified: the election stays where it is. *)
StillCertified == status

(* transition('decertify'). *)
Decertified == "TALLYING"

Revoked(c) == [certs EXCEPT ![c].revoked = TRUE]

(* ... revoked, its result superseded, the election back to TALLYING.        *)
RevokeCommit(r) ==
    /\ Does(r, "revoke")
    /\ status \in {"CERTIFIED", "PUBLISHED"}
    /\ ~Locked(certs[req[r].item].result)
    /\ certs' = Revoked(req[r].item)
    /\ results' = [results EXCEPT ![certs[req[r].item].result].status = "SUPERSEDED"]
    /\ status' = Decertified
    /\ End(r)
    /\ UNCHANGED <<setting, autoTally, shares, byName>>

(* The transitions of the console. *)
Publish == status = "CERTIFIED" /\ status' = "PUBLISHED" /\ UNCHANGED <<setting, autoTally, results, certs, shares, req, byName>>
Archive == status = "PUBLISHED" /\ status' = "ARCHIVED" /\ UNCHANGED <<setting, autoTally, results, certs, shares, req, byName>>

(* The view passes on any name, those it does not offer included: the status *)
(* moves, and nothing else.                                                  *)
PostedByName ==
    /\ \/ status = "TALLYING" /\ status' = "CERTIFIED"
       \/ status \in {"CERTIFIED", "PUBLISHED"} /\ status' = "TALLYING"
    /\ byName' = TRUE
    /\ UNCHANGED <<setting, autoTally, results, certs, shares, req>>

-----------------------------------------------------------------------------
(* Trustees. *)

(* collect_share, under the row lock: the stored copy is given out once.     *)
CollectShare(t) ==
    /\ shares[t].pending
    /\ shares' = [shares EXCEPT ![t].pending = FALSE]
    /\ UNCHANGED <<setting, status, autoTally, results, certs, req, byName>>

(* submit_share, whatever the status of the election.                        *)
SubmitShare(t) ==
    /\ setting.custody = "TRUSTEES" /\ ~shares[t].pending
    /\ shares' = [shares EXCEPT ![t].submitted = TRUE, ![t].submittedAt = TRUE]
    /\ UNCHANGED <<setting, status, autoTally, results, certs, req, byName>>

(* A handler ends with an error (shares are missing, the election is not in  *)
(* the state the transition needs), or its process dies; an open transaction *)
(* is rolled back.                                                           *)
Abandon(r) ==
    /\ req[r] # Idle
    /\ End(r)
    /\ UNCHANGED <<setting, status, autoTally, results, certs, shares, byName>>

-----------------------------------------------------------------------------
Continues(r) ==
    \/ Count(r) \/ Supersede(r) \/ Store(r) \/ Wipe(r)
    \/ CertifyCommit(r) \/ RejectSave(r) \/ RevokeCommit(r) \/ Abandon(r)

Starts(r) ==
    \/ \E o \in Officials :
        \/ Tally(r, o) \/ Recount(r, o)
        \/ \E i \in DOMAIN results : CertifyLoad(r, o, i)
    \/ \E i \in DOMAIN results : RejectLoad(r, i)
    \/ RevokeLoad(r)

Next ==
    \/ \E r \in Requests : Starts(r) \/ Continues(r) \/ AutoTally(r)
    \/ \E t \in Trustees : CollectShare(t) \/ SubmitShare(t)
    \/ Close \/ Publish \/ Archive \/ PostedByName

Spec == Init /\ [][Next]_vars

-----------------------------------------------------------------------------
(* Correctness. *)

(* Every variable has its type; a certification names a result that exists;  *)
(* a stored share has its date and was collected before.                     *)
TypeOK ==
    /\ setting \in Settings /\ byName \in BOOLEAN
    /\ status \in Statuses
    /\ autoTally \in {"unsent", "queued", "lost", "done"}
    /\ results \in Seq(Result) /\ Len(results) <= setting.tallies
    /\ certs \in Seq(Certification) /\ Len(certs) <= MaxCertifications
    /\ \A c \in DOMAIN certs : certs[c].result \in DOMAIN results
    /\ shares \in [Trustees -> Share]
    /\ \A t \in Trustees : shares[t].submitted => shares[t].submittedAt /\ ~shares[t].pending
    /\ req \in [Requests -> [op : Ops, official : BOOLEAN, by : Officials \cup {Nobody},
                             item : Nat, marked : SUBSET DOMAIN results]]

(* docs/TRD.md, certify: "System-only: done by approve_and_certify()".  An   *)
(* election whose result is certified, published or archived has a signed    *)
(* certification that was not revoked, through overlapping reviews,          *)
(* revocations, recounts and tallies run again.                              *)
CertifiedHasCertificate ==
    ~byName /\ status \in {"CERTIFIED", "PUBLISHED", "ARCHIVED"} => LiveCerts # {}

(* current_certification() picks the newest: there is never a second one,    *)
(* and none while the election is being tallied (again).                     *)
OneCurrentCertification ==
    ~byName /\ ~setting.overlap
        => Cardinality(LiveCerts) <= 1 /\ (status = "TALLYING" => LiveCerts = {})

(* Both of them.                                                             *)
CertificationsHold == CertifiedHasCertificate /\ OneCurrentCertification

(* What a live certification signs is an approved result: later tallies,     *)
(* rejections and revocations of others leave it alone.                      *)
CertifiedStaysApproved ==
    ~byName /\ ~setting.overlap => \A c \in LiveCerts : results[certs[c].result].status = "APPROVED"

-----------------------------------------------------------------------------
(* A claim that the code does not keep. *)

(* keys.py: "at tally time at least ``threshold`` of them must submit it":   *)
(* when that many have, the key can be recovered.                            *)
EnoughSharesSuffice ==
    Cardinality(Given) >= Threshold => \A chosen \in Picks : chosen \subseteq Given
=============================================================================
