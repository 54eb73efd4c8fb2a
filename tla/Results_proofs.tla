---------------------------- MODULE Results_proofs ----------------------------
(***************************************************************************)
(* What TLAPS proves about Results and Bulletin.                           *)
(*                                                                         *)
(* Results, for every number of officials, trustees and handlers: nothing  *)
(* stands certified without a live certificate, however reviews, tallies   *)
(* and revocations overlap; and, while they do not, there is one           *)
(* certificate, of an approved result.                                     *)
(*                                                                         *)
(* Bulletin, for every electorate and every board: what was certified      *)
(* verifies, what was altered does not, and the Merkle tree proves         *)
(* inclusion of the ballots on the board and of nothing else; over every   *)
(* prime field, as many shares as the threshold give the ballot key back.  *)
(***************************************************************************)
EXTENDS Results, Bulletin, FiniteSetTheorems, SequenceTheorems, TLAPS

Early == {"OPEN", "CLOSED", "TALLYING"}
Late == {"CERTIFIED", "PUBLISHED", "ARCHIVED"}

(* TypeOK, but for the handlers. *)
Rows ==
    /\ setting \in Settings /\ byName \in BOOLEAN
    /\ status \in Statuses
    /\ autoTally \in {"unsent", "queued", "lost", "done"}
    /\ results \in Seq(Result) /\ Len(results) <= setting.tallies
    /\ certs \in Seq(Certification) /\ Len(certs) <= MaxCertifications
    /\ \A c \in DOMAIN certs : certs[c].result \in DOMAIN results
    /\ shares \in [Trustees -> Share]
    /\ \A t \in Trustees : shares[t].submitted => shares[t].submittedAt /\ ~shares[t].pending

HandlerType == [op : Ops, official : BOOLEAN, by : Officials \cup {Nobody},
                item : Nat, marked : SUBSET DOMAIN results]

(* A handler's rows exist, and, while handlers do not overlap, are still     *)
(* what it read.                                                             *)
Sound(h) ==
    /\ h \in HandlerType
    /\ h.op \in {"certify", "reject"} => h.item \in DOMAIN results
    /\ h.op = "revoke" => h.item \in DOMAIN certs
    /\ ~setting.overlap =>
          /\ h.op = "reject" => h.item \in Pending
          /\ h.op = "revoke" => h.item \in LiveCerts
          /\ h.marked \subseteq Pending

Handlers == req = [r \in Requests |-> req[r]] /\ \A r \in Requests : Sound(req[r])
Alone == ~setting.overlap => \A q, r \in Requests : req[q] # Idle /\ req[r] # Idle => q = r

(* OneCurrentCertification, with the statuses before the tally. *)
OneLive ==
    ~byName /\ ~setting.overlap =>
        /\ \A c, d \in LiveCerts : c = d
        /\ status \in Early => LiveCerts = {}

Certificates == CertifiedHasCertificate /\ OneLive /\ CertifiedStaysApproved
IInv == Rows /\ Handlers /\ Alone /\ Certificates

-----------------------------------------------------------------------------
LEMMA IdleSound == Sound(Idle)
  BY DEF Sound, Idle, HandlerType, Ops

(* One handler moves on; the others are idle, or mind only that rows stay. *)
LEMMA HandlerMoves ==
  ASSUME Handlers, Alone, NEW r \in Requests, NEW h, req' = [req EXCEPT ![r] = h],
         Free(r) \/ req[r] # Idle, setting' = setting,
         DOMAIN results \subseteq DOMAIN results', DOMAIN certs \subseteq DOMAIN certs',
         Sound(h)'
  PROVE  Handlers' /\ Alone'
<1>1. \A q \in Requests : req'[q] = IF q = r THEN h ELSE req[q]
  BY DEF Handlers
<1>2. ~setting.overlap => \A q \in Requests : q # r => req[q] = Idle
  BY DEF Free, Alone
<1>3. Alone'
  BY <1>1, <1>2 DEF Alone
<1>4. Sound(Idle)'
  BY DEF Sound, Idle, HandlerType, Ops
<1>5. ASSUME NEW q \in Requests PROVE Sound(req[q])'
  <2>1. CASE q = r
    <3>1. req'[q] = h
      BY <1>1, <2>1
    <3> QED
      BY <3>1 DEF Sound
  <2>2. CASE q # r /\ ~setting.overlap
    <3>1. req'[q] = Idle
      BY <1>1, <1>2, <2>2
    <3> QED
      BY <1>4, <3>1 DEF Sound
  <2>3. CASE q # r /\ setting.overlap
    <3>1. req'[q] = req[q] /\ Sound(req[q])
      BY <1>1, <2>3 DEF Handlers
    <3>2. req[q] \in HandlerType'
      BY <3>1 DEF Sound, HandlerType
    <3> QED
      BY <2>3, <3>1, <3>2 DEF Sound
  <2> QED
    BY <2>1, <2>2, <2>3
<1>6. req' = [q \in Requests |-> req'[q]]
  BY DEF Handlers
<1> QED
  BY <1>3, <1>5, <1>6 DEF Handlers

(* Steps that write no result and no certificate. *)
LEMMA QuietCertificates ==
  ASSUME Certificates, UNCHANGED <<setting, results, certs>>, byName => byName',
         byName' \/ ((status' \in Late => status \in Late) /\ (status' \in Early => status \in Early))
  PROVE  Certificates'
  BY DEF Certificates, CertifiedHasCertificate, OneLive, CertifiedStaysApproved, LiveCerts, Late

LEMMA QuietMove ==
  ASSUME IInv, NEW r \in Requests, NEW h, req' = [req EXCEPT ![r] = h], Sound(h),
         Free(r) \/ req[r] # Idle,
         UNCHANGED <<setting, results, certs, byName>>, Rows',
         (status' \in Late => status \in Late) /\ (status' \in Early => status \in Early)
  PROVE  IInv'
<1>1. Sound(h)'
  BY DEF Sound, HandlerType, Pending, LiveCerts
<1>2. Handlers' /\ Alone'
  BY <1>1, HandlerMoves DEF IInv
<1>3. Certificates'
  BY QuietCertificates DEF IInv
<1> QED
  BY <1>2, <1>3 DEF IInv

(* No handler moves, and none of their rows. *)
LEMMA QuietStep ==
  ASSUME IInv, UNCHANGED <<req, setting, results, certs>>, Rows', byName => byName',
         byName' \/ ((status' \in Late => status \in Late) /\ (status' \in Early => status \in Early))
  PROVE  IInv'
<1>1. Handlers' /\ Alone'
  BY DEF IInv, Handlers, Alone, Sound, HandlerType, Pending, LiveCerts
<1>2. Certificates'
  BY QuietCertificates DEF IInv
<1> QED
  BY <1>1, <1>2 DEF IInv

-----------------------------------------------------------------------------
(* Handlers that begin. *)

LEMMA StartsTallyKeeps ==
  ASSUME IInv, NEW r \in Requests, NEW o \in Officials \cup {Nobody}, StartsTally(r, o), Free(r),
         autoTally' \in {"unsent", "queued", "lost", "done"}
  PROVE  IInv'
<1>1. PICK h : h = [Idle EXCEPT !.op = "count", !.by = o]
  OBVIOUS
<1>2. Sound(h)
  BY <1>1 DEF Sound, Idle, HandlerType, Ops
<1>3. /\ req' = [req EXCEPT ![r] = h] /\ UNCHANGED <<setting, results, certs, byName, shares>>
      /\ status \in {"CLOSED", "TALLYING"} /\ status' = "TALLYING"
  BY <1>1 DEF StartsTally
<1>4. Rows'
  BY <1>3 DEF Rows, IInv, Statuses
<1> QED
  BY <1>2, <1>3, <1>4, QuietMove DEF Early, Late

LEMMA LoadKeeps ==
  ASSUME IInv, NEW r \in Requests, NEW h, Sound(h), Free(r),
         req' = [req EXCEPT ![r] = h],
         UNCHANGED <<setting, status, autoTally, results, certs, shares, byName>>
  PROVE  IInv'
<1>1. Rows'
  BY DEF Rows, IInv
<1> QED
  BY <1>1, QuietMove

LEMMA StartsKeep ==
  ASSUME IInv, NEW r \in Requests, Starts(r) \/ AutoTally(r)
  PROVE  IInv'
<1>1. ASSUME NEW o \in Officials, Tally(r, o) PROVE IInv'
  BY <1>1, StartsTallyKeeps DEF Tally, IInv, Rows
<1>2. CASE AutoTally(r)
  <2>1. CASE RunsByItself
    BY <1>2, <2>1, StartsTallyKeeps DEF AutoTally
  <2>2. CASE ~RunsByItself
    <3>1. UNCHANGED <<setting, status, results, certs, shares, req, byName>> /\ autoTally' = "done"
      BY <1>2, <2>2 DEF AutoTally
    <3>2. Rows'
      BY <3>1 DEF Rows, IInv
    <3> QED
      BY <3>1, <3>2, QuietStep
  <2> QED
    BY <2>1, <2>2
<1>3. ASSUME NEW o \in Officials, Recount(r, o) PROVE IInv'
  <2>1. PICK h : h = [Idle EXCEPT !.op = "count", !.by = o, !.official = FALSE]
    OBVIOUS
  <2>2. Sound(h)
    BY <2>1 DEF Sound, Idle, HandlerType, Ops
  <2> QED
    BY <1>3, <2>1, <2>2, LoadKeeps DEF Recount
<1>4. ASSUME NEW o \in Officials, NEW i \in DOMAIN results, CertifyLoad(r, o, i) PROVE IInv'
  <2>0. i \in Nat
    BY DEF IInv, Rows
  <2>1. PICK h : h = [Idle EXCEPT !.op = "certify", !.by = o, !.item = i]
    OBVIOUS
  <2>2. Sound(h)
    BY <2>0, <2>1 DEF Sound, Idle, HandlerType, Ops
  <2> QED
    BY <1>4, <2>1, <2>2, LoadKeeps DEF CertifyLoad
<1>5. ASSUME NEW i \in DOMAIN results, RejectLoad(r, i) PROVE IInv'
  <2>0. i \in Nat /\ i \in Pending
    BY <1>5 DEF IInv, Rows, RejectLoad, Rejectable
  <2>1. PICK h : h = [Idle EXCEPT !.op = "reject", !.item = i]
    OBVIOUS
  <2>2. Sound(h)
    BY <2>0, <2>1 DEF Sound, Idle, HandlerType, Ops
  <2> QED
    BY <1>5, <2>1, <2>2, LoadKeeps DEF RejectLoad
<1>6. ASSUME RevokeLoad(r) PROVE IInv'
  <2>0. PICK c \in LiveCerts : req' = [req EXCEPT ![r] = [Idle EXCEPT !.op = "revoke", !.item = c]]
    BY <1>6 DEF RevokeLoad
  <2>1. PICK h : h = [Idle EXCEPT !.op = "revoke", !.item = c]
    OBVIOUS
  <2>2. c \in DOMAIN certs /\ c \in Nat
    BY DEF LiveCerts, IInv, Rows
  <2>3. Sound(h)
    BY <2>1, <2>2 DEF Sound, Idle, HandlerType, Ops
  <2> QED
    BY <1>6, <2>0, <2>1, <2>3, LoadKeeps DEF RevokeLoad
<1> QED
  BY <1>1, <1>2, <1>3, <1>4, <1>5, <1>6 DEF Starts

-----------------------------------------------------------------------------
(* The steps that only read, and those of the officials and the trustees. *)

LEMMA Busy ==
  ASSUME NEW r \in Requests, req[r].op # "idle"
  PROVE  req[r] # Idle
  BY DEF Idle

LEMMA ReadersKeep ==
  ASSUME IInv, NEW r \in Requests, Count(r) \/ Supersede(r) \/ Wipe(r) \/ Abandon(r)
  PROVE  IInv'
<1>0. Sound(req[r]) /\ Rows
  BY DEF IInv, Handlers
<1>1. CASE Count(r)
  <2>1. PICK h : h = [req[r] EXCEPT !.op = "store"]
    OBVIOUS
  <2>2. Sound(h)
    BY <1>0, <2>1 DEF Sound, HandlerType, Ops
  <2>3. /\ req' = [req EXCEPT ![r] = h] /\ req[r] # Idle
        /\ UNCHANGED <<setting, status, autoTally, results, certs, shares, byName>>
    BY <1>1, <2>1 DEF Count, Does, Then, Idle
  <2>4. Rows'
    BY <1>0, <2>3 DEF Rows
  <2> QED
    BY <2>2, <2>3, <2>4, QuietMove
<1>2. CASE Supersede(r)
  <2>0. PICK marked : /\ marked = IF req[r].official THEN Pending ELSE {}
                      /\ req' = [req EXCEPT ![r].op = "commit", ![r].marked = marked]
    BY <1>2 DEF Supersede, ToSupersede
  <2>1. PICK h : h = [req[r] EXCEPT !.op = "commit", !.marked = marked]
    OBVIOUS
  <2>2. Sound(h)
    BY <1>0, <2>0, <2>1 DEF Sound, HandlerType, Ops, Pending
  <2>3. /\ req' = [req EXCEPT ![r] = h] /\ req[r] # Idle
        /\ UNCHANGED <<setting, status, autoTally, results, certs, shares, byName>>
    <3>1. req[r] # Idle /\ UNCHANGED <<setting, status, autoTally, results, certs, shares, byName>>
      BY <1>2 DEF Supersede, Does, Idle
    <3>2. req = [q \in Requests |-> req[q]] /\ req[r] \in HandlerType
      BY <1>0 DEF IInv, Handlers, Sound
    <3>3. req' = [q \in Requests |-> IF q = r THEN h ELSE req[q]]
      BY <2>0, <2>1, <3>2 DEF HandlerType
    <3> QED
      BY <3>1, <3>2, <3>3
  <2>4. Rows'
    BY <1>0, <2>3 DEF Rows
  <2> QED
    BY <2>2, <2>3, <2>4, QuietMove
<1>3. CASE Wipe(r)
  <2>1. /\ req' = [req EXCEPT ![r] = Idle] /\ req[r] # Idle
        /\ UNCHANGED <<setting, status, autoTally, results, certs, byName>>
        /\ shares' = [t \in Trustees |-> Wiped(t)]
    BY <1>3 DEF Wipe, Does, End, Idle
  <2>2. shares' \in [Trustees -> Share] /\ \A t \in Trustees : ~shares'[t].submitted
    BY <1>0, <2>1 DEF Rows, Wiped, Share
  <2>3. Rows'
    BY <1>0, <2>1, <2>2 DEF Rows
  <2> QED
    BY <2>1, <2>3, IdleSound, QuietMove
<1>4. CASE Abandon(r)
  <2>1. /\ req' = [req EXCEPT ![r] = Idle] /\ req[r] # Idle
        /\ UNCHANGED <<setting, status, autoTally, results, certs, shares, byName>>
    BY <1>4 DEF Abandon, End
  <2>2. Rows'
    BY <1>0, <2>1 DEF Rows
  <2> QED
    BY <2>1, <2>2, IdleSound, QuietMove
<1> QED
  BY <1>1, <1>2, <1>3, <1>4

LEMMA OthersKeep ==
  ASSUME IInv,
         \/ Close \/ Publish \/ Archive \/ PostedByName
         \/ \E t \in Trustees : CollectShare(t) \/ SubmitShare(t)
  PROVE  IInv'
<1>0. Rows
  BY DEF IInv
<1>1. CASE Close \/ Publish \/ Archive \/ PostedByName
  <2>1. UNCHANGED <<req, setting, results, certs, shares>> /\ (byName => byName')
    BY <1>1 DEF Close, Publish, Archive, PostedByName
  <2>2. Rows'
    BY <1>0, <1>1, <2>1 DEF Rows, Close, Publish, Archive, PostedByName, Statuses
  <2>3. byName' \/ ((status' \in Late => status \in Late) /\ (status' \in Early => status \in Early))
    BY <1>1 DEF Close, Publish, Archive, PostedByName, Early, Late
  <2> QED
    BY <2>1, <2>2, <2>3, QuietStep
<1>2. ASSUME NEW t \in Trustees, CollectShare(t) \/ SubmitShare(t) PROVE IInv'
  <2>1. UNCHANGED <<setting, status, autoTally, results, certs, req, byName>>
    BY <1>2 DEF CollectShare, SubmitShare
  <2>2. shares[t] \in Share
    BY <1>0 DEF Rows
  <2>3. PICK s \in Share : shares' = [shares EXCEPT ![t] = s] /\ (s.submitted => s.submittedAt /\ ~s.pending)
    <3>1. CASE CollectShare(t)
      <4>1. [shares[t] EXCEPT !.pending = FALSE] \in Share
        BY <2>2 DEF Share
      <4>2. shares' = [shares EXCEPT ![t] = [shares[t] EXCEPT !.pending = FALSE]]
        BY <3>1 DEF CollectShare
      <4> QED
        BY <1>0, <2>2, <4>1, <4>2 DEF Rows, Share
    <3>2. CASE SubmitShare(t)
      <4>1. [shares[t] EXCEPT !.submitted = TRUE, !.submittedAt = TRUE] \in Share
        BY <2>2 DEF Share
      <4>2. shares' = [shares EXCEPT ![t] = [shares[t] EXCEPT !.submitted = TRUE, !.submittedAt = TRUE]]
        BY <3>2 DEF SubmitShare
      <4> QED
        BY <2>2, <3>2, <4>1, <4>2 DEF Share, SubmitShare
    <3> QED
      BY <1>2, <3>1, <3>2
  <2>4. Rows'
    BY <1>0, <2>1, <2>3 DEF Rows
  <2> QED
    BY <2>1, <2>4, QuietStep
<1> QED
  BY <1>1, <1>2

-----------------------------------------------------------------------------
(* The transactions that write results and certificates. *)

LEMMA OneRowChanges ==
  ASSUME NEW R, NEW s \in Seq(R), NEW i \in DOMAIN s, NEW x \in R
  PROVE  /\ [s EXCEPT ![i] = x] \in Seq(R) /\ Len([s EXCEPT ![i] = x]) = Len(s)
         /\ DOMAIN [s EXCEPT ![i] = x] = DOMAIN s
         /\ \A j \in DOMAIN s : [s EXCEPT ![i] = x][j] = IF j = i THEN x ELSE s[j]
  BY ExceptSeq

LEMMA ResultChanges ==
  ASSUME Rows, NEW i \in DOMAIN results, NEW st \in ResultStatus,
         results' = [results EXCEPT ![i].status = st]
  PROVE  /\ results' \in Seq(Result) /\ Len(results') = Len(results) /\ DOMAIN results' = DOMAIN results
         /\ \A j \in DOMAIN results : results'[j].status = IF j = i THEN st ELSE results[j].status
<1>1. results[i] \in Result
  BY DEF Rows
<1>2. PICK x : x = [results[i] EXCEPT !.status = st]
  OBVIOUS
<1>3. x \in Result /\ x.status = st
  BY <1>1, <1>2 DEF Result
<1>4. results' = [results EXCEPT ![i] = x] /\ results \in Seq(Result)
  BY <1>2 DEF Rows
<1> QED
  BY <1>3, <1>4, OneRowChanges

LEMMA StoreKeeps ==
  ASSUME IInv, NEW r \in Requests, Store(r)
  PROVE  IInv'
<1>0. Rows /\ Sound(req[r]) /\ req[r] # Idle
  BY DEF IInv, Handlers, Store, Does, Idle
<1>1. PICK kept : kept = [i \in DOMAIN results |->
                            IF i \in req[r].marked THEN [results[i] EXCEPT !.status = "SUPERSEDED"]
                                                   ELSE results[i]]
  OBVIOUS
<1>2. PICK new : new = [status |-> IF req[r].official THEN "PENDING_REVIEW" ELSE "INFORMATIONAL",
                        talliedBy |-> req[r].by]
  OBVIOUS
<1>3. results' = Append(kept, new)
  BY <1>1, <1>2 DEF Store
<1>4. new \in Result
  BY <1>0, <1>2 DEF Sound, HandlerType, Result, ResultStatus
<1>5. /\ DOMAIN results = 1..Len(results) /\ Len(results) \in Nat
      /\ \A i \in DOMAIN results : results[i] \in Result
  BY <1>0 DEF Rows
<1>6. \A i \in DOMAIN results :
         kept[i] \in Result /\ kept[i].status = IF i \in req[r].marked THEN "SUPERSEDED" ELSE results[i].status
  BY <1>1, <1>5 DEF Result, ResultStatus
<1>7. kept \in [1..Len(results) -> Result]
  BY <1>1, <1>5, <1>6
<1>8. kept \in Seq(Result) /\ Len(kept) = Len(results)
  BY <1>5, <1>7
<1>9. /\ results' \in Seq(Result) /\ Len(results') = Len(results) + 1
      /\ \A i \in DOMAIN results : i \in DOMAIN results' /\ results'[i] = kept[i]
  BY <1>3, <1>4, <1>5, <1>8
<1>10. UNCHANGED <<setting, status, autoTally, certs, shares, byName>> /\ Len(results) < setting.tallies
  BY DEF Store
<1>11. setting.tallies \in Nat
  BY <1>0, ResultsAssumption DEF Rows
<1>12. Rows'
  BY <1>0, <1>5, <1>9, <1>10, <1>11 DEF Rows
<1>13. PICK h : h = IF req[r].official THEN [req[r] EXCEPT !.op = "wipe", !.marked = {}] ELSE Idle
  OBVIOUS
<1>14. Sound(h)'
  <2>1. CASE req[r].official
    <3>1. h \in HandlerType' /\ h.op = "wipe" /\ h.marked = {}
      BY <1>0, <1>13, <2>1 DEF Sound, HandlerType, Ops
    <3> QED
      BY <3>1 DEF Sound
  <2>2. CASE ~req[r].official
    BY <1>13, <2>2 DEF Sound, Idle, HandlerType, Ops
  <2> QED
    BY <2>1, <2>2
<1>15. req' = [req EXCEPT ![r] = h]
  BY <1>13 DEF Store
<1>16. Handlers' /\ Alone'
  BY <1>0, <1>9, <1>10, <1>14, <1>15, HandlerMoves DEF IInv
<1>17. CertifiedHasCertificate' /\ OneLive'
  BY <1>10 DEF IInv, Certificates, CertifiedHasCertificate, OneLive, LiveCerts
<1>18. CertifiedStaysApproved'
  <2> SUFFICES ASSUME ~byName, ~setting.overlap, NEW c \in LiveCerts
               PROVE  results'[certs[c].result].status = "APPROVED"
    BY <1>10 DEF CertifiedStaysApproved, LiveCerts
  <2>1. results[certs[c].result].status = "APPROVED" /\ certs[c].result \in DOMAIN results
    BY <1>0 DEF IInv, Certificates, CertifiedStaysApproved, Rows, LiveCerts
  <2>2. certs[c].result \notin req[r].marked
    BY <1>0, <2>1 DEF Sound, Pending
  <2> QED
    BY <1>6, <1>9, <2>1, <2>2
<1> QED
  BY <1>12, <1>16, <1>17, <1>18 DEF IInv, Certificates

LEMMA RejectKeeps ==
  ASSUME IInv, NEW r \in Requests, RejectSave(r)
  PROVE  IInv'
<1>0. Rows /\ Sound(req[r]) /\ req[r] # Idle /\ req[r].op = "reject"
  BY DEF IInv, Handlers, RejectSave, Does, Idle
<1>1. PICK i : i = req[r].item
  OBVIOUS
<1>2. i \in DOMAIN results /\ (~setting.overlap => i \in Pending)
  BY <1>0, <1>1 DEF Sound
<1>3. /\ results' = [results EXCEPT ![i].status = "REJECTED"] /\ req' = [req EXCEPT ![r] = Idle]
      /\ UNCHANGED <<setting, status, autoTally, certs, shares, byName>>
  BY <1>1 DEF RejectSave, End
<1>4. /\ results' \in Seq(Result) /\ Len(results') = Len(results) /\ DOMAIN results' = DOMAIN results
      /\ \A j \in DOMAIN results : results'[j].status = IF j = i THEN "REJECTED" ELSE results[j].status
  BY <1>0, <1>2, <1>3, ResultChanges DEF ResultStatus
<1>5. Rows'
  BY <1>0, <1>3, <1>4 DEF Rows
<1>6. Sound(Idle)'
  BY DEF Sound, Idle, HandlerType, Ops
<1>7. Handlers' /\ Alone'
  BY <1>0, <1>3, <1>4, <1>6, HandlerMoves DEF IInv
<1>8. CertifiedHasCertificate' /\ OneLive'
  BY <1>3 DEF IInv, Certificates, CertifiedHasCertificate, OneLive, LiveCerts
<1>9. CertifiedStaysApproved'
  <2> SUFFICES ASSUME ~byName, ~setting.overlap, NEW c \in LiveCerts
               PROVE  results'[certs[c].result].status = "APPROVED"
    BY <1>3 DEF CertifiedStaysApproved, LiveCerts
  <2>1. results[certs[c].result].status = "APPROVED" /\ certs[c].result \in DOMAIN results
    BY <1>0 DEF IInv, Certificates, CertifiedStaysApproved, Rows, LiveCerts
  <2> QED
    BY <1>2, <1>4, <2>1 DEF Pending
<1> QED
  BY <1>5, <1>7, <1>8, <1>9 DEF IInv, Certificates

LEMMA CertifyKeeps ==
  ASSUME IInv, NEW r \in Requests, CertifyCommit(r)
  PROVE  IInv'
<1>0. Rows /\ Sound(req[r]) /\ req[r] # Idle /\ req[r].op = "certify"
  BY DEF IInv, Handlers, CertifyCommit, Does, Idle
<1>1. PICK i : i = req[r].item
  OBVIOUS
<1>2. i \in DOMAIN results /\ i \in Nat \ {0}
  BY <1>0, <1>1 DEF Sound, Rows
<1>3. /\ results' = [results EXCEPT ![i].status = "APPROVED"] /\ req' = [req EXCEPT ![r] = Idle]
      /\ certs' = Append(certs, [result |-> i, revoked |-> FALSE])
      /\ status = "TALLYING" /\ status' = "CERTIFIED" /\ Len(certs) < MaxCertifications
      /\ UNCHANGED <<setting, autoTally, shares, byName>>
  BY <1>1 DEF CertifyCommit, End, InTallying
<1>4. /\ results' \in Seq(Result) /\ Len(results') = Len(results) /\ DOMAIN results' = DOMAIN results
      /\ \A j \in DOMAIN results : results'[j].status = IF j = i THEN "APPROVED" ELSE results[j].status
  BY <1>0, <1>2, <1>3, ResultChanges DEF ResultStatus
<1>5. PICK new : new = [result |-> i, revoked |-> FALSE]
  OBVIOUS
<1>6. new \in Certification /\ new.result = i /\ ~new.revoked
  BY <1>2, <1>5 DEF Certification
<1>7. certs' = Append(certs, new) /\ certs \in Seq(Certification) /\ Len(certs) \in Nat
  BY <1>0, <1>3, <1>5 DEF Rows
<1>8. /\ certs' \in Seq(Certification) /\ Len(certs') = Len(certs) + 1
      /\ DOMAIN certs' = DOMAIN certs \cup {Len(certs) + 1} /\ Len(certs) + 1 \notin DOMAIN certs
      /\ certs'[Len(certs) + 1] = new
      /\ \A c \in DOMAIN certs : certs'[c] = certs[c]
  BY <1>6, <1>7
<1>9. MaxCertifications \in Nat
  BY ResultsAssumption
<1>10. Rows'
  BY <1>0, <1>2, <1>3, <1>4, <1>6, <1>7, <1>8, <1>9 DEF Rows, Statuses
<1>11. Sound(Idle)'
  BY DEF Sound, Idle, HandlerType, Ops
<1>12. Handlers' /\ Alone'
  BY <1>0, <1>3, <1>4, <1>8, <1>11, HandlerMoves DEF IInv
<1>13. LiveCerts' = LiveCerts \cup {Len(certs) + 1}
  BY <1>6, <1>8 DEF LiveCerts
<1>14. ~byName /\ ~setting.overlap => LiveCerts = {}
  BY <1>3 DEF IInv, Certificates, OneLive, Early
<1>15. CertifiedHasCertificate' /\ OneLive'
  BY <1>3, <1>13, <1>14 DEF CertifiedHasCertificate, OneLive, Early
<1>16. CertifiedStaysApproved'
  BY <1>2, <1>3, <1>4, <1>6, <1>8, <1>13, <1>14 DEF CertifiedStaysApproved
<1> QED
  BY <1>10, <1>12, <1>15, <1>16 DEF IInv, Certificates

LEMMA RevokeKeeps ==
  ASSUME IInv, NEW r \in Requests, RevokeCommit(r)
  PROVE  IInv'
<1>0. Rows /\ Sound(req[r]) /\ req[r] # Idle /\ req[r].op = "revoke"
  BY DEF IInv, Handlers, RevokeCommit, Does, Idle
<1>1. PICK d : d = req[r].item
  OBVIOUS
<1>2. d \in DOMAIN certs /\ (~setting.overlap => d \in LiveCerts)
  BY <1>0, <1>1 DEF Sound
<1>3. PICK i : i = certs[d].result
  OBVIOUS
<1>4. i \in DOMAIN results
  BY <1>0, <1>2, <1>3 DEF Rows
<1>5. /\ results' = [results EXCEPT ![i].status = "SUPERSEDED"] /\ req' = [req EXCEPT ![r] = Idle]
      /\ certs' = [certs EXCEPT ![d].revoked = TRUE]
      /\ status' = "TALLYING"
      /\ UNCHANGED <<setting, autoTally, shares, byName>>
  BY <1>1, <1>3 DEF RevokeCommit, End, Revoked, Decertified
<1>6. /\ results' \in Seq(Result) /\ Len(results') = Len(results) /\ DOMAIN results' = DOMAIN results
  BY <1>0, <1>4, <1>5, ResultChanges DEF ResultStatus
<1>7. PICK x : x = [certs[d] EXCEPT !.revoked = TRUE]
  OBVIOUS
<1>8. x \in Certification /\ x.result = i /\ x.revoked
  <2>1. certs[d] \in Certification
    BY <1>0, <1>2 DEF Rows
  <2> QED
    BY <1>3, <1>7, <2>1 DEF Certification
<1>9. certs \in Seq(Certification) /\ certs' = [certs EXCEPT ![d] = x]
  BY <1>0, <1>5, <1>7 DEF Rows
<1>10. /\ certs' \in Seq(Certification) /\ Len(certs') = Len(certs) /\ DOMAIN certs' = DOMAIN certs
       /\ \A c \in DOMAIN certs : certs'[c] = IF c = d THEN x ELSE certs[c]
  BY <1>2, <1>8, <1>9, OneRowChanges
<1>11. Rows'
  BY <1>0, <1>4, <1>5, <1>6, <1>8, <1>10 DEF Rows, Statuses
<1>12. Sound(Idle)'
  BY DEF Sound, Idle, HandlerType, Ops
<1>13. Handlers' /\ Alone'
  BY <1>0, <1>5, <1>6, <1>10, <1>12, HandlerMoves DEF IInv
<1>14. LiveCerts' = LiveCerts \ {d}
  BY <1>8, <1>10 DEF LiveCerts
<1>15. ~byName /\ ~setting.overlap => LiveCerts' = {}
  BY <1>2, <1>14 DEF IInv, Certificates, OneLive
<1>16. CertifiedHasCertificate' /\ OneLive'
  BY <1>5, <1>15 DEF CertifiedHasCertificate, OneLive
<1>17. CertifiedStaysApproved'
  BY <1>5, <1>15 DEF CertifiedStaysApproved
<1> QED
  BY <1>11, <1>13, <1>16, <1>17 DEF IInv, Certificates

-----------------------------------------------------------------------------
(* The theorems. *)

LEMMA InitInvariant == Init => IInv
<1> SUFFICES ASSUME Init PROVE IInv
  OBVIOUS
<1>1. setting.tallies \in Nat /\ setting \in Settings /\ setting.custody \in {"SYSTEM", "TRUSTEES"}
  BY ResultsAssumption DEF Init
<1>2. shares \in [Trustees -> Share] /\ \A t \in Trustees : ~shares[t].submitted
  BY <1>1 DEF Init, Share
<1>3. DOMAIN results = {} /\ DOMAIN certs = {} /\ Len(results) = 0 /\ Len(certs) = 0
      /\ results \in Seq(Result) /\ certs \in Seq(Certification)
  BY DEF Init
<1>4. Rows
  <2>1. status \in Statuses /\ byName \in BOOLEAN /\ autoTally = "unsent"
    BY DEF Init, Statuses
  <2>2. Len(results) <= setting.tallies /\ Len(certs) <= MaxCertifications
    BY <1>1, <1>3, ResultsAssumption
  <2> QED
    BY <1>1, <1>2, <1>3, <2>1, <2>2 DEF Rows
<1>5. \A r \in Requests : req[r] = Idle
  BY DEF Init
<1>6. Handlers /\ Alone
  BY <1>5, IdleSound DEF Handlers, Alone, Init
<1>7. LiveCerts = {}
  BY <1>3 DEF LiveCerts
<1>8. Certificates
  BY <1>7 DEF Init, Certificates, CertifiedHasCertificate, OneLive, CertifiedStaysApproved
<1> QED
  BY <1>4, <1>6, <1>8 DEF IInv

LEMMA NextKeeps == IInv /\ [Next]_vars => IInv'
<1> SUFFICES ASSUME IInv, [Next]_vars PROVE IInv'
  OBVIOUS
<1>1. CASE UNCHANGED vars
  <2>1. Rows'
    BY <1>1 DEF vars, IInv, Rows
  <2> QED
    BY <1>1, <2>1, QuietStep DEF vars
<1>2. CASE \E r \in Requests : Starts(r) \/ Continues(r) \/ AutoTally(r)
  BY <1>2, StartsKeep, ReadersKeep, StoreKeeps, CertifyKeeps, RejectKeeps, RevokeKeeps DEF Continues
<1>3. CASE Close \/ Publish \/ Archive \/ PostedByName \/ \E t \in Trustees : CollectShare(t) \/ SubmitShare(t)
  BY <1>3, OthersKeep
<1> QED
  BY <1>1, <1>2, <1>3 DEF Next

LEMMA Invariant == Spec => []IInv
  BY InitInvariant, NextKeeps, PTL DEF Spec

(* Every row has its type; a certificate names a result that is there, and a *)
(* stored share has its date (elections/results.py, keys.py). *)
THEOREM TypeCorrect == Spec => []TypeOK
<1>1. IInv => TypeOK
  <2> SUFFICES ASSUME IInv PROVE TypeOK
    OBVIOUS
  <2>1. \A r \in Requests : req[r] \in HandlerType
    BY DEF IInv, Handlers, Sound
  <2>2. req \in [Requests -> HandlerType]
    BY <2>1 DEF IInv, Handlers
  <2> QED
    BY <2>2 DEF IInv, Rows, TypeOK, HandlerType
<1> QED
  BY <1>1, Invariant, PTL

(* approve_and_certify, revoke_certification: a certified election has a     *)
(* live certificate, however handlers overlap; while they do not, it is the  *)
(* only one. *)
THEOREM CertificateStands == Spec => []CertificationsHold
<1>1. IInv => CertificationsHold
  <2> SUFFICES ASSUME IInv PROVE CertificationsHold
    OBVIOUS
  <2>1. CertifiedHasCertificate
    BY DEF IInv, Certificates
  <2>2. ASSUME ~byName, ~setting.overlap
        PROVE  Cardinality(LiveCerts) <= 1 /\ (status = "TALLYING" => LiveCerts = {})
    <3>1. (\A c, d \in LiveCerts : c = d) /\ (status = "TALLYING" => LiveCerts = {})
      BY <2>2 DEF IInv, Certificates, OneLive, Early
    <3>2. CASE LiveCerts = {}
      BY <3>1, <3>2, FS_EmptySet
    <3>3. CASE LiveCerts # {}
      <4>1. PICK c : LiveCerts = {c}
        BY <3>1, <3>3
      <4>2. Cardinality({c}) = 1
        BY FS_Singleton
      <4> QED
        BY <3>1, <4>1, <4>2
    <3> QED
      BY <3>2, <3>3
  <2> QED
    BY <2>1, <2>2 DEF CertificationsHold, OneCurrentCertification
<1> QED
  BY <1>1, Invariant, PTL

(* reject_result, _store_result: what a live certificate signs stays an      *)
(* approved result, while handlers do not overlap. *)
THEOREM SignedStaysApproved == Spec => []CertifiedStaysApproved
<1>1. IInv => CertifiedStaysApproved
  BY DEF IInv, Certificates
<1> QED
  BY <1>1, Invariant, PTL

-----------------------------------------------------------------------------
(* Bulletin: the board and its Merkle tree.                                  *)

LEMMA Smallest ==
  ASSUME NEW S, S \subseteq Nat, S # {}
  PROVE  \E x \in S : \A y \in S : x <= y
<1>1. IsWellFoundedOn(OpToRel(<, Nat), Nat)
  BY NatLessThanWellFounded
<1>2. PICK x \in S : \A y \in S : <<y, x>> \notin OpToRel(<, Nat)
  BY <1>1, WFMin
<1>3. ASSUME NEW y \in S PROVE x <= y
  <2>1. x \in Nat /\ y \in Nat
    BY <1>2
  <2>2. ~(y < x)
    BY <1>2, <2>1 DEF OpToRel
  <2> QED
    BY <2>1, <2>2
<1> QED
  BY <1>2, <1>3

LEMMA Largest ==
  ASSUME NEW S, S \subseteq Nat, S # {}, NEW n \in Nat, \A x \in S : x <= n
  PROVE  \E x \in S : \A y \in S : y <= x
<1> DEFINE Left == {n - x : x \in S}
<1>1. Left \subseteq Nat /\ Left # {}
  <2>1. \A x \in S : n - x \in Nat
    OBVIOUS
  <2> QED
    BY <2>1
<1>2. PICK d \in Left : \A e \in Left : d <= e
  <2> HIDE DEF Left
  <2> QED
    BY <1>1, Smallest
<1>3. PICK x \in S : d = n - x
  BY <1>2
<1>4. ASSUME NEW y \in S PROVE y <= x
  <2>1. n - y \in Left /\ x \in Nat /\ y \in Nat
    OBVIOUS
  <2>2. d <= n - y
    BY <1>2, <2>1
  <2> QED
    BY <1>3, <2>1, <2>2
<1> QED
  BY <1>4

LEMMA Bounded ==
  ASSUME NEW S, S \subseteq Nat, IsFiniteSet(S)
  PROVE  \E n \in Nat : \A x \in S : x <= n
<1> DEFINE Has(T) == \E n \in Nat : \A x \in T : x <= n
<1> DEFINE Bad == {T \in SUBSET S : ~Has(T)}
<1>1. SUFFICES ASSUME Bad # {} PROVE FALSE
  OBVIOUS
<1>2. \A T \in SUBSET S : IsFiniteSet(T) /\ Cardinality(T) \in Nat
  BY FS_Subset, FS_CardinalityType
<1>3. PICK T \in Bad : \A U \in Bad : Cardinality(T) <= Cardinality(U)
  <2> DEFINE Sizes == {Cardinality(U) : U \in Bad}
  <2>1. Sizes \subseteq Nat /\ Sizes # {}
    BY <1>1, <1>2
  <2>2. PICK k \in Sizes : \A j \in Sizes : k <= j
    <3> HIDE DEF Sizes
    <3> QED
      BY <2>1, Smallest
  <2> QED
    BY <2>2
<1>4. T # {}
  BY <1>3
<1>5. PICK x \in T : TRUE
  BY <1>4
<1>6. IsFiniteSet(T) /\ Cardinality(T \ {x}) = Cardinality(T) - 1 /\ T \ {x} \in SUBSET S
  BY <1>2, <1>3, <1>5, FS_RemoveElement
<1>7. Has(T \ {x})
  <2>1. Cardinality(T) \in Nat /\ ~(Cardinality(T) <= Cardinality(T) - 1)
    BY <1>2, <1>3
  <2> QED
    BY <1>3, <1>6, <2>1
<1>8. PICK n \in Nat : \A y \in T \ {x} : y <= n
  BY <1>7
<1>9. x \in Nat
  BY <1>3, <1>5
<1>10. CASE x <= n
  <2>1. \A y \in T : y <= n
    BY <1>8, <1>10
  <2> QED
    BY <1>3, <2>1
<1>11. CASE ~(x <= n)
  <2>1. \A y \in T : y <= x
    <3> TAKE y \in T
    <3>1. y \in Nat
      BY <1>3
    <3> QED
      BY <1>8, <1>9, <1>11, <3>1
  <2> QED
    BY <1>3, <1>9, <2>1
<1> QED
  BY <1>10, <1>11

(* The sorted board: every tracker once. *)
Sorts(s, S) ==
    /\ s \in [1..Cardinality(S) -> S] /\ Range(s) = S
    /\ \A i, j \in DOMAIN s : i < j => s[i] < s[j]

LEMMA SomeSort ==
  ASSUME NEW S, S \subseteq Nat, IsFiniteSet(S)
  PROVE  \E s : Sorts(s, S)
<1> DEFINE Bad == {T \in SUBSET S : ~\E s : Sorts(s, T)}
<1>1. SUFFICES ASSUME Bad # {} PROVE FALSE
  OBVIOUS
<1>2. \A T \in SUBSET S : IsFiniteSet(T) /\ Cardinality(T) \in Nat
  BY FS_Subset, FS_CardinalityType
<1>3. PICK T \in Bad : \A U \in Bad : Cardinality(T) <= Cardinality(U)
  <2> DEFINE Sizes == {Cardinality(U) : U \in Bad}
  <2>1. Sizes \subseteq Nat /\ Sizes # {}
    BY <1>1, <1>2
  <2>2. PICK k \in Sizes : \A j \in Sizes : k <= j
    <3> HIDE DEF Sizes
    <3> QED
      BY <2>1, Smallest
  <2> QED
    BY <2>2
<1>4. T # {}
  <2>1. ASSUME T = {} PROVE FALSE
    <3>1. Cardinality(T) = 0
      BY <2>1, FS_EmptySet
    <3>2. PICK s : s = [i \in 1..0 |-> i]
      OBVIOUS
    <3>3. s \in [1..0 -> T] /\ Range(s) = T /\ DOMAIN s = {}
      BY <2>1, <3>2 DEF Range
    <3>4. Sorts(s, T)
      BY <3>1, <3>3 DEF Sorts
    <3> QED
      BY <1>3, <3>4
  <2> QED
    BY <2>1
<1>5. T \subseteq Nat /\ IsFiniteSet(T)
  BY <1>2, <1>3
<1>6. PICK n \in Nat : \A x \in T : x <= n
  BY <1>5, Bounded
<1>7. PICK x \in T : \A y \in T : y <= x
  BY <1>4, <1>5, <1>6, Largest
<1>8. PICK R : R = T \ {x}
  OBVIOUS
<1>9. PICK k \in Nat : k = Cardinality(R)
  BY <1>2, <1>3, <1>8
<1>10. Cardinality(T) = k + 1 /\ R \in SUBSET S
  <2>1. Cardinality(R) = Cardinality(T) - 1
    BY <1>5, <1>7, <1>8, FS_RemoveElement
  <2>2. Cardinality(T) \in Nat
    BY <1>2, <1>3
  <2> QED
    BY <1>3, <1>8, <1>9, <2>1, <2>2
<1>11. PICK r : Sorts(r, R)
  <2>1. ~(k + 1 <= k)
    OBVIOUS
  <2> QED
    BY <1>3, <1>9, <1>10, <2>1
<1>12. /\ r \in [1..k -> R] /\ \A y \in R : \E i \in 1..k : r[i] = y
       /\ \A i, j \in 1..k : i < j => r[i] < r[j]
  BY <1>9, <1>11 DEF Sorts, Range
<1>13. PICK s : s = [i \in 1..(k + 1) |-> IF i = k + 1 THEN x ELSE r[i]]
  OBVIOUS
<1>14. \A i \in 1..(k + 1) : i # k + 1 => i \in 1..k
  OBVIOUS
<1>15. s \in [1..(k + 1) -> T]
  BY <1>7, <1>8, <1>12, <1>13, <1>14
<1>16. Range(s) = T
  <2>1. ASSUME NEW y \in T PROVE \E i \in 1..(k + 1) : s[i] = y
    <3>1. CASE y = x
      <4>1. k + 1 \in 1..(k + 1)
        OBVIOUS
      <4> QED
        BY <1>13, <3>1, <4>1
    <3>2. CASE y # x
      <4>1. PICK i \in 1..k : r[i] = y
        BY <1>8, <1>12, <3>2
      <4>2. i \in 1..(k + 1) /\ i # k + 1
        OBVIOUS
      <4> QED
        BY <1>13, <4>1, <4>2
    <3> QED
      BY <3>1, <3>2
  <2> QED
    BY <1>15, <2>1 DEF Range
<1>17. ASSUME NEW i \in 1..(k + 1), NEW j \in 1..(k + 1), i < j PROVE s[i] < s[j]
  <2>1. i # k + 1 /\ i \in 1..k /\ s[i] = r[i] /\ r[i] \in R
    BY <1>12, <1>13, <1>17
  <2>2. CASE j = k + 1
    <3>1. s[j] = x /\ r[i] # x /\ r[i] <= x /\ r[i] \in Nat /\ x \in Nat
      BY <1>5, <1>7, <1>8, <1>13, <2>1, <2>2
    <3> QED
      BY <2>1, <3>1
  <2>3. CASE j # k + 1
    <3>1. j \in 1..k /\ s[j] = r[j]
      BY <1>13, <2>3
    <3> QED
      BY <1>12, <1>17, <2>1, <3>1
  <2> QED
    BY <2>2, <2>3
<1>18. Sorts(s, T)
  <2>1. DOMAIN s = 1..(k + 1)
    BY <1>13
  <2> QED
    BY <1>10, <1>15, <1>16, <1>17, <2>1 DEF Sorts
<1> QED
  BY <1>3, <1>18

LEMMA SortedIs ==
  ASSUME NEW S, S \subseteq Trackers
  PROVE  /\ IsFiniteSet(S) /\ Cardinality(S) \in Nat
         /\ Sorted(S) \in [1..Cardinality(S) -> S] /\ Range(Sorted(S)) = S
         /\ \A i, j \in 1..Cardinality(S) : Sorted(S)[i] = Sorted(S)[j] => i = j
<1>1. S \subseteq Nat /\ IsFiniteSet(S) /\ Cardinality(S) \in Nat
  BY BulletinAssumption, FS_Subset, FS_CardinalityType
<1>2. \E s : Sorts(s, S)
  BY <1>1, SomeSort
<1>3. Sorts(Sorted(S), S)
  BY <1>2 DEF Sorts, Sorted
<1>4. PICK s : s = Sorted(S)
  OBVIOUS
<1>5. s \in [1..Cardinality(S) -> S] /\ \A i, j \in 1..Cardinality(S) : i < j => s[i] < s[j]
  BY <1>3, <1>4 DEF Sorts
<1>6. ASSUME NEW i \in 1..Cardinality(S), NEW j \in 1..Cardinality(S), s[i] = s[j] PROVE i = j
  <2>0. s[i] \in Nat /\ s[j] \in Nat
    BY <1>1, <1>5
  <2>1. ~(s[i] < s[j]) /\ ~(s[j] < s[i])
    BY <1>6, <2>0
  <2>2. ~(i < j) /\ ~(j < i)
    BY <1>5, <2>1
  <2> QED
    BY <2>2
<1> QED
  BY <1>1, <1>3, <1>4, <1>6 DEF Sorts

-----------------------------------------------------------------------------
(* Bulletin: one level of the tree, and all of them.                         *)

(* A level with n nodes, written as a function. *)
IsLevel(level, n) == level = [i \in 1..n |-> level[i]]

(* Node i of the level above: a last node without a partner is its own.      *)
Above(level, n, i) == HashPair(level[2 * i - 1], level[IF 2 * i <= n THEN 2 * i ELSE 2 * i - 1])

LEMMA LenIs ==
  ASSUME NEW level, NEW n \in Nat, IsLevel(level, n)
  PROVE  Len(level) = n /\ DOMAIN level = 1..n
<1>1. level \in Seq({level[i] : i \in 1..n})
  BY IsASeq DEF IsLevel
<1>2. DOMAIN level = 1..n
  BY DEF IsLevel
<1> QED
  BY <1>1, <1>2, LenProperties

LEMMA Halves ==
  ASSUME NEW n \in Nat
  PROVE  \E m \in Nat : \/ n = 2 * m /\ n % 2 = 0 /\ n \div 2 = m
                        \/ n = 2 * m + 1 /\ n % 2 = 1 /\ n \div 2 = m
<1>1. n \div 2 \in Nat /\ n % 2 \in 0..1 /\ n = 2 * (n \div 2) + (n % 2)
  OBVIOUS
<1> QED
  BY <1>1

LEMMA EvenedIs ==
  ASSUME NEW level, NEW n \in Nat, n # 0, IsLevel(level, n)
  PROVE  \E m \in Nat :
            /\ m # 0 /\ (n = 2 * m \/ n = 2 * m - 1) /\ IsLevel(Evened(level), 2 * m)
            /\ \A i \in 1..(2 * m) : Evened(level)[i] = level[IF i <= n THEN i ELSE n]
<1>1. Len(level) = n /\ DOMAIN level = 1..n
  BY LenIs
<1>2. PICK h \in Nat : \/ n = 2 * h /\ n % 2 = 0
                       \/ n = 2 * h + 1 /\ n % 2 = 1
  BY Halves
<1>3. CASE n = 2 * h /\ n % 2 = 0
  <2>1. Evened(level) = level
    BY <1>1, <1>3 DEF Evened
  <2>2. \A i \in 1..(2 * h) : i <= n
    BY <1>3
  <2>3. h # 0
    BY <1>3
  <2> QED
    BY <1>3, <2>1, <2>2, <2>3
<1>4. CASE n = 2 * h + 1 /\ n % 2 = 1
  <2>1. PICK even : even = Evened(level)
    OBVIOUS
  <2>2. even = Append(level, level[n])
    BY <1>1, <1>4, <2>1 DEF Evened, Last
  <2>3. n \in 1..n /\ level \in Seq({level[i] : i \in 1..n})
    BY IsASeq DEF IsLevel
  <2>4. /\ even \in Seq({level[i] : i \in 1..n}) /\ Len(even) = n + 1
        /\ \A i \in 1..n : even[i] = level[i]
        /\ even[n + 1] = level[n]
    BY <1>1, <2>2, <2>3, AppendProperties
  <2>5. n + 1 = 2 * (h + 1) /\ h + 1 \in Nat /\ h + 1 # 0 /\ n = 2 * (h + 1) - 1
    BY <1>4
  <2>6. IsLevel(even, n + 1)
    BY <2>4, LenProperties DEF IsLevel
  <2>7. \A i \in 1..(n + 1) : even[i] = level[IF i <= n THEN i ELSE n]
    <3> TAKE i \in 1..(n + 1)
    <3>1. CASE i <= n
      BY <2>4, <3>1
    <3>2. CASE ~(i <= n)
      <4>1. i = n + 1
        BY <3>2
      <4> QED
        BY <2>4, <3>2, <4>1
    <3> QED
      BY <3>1, <3>2
  <2> QED
    BY <2>1, <2>5, <2>6, <2>7
<1> QED
  BY <1>2, <1>3, <1>4

LEMMA ParentsAre ==
  ASSUME NEW level, NEW n \in Nat, n # 0, IsLevel(level, n)
  PROVE  \E m \in Nat :
            /\ m # 0 /\ (n = 2 * m \/ n = 2 * m - 1) /\ IsLevel(Parents(level), m)
            /\ \A i \in 1..m : Parents(level)[i] = Above(level, n, i)
<1>1. PICK m \in Nat : /\ m # 0 /\ (n = 2 * m \/ n = 2 * m - 1) /\ IsLevel(Evened(level), 2 * m)
                       /\ \A i \in 1..(2 * m) : Evened(level)[i] = level[IF i <= n THEN i ELSE n]
  BY EvenedIs
<1>2. PICK even : even = Evened(level)
  OBVIOUS
<1>3. Len(even) = 2 * m /\ (2 * m) \div 2 = m
  BY <1>1, <1>2, LenIs
<1>4. Parents(level) = [i \in 1..m |-> HashPair(even[2 * i - 1], even[2 * i])]
  BY <1>2, <1>3 DEF Parents
<1>5. ASSUME NEW i \in 1..m PROVE HashPair(even[2 * i - 1], even[2 * i]) = Above(level, n, i)
  <2>1. 2 * i - 1 \in 1..(2 * m) /\ 2 * i \in 1..(2 * m) /\ 2 * i - 1 <= n /\ (2 * i <= n \/ n = 2 * i - 1)
    BY <1>1
  <2>2. even[2 * i - 1] = level[2 * i - 1]
    BY <1>1, <1>2, <2>1
  <2>3. even[2 * i] = level[IF 2 * i <= n THEN 2 * i ELSE 2 * i - 1]
    BY <1>1, <1>2, <2>1
  <2> QED
    BY <2>2, <2>3 DEF Above
<1>6. IsLevel(Parents(level), m) /\ \A i \in 1..m : Parents(level)[i] = Above(level, n, i)
  BY <1>4, <1>5 DEF IsLevel
<1> QED
  BY <1>1, <1>6

(* Two levels without duplicates below the same level are the same.          *)
Apart(level, n) == \A i, j \in 1..n : level[i] = level[j] => i = j

LEMMA PairsDiffer ==
  ASSUME NEW a, NEW b, NEW c, NEW d, HashPair(a, b) = HashPair(c, d)
  PROVE  a = c /\ b = d
BY DEF HashPair

LEMMA ParentsApart ==
  ASSUME NEW level, NEW n \in Nat, NEW m \in Nat, n = 2 * m \/ n = 2 * m - 1, Apart(level, n),
         NEW up, \A i \in 1..m : up[i] = Above(level, n, i)
  PROVE  Apart(up, m)
<1>1. ASSUME NEW i \in 1..m, NEW j \in 1..m, up[i] = up[j] PROVE i = j
  <2>1. level[2 * i - 1] = level[2 * j - 1]
    BY <1>1, PairsDiffer DEF Above
  <2>2. 2 * i - 1 \in 1..n /\ 2 * j - 1 \in 1..n
    OBVIOUS
  <2>3. 2 * i - 1 = 2 * j - 1
    BY <2>1, <2>2 DEF Apart
  <2> QED
    BY <2>3
<1> QED
  BY <1>1 DEF Apart

LEMMA SameBelow ==
  ASSUME NEW level, NEW n \in Nat, n # 0, IsLevel(level, n), Apart(level, n),
         NEW other, NEW k \in Nat, k # 0, IsLevel(other, k), Apart(other, k),
         Parents(level) = Parents(other)
  PROVE  level = other /\ n = k
<1>1. PICK m \in Nat : /\ m # 0 /\ (n = 2 * m \/ n = 2 * m - 1) /\ IsLevel(Parents(level), m)
                       /\ \A i \in 1..m : Parents(level)[i] = Above(level, n, i)
  BY ParentsAre
<1>2. PICK l \in Nat : /\ l # 0 /\ (k = 2 * l \/ k = 2 * l - 1) /\ IsLevel(Parents(other), l)
                       /\ \A i \in 1..l : Parents(other)[i] = Above(other, k, i)
  BY ParentsAre
<1>3. l = m
  BY <1>1, <1>2, LenIs
<1>4. ASSUME NEW i \in 1..m
      PROVE  /\ level[2 * i - 1] = other[2 * i - 1]
             /\ level[IF 2 * i <= n THEN 2 * i ELSE 2 * i - 1] = other[IF 2 * i <= k THEN 2 * i ELSE 2 * i - 1]
  <2>1. Above(level, n, i) = Above(other, k, i)
    BY <1>1, <1>2, <1>3
  <2> QED
    BY <2>1, PairsDiffer DEF Above
<1>5. m \in 1..m
  BY <1>1
<1>6. ASSUME n = 2 * m - 1, k = 2 * m PROVE FALSE
  <2>1. ~(2 * m <= n) /\ 2 * m <= k /\ 2 * m \in 1..k /\ 2 * m - 1 \in 1..k /\ 2 * m # 2 * m - 1
    BY <1>1, <1>6
  <2>2. level[2 * m - 1] = other[2 * m - 1] /\ level[2 * m - 1] = other[2 * m]
    BY <1>4, <1>5, <2>1
  <2> QED
    BY <2>1, <2>2 DEF Apart
<1>7. ASSUME k = 2 * m - 1, n = 2 * m PROVE FALSE
  <2>1. ~(2 * m <= k) /\ 2 * m <= n /\ 2 * m \in 1..n /\ 2 * m - 1 \in 1..n /\ 2 * m # 2 * m - 1
    BY <1>1, <1>7
  <2>2. level[2 * m - 1] = other[2 * m - 1] /\ level[2 * m] = other[2 * m - 1]
    BY <1>4, <1>5, <2>1
  <2> QED
    BY <2>1, <2>2 DEF Apart
<1>8. n = k
  BY <1>1, <1>2, <1>3, <1>6, <1>7
<1>9. ASSUME NEW i \in 1..n PROVE level[i] = other[i]
  <2>0. i \in Nat
    OBVIOUS
  <2>1. PICK h \in Nat : i = 2 * h \/ i = 2 * h + 1
    BY <2>0, Halves
  <2>2. CASE i = 2 * h
    <3>1. h \in 1..m /\ 2 * h <= n /\ 2 * h <= k
      BY <1>1, <1>8, <2>2
    <3> QED
      BY <1>4, <2>2, <3>1
  <2>3. CASE i = 2 * h + 1
    <3>1. h + 1 \in 1..m /\ i = 2 * (h + 1) - 1
      BY <1>1, <2>3
    <3> QED
      BY <1>4, <3>1
  <2> QED
    BY <2>1, <2>2, <2>3
<1> QED
  BY <1>8, <1>9 DEF IsLevel

Tower(trackers, n, f) ==
    f = [h \in 0..n |-> IF h = 0 THEN [i \in DOMAIN trackers |-> Leaf(trackers[i])]
                        ELSE IF Len(f[h - 1]) <= 1 THEN f[h - 1] ELSE Parents(f[h - 1])]

LEMMA SomeTower ==
  ASSUME NEW trackers, NEW n \in Nat
  PROVE  \E f : Tower(trackers, n, f)
<1> DEFINE Bad == {k \in Nat : ~\E f : Tower(trackers, k, f)}
<1>1. SUFFICES ASSUME Bad # {} PROVE FALSE
  OBVIOUS
<1>2. PICK k \in Bad : \A j \in Bad : k <= j
  <2>1. Bad \subseteq Nat
    OBVIOUS
  <2> HIDE DEF Bad
  <2> QED
    BY <1>1, <2>1, Smallest
<1>3. k \in Nat /\ ~\E f : Tower(trackers, k, f)
  OBVIOUS
<1>4. PICK leaves : leaves = [i \in DOMAIN trackers |-> Leaf(trackers[i])]
  OBVIOUS
<1>5. CASE k = 0
  <2>1. PICK f : f = [h \in 0..0 |-> leaves]
    OBVIOUS
  <2>2. f = [h \in 0..0 |-> IF h = 0 THEN leaves ELSE IF Len(f[h - 1]) <= 1 THEN f[h - 1] ELSE Parents(f[h - 1])]
    BY <2>1
  <2> QED
    BY <1>3, <1>4, <1>5, <2>2 DEF Tower
<1>6. CASE k # 0
  <2>1. PICK j \in Nat : k = j + 1
    <3>1. k - 1 \in Nat /\ k = (k - 1) + 1
      BY <1>3, <1>6
    <3> QED
      BY <3>1
  <2>2. PICK e : Tower(trackers, j, e)
    BY <1>2, <2>1
  <2>3. PICK next : next = IF Len(e[j]) <= 1 THEN e[j] ELSE Parents(e[j])
    OBVIOUS
  <2>4. PICK f : f = [h \in 0..k |-> IF h = k THEN next ELSE e[h]]
    OBVIOUS
  <2>5. \A h \in 0..j : e[h] = IF h = 0 THEN leaves
                               ELSE IF Len(e[h - 1]) <= 1 THEN e[h - 1] ELSE Parents(e[h - 1])
    BY <1>4, <2>2 DEF Tower
  <2>6. ASSUME NEW h \in 0..k
        PROVE  f[h] = IF h = 0 THEN leaves
                      ELSE IF Len(f[h - 1]) <= 1 THEN f[h - 1] ELSE Parents(f[h - 1])
    <3>1. CASE h = k
      <4>1. h # 0 /\ h - 1 = j /\ j \in 0..k /\ j # k
        BY <2>1, <3>1
      <4>2. f[h - 1] = e[j] /\ f[h] = next
        BY <2>4, <3>1, <4>1
      <4> QED
        BY <2>3, <4>1, <4>2
    <3>2. CASE h # k
      <4>1. h \in 0..j /\ (h # 0 => h - 1 \in 0..k /\ h - 1 # k)
        BY <2>1, <3>2
      <4>2. f[h] = e[h] /\ (h # 0 => f[h - 1] = e[h - 1])
        BY <2>4, <3>2, <4>1
      <4> QED
        BY <2>5, <4>1, <4>2
    <3> QED
      BY <3>1, <3>2
  <2>7. f = [h \in 0..k |-> IF h = 0 THEN leaves
                            ELSE IF Len(f[h - 1]) <= 1 THEN f[h - 1] ELSE Parents(f[h - 1])]
    BY <2>4, <2>6
  <2> QED
    BY <1>3, <1>4, <2>7 DEF Tower
<1> QED
  BY <1>5, <1>6

LEMMA LevelsAre ==
  ASSUME NEW trackers, Len(trackers) \in Nat
  PROVE  Tower(trackers, Len(trackers), Levels(trackers))
<1> DEFINE c == CHOOSE f : f = [h \in 0..Len(trackers) |->
            IF h = 0 THEN [i \in DOMAIN trackers |-> Leaf(trackers[i])]
            ELSE IF Len(f[h - 1]) <= 1 THEN f[h - 1] ELSE Parents(f[h - 1])]
<1>0. \E f : Tower(trackers, Len(trackers), f)
  BY SomeTower
<1>1. Tower(trackers, Len(trackers), c)
  BY <1>0 DEF Tower
<1>2. Levels(trackers) = c
  BY DEF Levels
<1> QED
  BY <1>1, <1>2

(* The tree over n leaves t has k levels of pairs.                           *)
Tree(t, n, f, k, size) ==
    /\ k \in 0..n /\ DOMAIN f = 0..n
    /\ size[0] = n /\ size[k] = 1
    /\ \A i \in 1..n : f[0][i] = Leaf(t[i])
    /\ \A h \in 0..k : size[h] \in Nat /\ size[h] # 0 /\ IsLevel(f[h], size[h]) /\ Apart(f[h], size[h])
    /\ \A h \in 0..(k - 1) : size[h] # 1 /\ f[h + 1] = Parents(f[h])
    /\ \A h \in k..n : f[h] = f[k]

LEMMA LeavesDiffer ==
  ASSUME NEW a, NEW b, Leaf(a) = Leaf(b) PROVE a = b
BY DEF Leaf

LEMMA TreeIs ==
  ASSUME NEW n \in Nat, n # 0, NEW t, IsLevel(t, n), Apart(t, n)
  PROVE  \E k : \E size : Tree(t, n, Levels(t), k, size)
<1>1. Len(t) = n /\ DOMAIN t = 1..n
  BY LenIs
<1>2. PICK f : f = Levels(t) /\ Tower(t, n, f)
  BY <1>1, LevelsAre
<1>3. /\ DOMAIN f = 0..n /\ f[0] = [i \in 1..n |-> Leaf(t[i])]
      /\ \A h \in 1..n : f[h] = IF Len(f[h - 1]) <= 1 THEN f[h - 1] ELSE Parents(f[h - 1])
  <2>1. DOMAIN f = 0..n
    BY <1>2 DEF Tower
  <2>2. \A h \in 0..n : f[h] = IF h = 0 THEN [i \in DOMAIN t |-> Leaf(t[i])]
                               ELSE IF Len(f[h - 1]) <= 1 THEN f[h - 1] ELSE Parents(f[h - 1])
    BY <1>2 DEF Tower
  <2>3. 0 \in 0..n
    OBVIOUS
  <2>4. \A h \in 1..n : h \in 0..n /\ h # 0
    OBVIOUS
  <2> QED
    BY <1>1, <2>1, <2>2, <2>3, <2>4
<1> DEFINE Good(h, m) == /\ m # 0 /\ IsLevel(f[h], m) /\ Apart(f[h], m)
                         /\ (m = 1 \/ m + h <= n)
<1>4. Good(0, n)
  <2>1. IsLevel(f[0], n) /\ \A i \in 1..n : f[0][i] = Leaf(t[i])
    BY <1>3 DEF IsLevel
  <2>2. Apart(f[0], n)
    BY <2>1, LeavesDiffer DEF Apart
  <2> QED
    BY <2>1, <2>2
<1>5. ASSUME NEW h \in 1..n, NEW m \in Nat, Good(h - 1, m) PROVE \E p \in Nat : Good(h, p)
  <2>1. Len(f[h - 1]) = m
    BY <1>5, LenIs
  <2>2. CASE m = 1
    <3>0. Len(f[h - 1]) <= 1
      BY <2>1, <2>2
    <3>1. f[h] = f[h - 1]
      BY <1>3, <3>0
    <3> QED
      BY <1>5, <2>2, <3>1
  <2>3. CASE m # 1
    <3>1. f[h] = Parents(f[h - 1])
      BY <1>3, <1>5, <2>1, <2>3
    <3>2. PICK p \in Nat : /\ p # 0 /\ (m = 2 * p \/ m = 2 * p - 1) /\ IsLevel(f[h], p)
                           /\ \A i \in 1..p : f[h][i] = Above(f[h - 1], m, i)
      BY <1>5, <3>1, ParentsAre
    <3>3. Apart(f[h], p)
      BY <1>5, <3>2, ParentsApart
    <3>4. p + h <= n
      BY <1>5, <2>3, <3>2
    <3> QED
      BY <3>2, <3>3, <3>4
  <2> QED
    BY <2>2, <2>3
<1>6. \A h \in 0..n : \E m \in Nat : Good(h, m)
  <2> HIDE DEF Good
  <2> DEFINE Bad == {h \in 0..n : ~\E m \in Nat : Good(h, m)}
  <2>1. SUFFICES ASSUME Bad # {} PROVE FALSE
    OBVIOUS
  <2>2. PICK h \in Bad : \A j \in Bad : h <= j
    <3>1. Bad \subseteq Nat
      OBVIOUS
    <3> HIDE DEF Bad
    <3> QED
      BY <2>1, <3>1, Smallest
  <2>3. h \in 0..n /\ ~(\E m \in Nat : Good(h, m)) /\ h # 0
    BY <1>4, <2>2
  <2>4. h \in 1..n /\ h - 1 \in 0..n /\ ~(h <= h - 1)
    BY <2>3
  <2>5. PICK m \in Nat : Good(h - 1, m)
    BY <2>2, <2>4
  <2> QED
    BY <1>5, <2>3, <2>4, <2>5
<1>7. PICK size : size = [h \in 0..n |-> CHOOSE m \in Nat : Good(h, m)]
  OBVIOUS
<1>8. \A h \in 0..n : size[h] \in Nat /\ Good(h, size[h])
  <2> HIDE DEF Good
  <2> QED
    BY <1>6, <1>7
<1>9. \A h \in 0..n : Len(f[h]) = size[h]
  BY <1>8, LenIs
<1>10. size[0] = n
  BY <1>4, <1>9, LenIs
<1>11. PICK k \in {h \in 0..n : size[h] = 1} : \A j \in {h \in 0..n : size[h] = 1} : k <= j
  <2>1. size[n] = 1 /\ n \in 0..n
    BY <1>8
  <2>2. {h \in 0..n : size[h] = 1} \subseteq Nat /\ {h \in 0..n : size[h] = 1} # {}
    BY <2>1
  <2> QED
    BY <2>2, Smallest
<1>12. k \in 0..n /\ size[k] = 1 /\ \A h \in 0..(k - 1) : h \in 0..n /\ size[h] # 1
  BY <1>11
<1>13. \A h \in 0..(k - 1) : f[h + 1] = Parents(f[h])
  <2> TAKE h \in 0..(k - 1)
  <2>1. h \in 0..n /\ h + 1 \in 1..n /\ (h + 1) - 1 = h /\ size[h] # 1
    BY <1>12
  <2>2. Len(f[h]) = size[h] /\ size[h] \in Nat /\ size[h] # 0
    BY <1>8, <1>9, <2>1
  <2>3. ~(Len(f[h]) <= 1)
    BY <2>1, <2>2
  <2> QED
    BY <1>3, <2>1, <2>3
<1>14. \A h \in k..n : f[h] = f[k]
  <2> DEFINE Bad == {h \in k..n : f[h] # f[k]}
  <2>1. SUFFICES ASSUME Bad # {} PROVE FALSE
    OBVIOUS
  <2>2. PICK h \in Bad : \A j \in Bad : h <= j
    <3>1. Bad \subseteq Nat
      BY <1>12
    <3> HIDE DEF Bad
    <3> QED
      BY <2>1, <3>1, Smallest
  <2>3. h \in k..n /\ f[h] # f[k] /\ h - 1 \in k..n /\ h \in 1..n /\ ~(h <= h - 1)
    BY <1>12, <2>2
  <2>4. f[h - 1] = f[k]
    BY <2>2, <2>3
  <2>5. Len(f[h - 1]) <= 1
    BY <1>9, <1>12, <2>4
  <2>6. f[h] = f[h - 1]
    BY <1>3, <2>3, <2>5
  <2> QED
    BY <2>3, <2>4, <2>6
<1>15. \A h \in 0..k : size[h] \in Nat /\ size[h] # 0 /\ IsLevel(f[h], size[h]) /\ Apart(f[h], size[h])
  BY <1>8, <1>12
<1>16. Tree(t, n, f, k, size)
  BY <1>3, <1>10, <1>12, <1>13, <1>14, <1>15 DEF Tree
<1> QED
  BY <1>2, <1>16

(* A node that is no leaf, and the nodes below it. *)
Joins(f, k, size) ==
    \A h \in 1..k : \A a \in 1..size[h] :
        /\ f[h][a] = Above(f[h - 1], size[h - 1], a)
        /\ 2 * a - 1 \in 1..size[h - 1] /\ (2 * a <= size[h - 1] \/ size[h - 1] = 2 * a - 1)

LEMMA NodeIs ==
  ASSUME NEW t, NEW n \in Nat, NEW f, NEW k, NEW size, Tree(t, n, f, k, size)
  PROVE  Joins(f, k, size)
<1> SUFFICES ASSUME NEW h \in 1..k, NEW a \in 1..size[h]
             PROVE  /\ f[h][a] = Above(f[h - 1], size[h - 1], a)
                    /\ 2 * a - 1 \in 1..size[h - 1] /\ (2 * a <= size[h - 1] \/ size[h - 1] = 2 * a - 1)
  BY DEF Joins
<1>1. h - 1 \in 0..k /\ h - 1 \in 0..(k - 1) /\ h \in 0..k /\ (h - 1) + 1 = h
  BY DEF Tree
<1>2. PICK p \in Nat : p = size[h - 1] /\ p # 0 /\ IsLevel(f[h - 1], p)
  BY <1>1 DEF Tree
<1>3. f[h] = Parents(f[h - 1])
  BY <1>1 DEF Tree
<1>4. PICK m \in Nat : /\ m # 0 /\ (p = 2 * m \/ p = 2 * m - 1) /\ IsLevel(f[h], m)
                       /\ \A i \in 1..m : f[h][i] = Above(f[h - 1], p, i)
  BY <1>2, <1>3, ParentsAre
<1>5. size[h] = m
  <2>1. IsLevel(f[h], size[h]) /\ size[h] \in Nat
    BY <1>1 DEF Tree
  <2> QED
    BY <1>4, <2>1, LenIs
<1>6. a \in 1..m
  BY <1>5
<1>7. 2 * a - 1 \in 1..p /\ (2 * a <= p \/ p = 2 * a - 1)
  BY <1>4, <1>6
<1> QED
  BY <1>2, <1>4, <1>6, <1>7

LEMMA LeafIsNoPair ==
  ASSUME NEW t, NEW a, NEW b PROVE Leaf(t) # HashPair(a, b)
<1>1. Leaf(t)[1] = "leaf" /\ HashPair(a, b)[1] = "pair"
  BY DEF Leaf, HashPair
<1> QED
  BY <1>1

(* A node says how high it stands. *)
OneHeight(f, k, size, g, l, width) ==
    \A i \in 0..k : \A j \in 0..l : \A a \in 1..size[i] : \A b \in 1..width[j] : f[i][a] = g[j][b] => i = j

LEMMA HeightShows ==
  ASSUME NEW t, NEW n \in Nat, NEW f, NEW k, NEW size, Tree(t, n, f, k, size),
         NEW s, NEW m \in Nat, NEW g, NEW l, NEW width, Tree(s, m, g, l, width)
  PROVE  OneHeight(f, k, size, g, l, width)
<1> SUFFICES ASSUME NEW i \in 0..k, NEW j \in 0..l, NEW a \in 1..size[i], NEW b \in 1..width[j], f[i][a] = g[j][b]
             PROVE  i = j
  BY DEF OneHeight
<1>0. Joins(f, k, size) /\ Joins(g, l, width)
  BY NodeIs
<1> DEFINE Meet(x, y) == \E c \in 1..size[x] : \E d \in 1..width[y] : f[x][c] = g[y][d]
<1> DEFINE Bad == {x \in 0..k : \E y \in 0..l : x # y /\ Meet(x, y)}
<1>1. SUFFICES ASSUME Bad # {} PROVE FALSE
  OBVIOUS
<1>2. PICK x \in Bad : \A y \in Bad : x <= y
  <2>1. Bad \subseteq Nat
    BY DEF Tree
  <2> HIDE DEF Bad
  <2> QED
    BY <1>1, <2>1, Smallest
<1>3. PICK y \in 0..l : x # y /\ Meet(x, y)
  BY <1>2
<1>4. PICK c \in 1..size[x] : \E d \in 1..width[y] : f[x][c] = g[y][d]
  BY <1>3
<1>5. PICK d \in 1..width[y] : f[x][c] = g[y][d]
  BY <1>4
<1>6. x \in 0..k /\ k \in Nat /\ l \in Nat
  BY <1>2 DEF Tree
<1>7. x = 0 => f[x][c] = Leaf(t[c])
  BY <1>6 DEF Tree
<1>8. y = 0 => g[y][d] = Leaf(s[d])
  BY <1>6 DEF Tree
<1>9. x # 0 => /\ f[x][c] = Above(f[x - 1], size[x - 1], c)
               /\ 2 * c - 1 \in 1..size[x - 1]
  <2> HIDE DEF Bad, Meet
  <2> SUFFICES ASSUME x # 0
               PROVE  f[x][c] = Above(f[x - 1], size[x - 1], c) /\ 2 * c - 1 \in 1..size[x - 1]
    OBVIOUS
  <2>1. x \in 1..k
    BY <1>6
  <2> QED
    BY <1>0, <2>1 DEF Joins
<1>10. y # 0 => /\ g[y][d] = Above(g[y - 1], width[y - 1], d)
                /\ 2 * d - 1 \in 1..width[y - 1]
  <2> HIDE DEF Bad, Meet
  <2> SUFFICES ASSUME y # 0
               PROVE  g[y][d] = Above(g[y - 1], width[y - 1], d) /\ 2 * d - 1 \in 1..width[y - 1]
    OBVIOUS
  <2>1. y \in 1..l
    BY <1>6
  <2> QED
    BY <1>0, <2>1 DEF Joins
<1>11. x # 0 /\ y # 0
  <2>1. ~(x = 0 /\ y # 0)
    BY <1>5, <1>7, <1>10, LeafIsNoPair DEF Above
  <2>2. ~(x # 0 /\ y = 0)
    BY <1>5, <1>8, <1>9, LeafIsNoPair DEF Above
  <2> QED
    BY <1>3, <2>1, <2>2
<1>12. f[x - 1][2 * c - 1] = g[y - 1][2 * d - 1]
  BY <1>5, <1>9, <1>10, <1>11, PairsDiffer DEF Above
<1>13. x - 1 \in 0..k /\ y - 1 \in 0..l /\ x - 1 # y - 1 /\ ~(x <= x - 1)
  BY <1>3, <1>6, <1>11
<1>14. x - 1 \in Bad
  BY <1>9, <1>10, <1>11, <1>12, <1>13
<1> QED
  BY <1>2, <1>13, <1>14

(* Two trees with one root are one tree. *)
LEMMA SameRoot ==
  ASSUME NEW t, NEW n \in Nat, NEW f, NEW k, NEW size, Tree(t, n, f, k, size),
         NEW s, NEW m \in Nat, NEW g, NEW l, NEW width, Tree(s, m, g, l, width),
         f[k][1] = g[l][1]
  PROVE  n = m /\ \A i \in 1..n : t[i] = s[i]
<1>1. k \in Nat /\ l \in Nat /\ k \in 0..k /\ l \in 0..l /\ 1 \in 1..size[k] /\ 1 \in 1..width[l]
  BY DEF Tree
<1>2. k = l
  <2>1. f[k][1] = g[l][1] => k = l
    <3>1. OneHeight(f, k, size, g, l, width)
      BY HeightShows
    <3> QED
      BY <1>1, <3>1 DEF OneHeight
  <2> QED
    BY <2>1
<1> DEFINE Same(h) == f[h] = g[h] /\ size[h] = width[h]
<1>3. Same(k)
  <2>1. IsLevel(f[k], 1) /\ IsLevel(g[k], 1) /\ size[k] = width[k]
    BY <1>1, <1>2 DEF Tree
  <2>2. f[k] = g[k]
    BY <1>2, <2>1 DEF IsLevel
  <2> QED
    BY <2>1, <2>2
<1>4. ASSUME NEW h \in 0..(k - 1), Same(h + 1) PROVE Same(h)
  <2>1. h \in 0..k /\ h \in 0..(l - 1) /\ h \in 0..l
    BY <1>1, <1>2
  <2>2. /\ size[h] \in Nat /\ size[h] # 0 /\ IsLevel(f[h], size[h]) /\ Apart(f[h], size[h])
        /\ f[h + 1] = Parents(f[h])
    BY <2>1 DEF Tree
  <2>3. /\ width[h] \in Nat /\ width[h] # 0 /\ IsLevel(g[h], width[h]) /\ Apart(g[h], width[h])
        /\ g[h + 1] = Parents(g[h])
    BY <2>1 DEF Tree
  <2>4. Parents(f[h]) = Parents(g[h])
    BY <1>4, <2>2, <2>3
  <2> QED
    BY <2>2, <2>3, <2>4, SameBelow
<1>5. \A d \in 0..k : Same(k - d)
  <2> HIDE DEF Same
  <2> DEFINE Bad == {d \in 0..k : ~Same(k - d)}
  <2>1. SUFFICES ASSUME Bad # {} PROVE FALSE
    OBVIOUS
  <2>2. PICK d \in Bad : \A e \in Bad : d <= e
    <3>1. Bad \subseteq Nat
      BY <1>1
    <3> HIDE DEF Bad
    <3> QED
      BY <2>1, <3>1, Smallest
  <2>3. d \in 0..k /\ ~Same(k - d)
    BY <2>2
  <2>4. k - 0 = k
    BY <1>1
  <2>5. d # 0
    BY <1>3, <2>3, <2>4
  <2>6. d - 1 \in 0..k /\ ~(d <= d - 1) /\ k - d \in 0..(k - 1) /\ k - (d - 1) = (k - d) + 1
    BY <1>1, <2>3, <2>5
  <2>7. Same(k - (d - 1))
    BY <2>2, <2>6
  <2>8. Same((k - d) + 1)
    BY <2>6, <2>7
  <2> QED
    BY <1>4, <2>3, <2>6, <2>8
<1>6. Same(0)
  <2>1. k \in 0..k /\ k - k = 0
    BY <1>1
  <2> HIDE DEF Same
  <2> QED
    BY <1>5, <2>1
<1>7. n = m
  BY <1>6 DEF Tree
<1>8. ASSUME NEW i \in 1..n PROVE t[i] = s[i]
  <2>1. f[0][i] = Leaf(t[i]) /\ g[0][i] = Leaf(s[i])
    BY <1>7 DEF Tree
  <2> QED
    BY <1>6, <2>1, LeavesDiffer
<1> QED
  BY <1>7, <1>8

(* The root over a board that is not empty. *)
LEMMA RootIs ==
  ASSUME NEW S, S \subseteq Trackers, S # {}
  PROVE  \E k : \E size : /\ Tree(Sorted(S), Cardinality(S), Levels(Sorted(S)), k, size)
                          /\ MerkleRoot(Sorted(S)) = Levels(Sorted(S))[k][1]
<1>1. PICK t, n : t = Sorted(S) /\ n = Cardinality(S)
  OBVIOUS
<1>2. IsFiniteSet(S) /\ n \in Nat /\ t \in [1..n -> S] /\ \A i, j \in 1..n : t[i] = t[j] => i = j
  BY <1>1, SortedIs
<1>3. n # 0
  BY <1>1, <1>2, FS_EmptySet
<1>4. IsLevel(t, n) /\ Apart(t, n)
  BY <1>2 DEF IsLevel, Apart
<1>5. Len(t) = n
  BY <1>2, <1>4, LenIs
<1>6. PICK f : f = Levels(t)
  OBVIOUS
<1>7. PICK k : \E size : Tree(t, n, f, k, size)
  BY <1>2, <1>3, <1>4, <1>6, TreeIs
<1>8. PICK size : Tree(t, n, f, k, size)
  BY <1>7
<1>9. t # <<>>
  BY <1>3, <1>5
<1>10. f[n] = f[k]
  <2>1. n \in k..n
    BY <1>2, <1>8 DEF Tree
  <2> QED
    BY <1>8, <2>1 DEF Tree
<1>11. MerkleRoot(t) = Head(f[k])
  BY <1>5, <1>6, <1>9, <1>10 DEF MerkleRoot
<1>12. IsLevel(f[k], 1)
  <2>1. k \in 0..k
    BY <1>2, <1>8 DEF Tree
  <2> QED
    BY <1>8, <2>1 DEF Tree
<1>13. Head(f[k]) = f[k][1]
  <2>1. f[k] \in Seq({f[k][i] : i \in 1..1})
    BY <1>12, IsASeq DEF IsLevel
  <2> QED
    BY <2>1
<1> QED
  BY <1>1, <1>6, <1>8, <1>11, <1>13

LEMMA RootIsNoEmpty ==
  ASSUME NEW S, S \subseteq Trackers, S # {}
  PROVE  MerkleRoot(Sorted(S)) # <<"empty">>
<1>1. PICK t, n : t = Sorted(S) /\ n = Cardinality(S)
  OBVIOUS
<1>2. n \in Nat
  BY <1>1, SortedIs
<1>3. PICK f : f = Levels(t)
  OBVIOUS
<1>4. PICK k : \E size : Tree(t, n, f, k, size) /\ MerkleRoot(t) = f[k][1]
  BY <1>1, <1>3, RootIs
<1>5. PICK size : Tree(t, n, f, k, size) /\ MerkleRoot(t) = f[k][1]
  BY <1>4
<1>6. Joins(f, k, size)
  BY <1>2, <1>5, NodeIs
<1>7. k \in Nat /\ k \in 0..k /\ 1 \in 1..size[k]
  BY <1>2, <1>5 DEF Tree
<1>8. CASE k = 0
  <2>1. f[k][1] = Leaf(t[1])
    BY <1>5, <1>7, <1>8 DEF Tree
  <2>2. Leaf(t[1])[1] = "leaf" /\ <<"empty">>[1] = "empty"
    BY DEF Leaf
  <2> QED
    BY <1>1, <1>5, <2>1, <2>2
<1>9. CASE k # 0
  <2>1. k \in 1..k
    BY <1>7, <1>9
  <2>2. f[k][1] = Above(f[k - 1], size[k - 1], 1)
    BY <1>6, <1>7, <2>1 DEF Joins
  <2>3. Above(f[k - 1], size[k - 1], 1)[1] = "pair" /\ <<"empty">>[1] = "empty"
    BY DEF Above, HashPair
  <2> QED
    BY <1>1, <1>5, <2>2, <2>3
<1> QED
  BY <1>8, <1>9

LEMMA EmptyRoot == MerkleRoot(Sorted({})) = <<"empty">>
<1>1. Sorted({}) \in [1..Cardinality({}) -> {}] /\ Cardinality({}) = 0
  BY SortedIs, FS_EmptySet
<1>2. Sorted({}) = <<>>
  BY <1>1
<1> QED
  BY <1>2 DEF MerkleRoot

(* No two boards have one root. *)
LEMMA RootsDiffer ==
  ASSUME NEW A, A \subseteq Trackers, NEW B, B \subseteq Trackers,
         MerkleRoot(Sorted(A)) = MerkleRoot(Sorted(B))
  PROVE  A = B
<1>1. CASE A = {} \/ B = {}
  BY <1>1, EmptyRoot, RootIsNoEmpty
<1>2. CASE A # {} /\ B # {}
  <2>1. PICK t, n : t = Sorted(A) /\ n = Cardinality(A)
    OBVIOUS
  <2>2. PICK s, m : s = Sorted(B) /\ m = Cardinality(B)
    OBVIOUS
  <2>3. n \in Nat /\ t \in [1..n -> A] /\ Range(t) = A
    BY <2>1, SortedIs
  <2>4. m \in Nat /\ s \in [1..m -> B] /\ Range(s) = B
    BY <2>2, SortedIs
  <2>5. PICK f, g : f = Levels(t) /\ g = Levels(s)
    OBVIOUS
  <2>6. PICK k : \E size : Tree(t, n, f, k, size) /\ MerkleRoot(t) = f[k][1]
    BY <1>2, <2>1, <2>5, RootIs
  <2>7. PICK size : Tree(t, n, f, k, size) /\ MerkleRoot(t) = f[k][1]
    BY <2>6
  <2>8. PICK l : \E width : Tree(s, m, g, l, width) /\ MerkleRoot(s) = g[l][1]
    BY <1>2, <2>2, <2>5, RootIs
  <2>9. PICK width : Tree(s, m, g, l, width) /\ MerkleRoot(s) = g[l][1]
    BY <2>8
  <2>10. f[k][1] = g[l][1]
    BY <2>1, <2>2, <2>7, <2>9
  <2>11. n = m /\ \A i \in 1..n : t[i] = s[i]
    BY <2>3, <2>4, <2>7, <2>9, <2>10, SameRoot
  <2>12. t = s
    BY <2>3, <2>4, <2>11
  <2> QED
    BY <2>3, <2>4, <2>12
<1> QED
  BY <1>1, <1>2

-----------------------------------------------------------------------------
(* Bulletin: the way up from a leaf. *)

Halving(index, n, at) == at = [h \in 0..n |-> IF h = 0 THEN index ELSE at[h - 1] \div 2]

Climb(tracker, proof, n, current) ==
    current = [i \in 0..n |-> IF i = 0 THEN Leaf(tracker)
                              ELSE IF proof[i].side = "left" THEN HashPair(proof[i].hash, current[i - 1])
                                   ELSE HashPair(current[i - 1], proof[i].hash)]

LEMMA SomeHalving ==
  ASSUME NEW index, NEW n \in Nat
  PROVE  \E f : Halving(index, n, f)
<1> DEFINE Bad == {k \in Nat : ~\E f : Halving(index, k, f)}
<1>1. SUFFICES ASSUME Bad # {} PROVE FALSE
  OBVIOUS
<1>2. PICK k \in Bad : \A j \in Bad : k <= j
  <2>1. Bad \subseteq Nat
    OBVIOUS
  <2> HIDE DEF Bad
  <2> QED
    BY <1>1, <2>1, Smallest
<1>3. k \in Nat /\ ~\E f : Halving(index, k, f)
  OBVIOUS
<1>4. CASE k = 0
  <2>1. PICK f : f = [h \in 0..0 |-> index]
    OBVIOUS
  <2>2. f = [h \in 0..0 |-> IF h = 0 THEN index ELSE f[h - 1] \div 2]
    BY <2>1
  <2> QED
    BY <1>3, <1>4, <2>2 DEF Halving
<1>5. CASE k # 0
  <2>1. PICK j \in Nat : k = j + 1
    <3>1. k - 1 \in Nat /\ k = (k - 1) + 1
      BY <1>3, <1>5
    <3> QED
      BY <3>1
  <2>2. PICK e : Halving(index, j, e)
    BY <1>2, <2>1
  <2>3. PICK next : next = e[j] \div 2
    OBVIOUS
  <2>4. PICK f : f = [h \in 0..k |-> IF h = k THEN next ELSE e[h]]
    OBVIOUS
  <2>5. \A h \in 0..j : e[h] = IF h = 0 THEN index ELSE e[h - 1] \div 2
    BY <2>2 DEF Halving
  <2>6. ASSUME NEW h \in 0..k
        PROVE  f[h] = IF h = 0 THEN index ELSE f[h - 1] \div 2
    <3>1. CASE h = k
      <4>1. h # 0 /\ h - 1 = j /\ j \in 0..k /\ j # k
        BY <2>1, <3>1
      <4>2. f[h - 1] = e[j] /\ f[h] = next
        BY <2>4, <3>1, <4>1
      <4> QED
        BY <2>3, <3>1, <4>1, <4>2
    <3>2. CASE h # k
      <4>1. h \in 0..j /\ (h # 0 => h - 1 \in 0..k /\ h - 1 # k)
        BY <2>1, <3>2
      <4>2. f[h] = e[h] /\ (h # 0 => f[h - 1] = e[h - 1])
        BY <2>4, <3>2, <4>1
      <4> QED
        BY <2>5, <4>1, <4>2
    <3> QED
      BY <3>1, <3>2
  <2>7. f = [h \in 0..k |-> IF h = 0 THEN index ELSE f[h - 1] \div 2]
    BY <2>4, <2>6
  <2> QED
    BY <1>3, <2>7 DEF Halving
<1> QED
  BY <1>4, <1>5

LEMMA SomeClimb ==
  ASSUME NEW tracker, NEW proof, NEW n \in Nat
  PROVE  \E f : Climb(tracker, proof, n, f)
<1> DEFINE Bad == {k \in Nat : ~\E f : Climb(tracker, proof, k, f)}
<1>1. SUFFICES ASSUME Bad # {} PROVE FALSE
  OBVIOUS
<1>2. PICK k \in Bad : \A j \in Bad : k <= j
  <2>1. Bad \subseteq Nat
    OBVIOUS
  <2> HIDE DEF Bad
  <2> QED
    BY <1>1, <2>1, Smallest
<1>3. k \in Nat /\ ~\E f : Climb(tracker, proof, k, f)
  OBVIOUS
<1>4. CASE k = 0
  <2>1. PICK f : f = [h \in 0..0 |-> Leaf(tracker)]
    OBVIOUS
  <2>2. f = [h \in 0..0 |-> IF h = 0 THEN Leaf(tracker) ELSE IF proof[h].side = "left" THEN HashPair(proof[h].hash, f[h - 1]) ELSE HashPair(f[h - 1], proof[h].hash)]
    BY <2>1
  <2> QED
    BY <1>3, <1>4, <2>2 DEF Climb
<1>5. CASE k # 0
  <2>1. PICK j \in Nat : k = j + 1
    <3>1. k - 1 \in Nat /\ k = (k - 1) + 1
      BY <1>3, <1>5
    <3> QED
      BY <3>1
  <2>2. PICK e : Climb(tracker, proof, j, e)
    BY <1>2, <2>1
  <2>3. PICK next : next = IF proof[k].side = "left" THEN HashPair(proof[k].hash, e[j]) ELSE HashPair(e[j], proof[k].hash)
    OBVIOUS
  <2>4. PICK f : f = [h \in 0..k |-> IF h = k THEN next ELSE e[h]]
    OBVIOUS
  <2>5. \A h \in 0..j : e[h] = IF h = 0 THEN Leaf(tracker) ELSE IF proof[h].side = "left" THEN HashPair(proof[h].hash, e[h - 1]) ELSE HashPair(e[h - 1], proof[h].hash)
    BY <2>2 DEF Climb
  <2>6. ASSUME NEW h \in 0..k
        PROVE  f[h] = IF h = 0 THEN Leaf(tracker) ELSE IF proof[h].side = "left" THEN HashPair(proof[h].hash, f[h - 1]) ELSE HashPair(f[h - 1], proof[h].hash)
    <3>1. CASE h = k
      <4>1. h # 0 /\ h - 1 = j /\ j \in 0..k /\ j # k
        BY <2>1, <3>1
      <4>2. f[h - 1] = e[j] /\ f[h] = next
        BY <2>4, <3>1, <4>1
      <4> QED
        BY <2>3, <3>1, <4>1, <4>2
    <3>2. CASE h # k
      <4>1. h \in 0..j /\ (h # 0 => h - 1 \in 0..k /\ h - 1 # k)
        BY <2>1, <3>2
      <4>2. f[h] = e[h] /\ (h # 0 => f[h - 1] = e[h - 1])
        BY <2>4, <3>2, <4>1
      <4> QED
        BY <2>5, <4>1, <4>2
    <3> QED
      BY <3>1, <3>2
  <2>7. f = [h \in 0..k |-> IF h = 0 THEN Leaf(tracker) ELSE IF proof[h].side = "left" THEN HashPair(proof[h].hash, f[h - 1]) ELSE HashPair(f[h - 1], proof[h].hash)]
    BY <2>4, <2>6
  <2> QED
    BY <1>3, <2>7 DEF Climb
<1> QED
  BY <1>4, <1>5

LEMMA VerifiesBy ==
  ASSUME NEW tracker, NEW proof, Len(proof) \in Nat
  PROVE  \E c : /\ Climb(tracker, proof, Len(proof), c)
                /\ \A root : VerifyMerkleProof(tracker, proof, root) <=> c[Len(proof)] = root
<1> DEFINE c == CHOOSE current : current =
        [i \in 0..Len(proof) |-> IF i = 0 THEN Leaf(tracker)
                                 ELSE IF proof[i].side = "left" THEN HashPair(proof[i].hash, current[i - 1])
                                      ELSE HashPair(current[i - 1], proof[i].hash)]
<1>1. \E f : Climb(tracker, proof, Len(proof), f)
  BY SomeClimb
<1>2. Climb(tracker, proof, Len(proof), c)
  BY <1>1 DEF Climb
<1>3. \A root : VerifyMerkleProof(tracker, proof, root) <=> c[Len(proof)] = root
  BY DEF VerifyMerkleProof
<1> QED
  BY <1>2, <1>3

Sibling(a) == IF a % 2 = 0 THEN a + 1 ELSE a - 1
Partner(level, a) == [hash |-> Evened(level)[Sibling(a) + 1], side |-> IF Sibling(a) < a THEN "left" ELSE "right"]

(* One step up leads to the node of the pair. *)
LEMMA PartnerLeads ==
  ASSUME NEW level, NEW p \in Nat, IsLevel(level, p), NEW a \in 0..(p - 1)
  PROVE  /\ (IF Partner(level, a).side = "left" THEN HashPair(Partner(level, a).hash, level[a + 1])
             ELSE HashPair(level[a + 1], Partner(level, a).hash))
               = Above(level, p, a \div 2 + 1)
         /\ a \div 2 \in Nat /\ 2 * (a \div 2) <= a
<1>0. a \in Nat /\ p # 0 /\ a + 1 <= p
  OBVIOUS
<1>1. PICK m \in Nat :
         /\ m # 0 /\ (p = 2 * m \/ p = 2 * m - 1) /\ IsLevel(Evened(level), 2 * m)
         /\ \A i \in 1..(2 * m) : Evened(level)[i] = level[IF i <= p THEN i ELSE p]
  BY <1>0, EvenedIs
<1>2. PICK h \in Nat : \/ a = 2 * h /\ a % 2 = 0 /\ a \div 2 = h
                       \/ a = 2 * h + 1 /\ a % 2 = 1 /\ a \div 2 = h
  BY <1>0, Halves
<1>3. CASE a = 2 * h /\ a % 2 = 0 /\ a \div 2 = h
  <2>1. Sibling(a) = 2 * h + 1
    BY <1>3 DEF Sibling
  <2>2. Sibling(a) + 1 = 2 * h + 2 /\ ~(Sibling(a) < a)
    BY <1>3, <2>1
  <2>3. Partner(level, a).side = "right" /\ Partner(level, a).hash = Evened(level)[2 * h + 2]
    BY <2>2 DEF Partner
  <2>4. 2 * h + 2 \in 1..(2 * m)
    BY <1>0, <1>1, <1>3
  <2>5. Evened(level)[2 * h + 2] = level[IF 2 * h + 2 <= p THEN 2 * h + 2 ELSE p]
    BY <1>1, <2>4
  <2>6. a + 1 = 2 * (h + 1) - 1 /\ 2 * h + 2 = 2 * (h + 1) /\ (2 * h + 2 <= p \/ p = 2 * (h + 1) - 1)
    BY <1>0, <1>3
  <2>7. Evened(level)[2 * h + 2] = level[IF 2 * (h + 1) <= p THEN 2 * (h + 1) ELSE 2 * (h + 1) - 1]
    BY <2>5, <2>6
  <2>8. Above(level, p, h + 1) = HashPair(level[a + 1], Partner(level, a).hash)
    BY <2>3, <2>6, <2>7 DEF Above
  <2>9. Partner(level, a).side # "left"
    BY <2>3
  <2> QED
    BY <1>3, <2>8, <2>9
<1>4. CASE a = 2 * h + 1 /\ a % 2 = 1 /\ a \div 2 = h
  <2>1. Sibling(a) = 2 * h
    BY <1>4 DEF Sibling
  <2>2. Sibling(a) + 1 = 2 * h + 1 /\ Sibling(a) < a
    BY <1>4, <2>1
  <2>3. Partner(level, a).side = "left" /\ Partner(level, a).hash = Evened(level)[2 * h + 1]
    BY <2>2 DEF Partner
  <2>4. 2 * h + 1 \in 1..(2 * m) /\ 2 * h + 1 <= p /\ 2 * (h + 1) <= p
        /\ 2 * h + 1 = 2 * (h + 1) - 1 /\ a + 1 = 2 * (h + 1)
    BY <1>0, <1>1, <1>4
  <2>5. Evened(level)[2 * h + 1] = level[2 * (h + 1) - 1]
    BY <1>1, <2>4
  <2>6. Above(level, p, h + 1) = HashPair(Partner(level, a).hash, level[a + 1])
    BY <2>3, <2>4, <2>5 DEF Above
  <2>7. 2 * h <= a
    BY <1>4
  <2> QED
    BY <1>4, <2>3, <2>6, <2>7
<1> QED
  BY <1>2, <1>3, <1>4

Partners(proof, f, n, k, index) ==
    \E at : Halving(index, n, at) /\ proof = [i \in 1..k |-> Partner(f[i - 1], at[i - 1])]

LEMMA ProofIs ==
  ASSUME NEW n \in Nat, NEW t, NEW k, NEW size, Tree(t, n, Levels(t), k, size), NEW index
  PROVE  Partners(MerkleProof(t, index), Levels(t), n, k, index)
<1>1. PICK f : f = Levels(t)
  OBVIOUS
<1>2. k \in Nat /\ k \in 0..n /\ DOMAIN f = 0..n
  BY <1>1 DEF Tree
<1>3. \A h \in 0..n : Len(f[h]) > 1 <=> h \in 0..(k - 1)
  <2> TAKE h \in 0..n
  <2>1. CASE h \in 0..(k - 1)
    <3>1. h \in 0..k /\ size[h] # 1
      BY <1>1, <1>2, <2>1 DEF Tree
    <3>2. size[h] \in Nat /\ size[h] # 0 /\ IsLevel(f[h], size[h])
      BY <1>1, <3>1 DEF Tree
    <3>3. Len(f[h]) = size[h]
      BY <3>2, LenIs
    <3> QED
      BY <2>1, <3>1, <3>2, <3>3
  <2>2. CASE h \notin 0..(k - 1)
    <3>1. h \in k..n /\ k \in 0..k
      BY <1>2, <2>2
    <3>2. f[h] = f[k]
      BY <1>1, <3>1 DEF Tree
    <3>3. IsLevel(f[k], 1)
      BY <1>1, <3>1 DEF Tree
    <3>4. Len(f[h]) = 1
      BY <3>2, <3>3, LenIs
    <3> QED
      BY <2>2, <3>4
  <2> QED
    BY <2>1, <2>2
<1>4. {h \in DOMAIN f : Len(f[h]) > 1} = 0..(k - 1)
  <2>1. \A h \in 0..(k - 1) : h \in 0..n
    BY <1>2
  <2> QED
    BY <1>2, <1>3, <2>1
<1>5. Cardinality({h \in DOMAIN f : Len(f[h]) > 1}) = k
  <2>1. 0 \in Int /\ k - 1 \in Int
    BY <1>2
  <2>2. Cardinality(0..(k - 1)) = IF 0 > k - 1 THEN 0 ELSE (k - 1) - 0 + 1
    BY <2>1, FS_Interval
  <2>3. Cardinality(0..(k - 1)) = k
    BY <1>2, <2>2
  <2> QED
    BY <1>4, <2>3
<1> DEFINE at == CHOOSE g : g = [h \in 0..n |-> IF h = 0 THEN index ELSE g[h - 1] \div 2]
<1>6. Halving(index, n, at)
  <2>1. \E g : Halving(index, n, g)
    BY SomeHalving
  <2> QED
    BY <2>1 DEF Halving
<1>7. MerkleProof(t, index) = [i \in 1..k |-> Partner(f[i - 1], at[i - 1])]
  BY <1>1, <1>2, <1>5, Zenon DEF MerkleProof, Partner, Sibling
<1> QED
  BY <1>1, <1>6, <1>7 DEF Partners

(* The proof of a leaf leads to the root. *)
LEMMA ProofLeads ==
  ASSUME NEW n \in Nat, NEW t, NEW f, NEW k, NEW size, Tree(t, n, f, k, size),
         NEW index \in 0..(n - 1), NEW at, Halving(index, n, at),
         NEW proof, \A i \in 1..k : proof[i] = Partner(f[i - 1], at[i - 1]),
         NEW c, Climb(t[index + 1], proof, k, c)
  PROVE  c[k] = f[k][1]
<1>1. k \in Nat /\ k \in 0..n
  BY DEF Tree
<1>2. /\ at[0] = index
      /\ \A h \in 1..k : at[h] = at[h - 1] \div 2
  <2>1. \A h \in 0..n : at[h] = IF h = 0 THEN index ELSE at[h - 1] \div 2
    BY DEF Halving
  <2>2. 0 \in 0..n /\ \A h \in 1..k : h \in 0..n /\ h # 0
    BY <1>1
  <2> QED
    BY <2>1, <2>2
<1>3. /\ c[0] = Leaf(t[index + 1])
      /\ \A h \in 1..k : c[h] = IF proof[h].side = "left" THEN HashPair(proof[h].hash, c[h - 1])
                                ELSE HashPair(c[h - 1], proof[h].hash)
  <2>1. \A h \in 0..k : c[h] = IF h = 0 THEN Leaf(t[index + 1])
                               ELSE IF proof[h].side = "left" THEN HashPair(proof[h].hash, c[h - 1])
                                    ELSE HashPair(c[h - 1], proof[h].hash)
    BY DEF Climb
  <2>2. 0 \in 0..k /\ \A h \in 1..k : h \in 0..k /\ h # 0
    BY <1>1
  <2> QED
    BY <2>1, <2>2
<1> DEFINE On(h) == at[h] \in 0..(size[h] - 1) /\ c[h] = f[h][at[h] + 1]
<1>4. On(0)
  BY <1>2, <1>3 DEF Tree
<1>5. ASSUME NEW h \in 1..k, On(h - 1) PROVE On(h)
  <2>1. h - 1 \in 0..k /\ h - 1 \in 0..(k - 1) /\ (h - 1) + 1 = h /\ h \in 0..k
    BY <1>1
  <2>2. PICK p \in Nat : p = size[h - 1] /\ p # 0 /\ IsLevel(f[h - 1], p)
    BY <2>1 DEF Tree
  <2>3. PICK a \in 0..(p - 1) : a = at[h - 1]
    BY <1>5, <2>2
  <2>4. at[h] = a \div 2
    BY <1>2, <2>3
  <2>5. f[h] = Parents(f[h - 1])
    BY <2>1 DEF Tree
  <2>6. PICK m \in Nat : /\ m # 0 /\ (p = 2 * m \/ p = 2 * m - 1) /\ IsLevel(f[h], m)
                         /\ \A i \in 1..m : f[h][i] = Above(f[h - 1], p, i)
    <3> HIDE DEF On
    <3>1. PICK level : level = f[h - 1]
      OBVIOUS
    <3>2. \E m \in Nat : /\ m # 0 /\ (p = 2 * m \/ p = 2 * m - 1) /\ IsLevel(Parents(level), m)
                         /\ \A i \in 1..m : Parents(level)[i] = Above(level, p, i)
      BY <2>2, <3>1, ParentsAre
    <3> QED
      BY <2>5, <3>1, <3>2
  <2>7. size[h] = m
    <3>1. IsLevel(f[h], size[h]) /\ size[h] \in Nat
      BY <2>1 DEF Tree
    <3> QED
      BY <2>6, <3>1, LenIs
  <2>8. PICK b \in Nat : b = a \div 2 /\ 2 * b <= a
    BY <2>2, PartnerLeads
  <2>9. b \in 0..(m - 1) /\ b + 1 \in 1..m
    BY <2>3, <2>6, <2>8
  <2>10. proof[h] = Partner(f[h - 1], a) /\ c[h - 1] = f[h - 1][a + 1]
    BY <1>5, <2>3
  <2>11. c[h] = Above(f[h - 1], p, b + 1)
    BY <1>3, <2>2, <2>8, <2>10, PartnerLeads
  <2> QED
    BY <2>4, <2>6, <2>7, <2>8, <2>9, <2>11
<1>6. \A h \in 0..k : On(h)
  <2> HIDE DEF On
  <2> DEFINE Bad == {h \in 0..k : ~On(h)}
  <2>1. SUFFICES ASSUME Bad # {} PROVE FALSE
    OBVIOUS
  <2>2. PICK h \in Bad : \A j \in Bad : h <= j
    <3>1. Bad \subseteq Nat
      BY <1>1
    <3> HIDE DEF Bad
    <3> QED
      BY <2>1, <3>1, Smallest
  <2>3. h \in 0..k /\ ~On(h) /\ h # 0
    BY <1>4, <2>2
  <2>4. h \in 1..k /\ h - 1 \in 0..k /\ ~(h <= h - 1)
    BY <1>1, <2>3
  <2>5. On(h - 1)
    BY <2>2, <2>4
  <2> QED
    BY <1>5, <2>3, <2>4, <2>5
<1>7. at[k] \in 0..(1 - 1) /\ c[k] = f[k][at[k] + 1]
  <2>1. On(k)
    BY <1>1, <1>6
  <2> QED
    BY <2>1 DEF Tree
<1>8. at[k] = 0 /\ 0 + 1 = 1
  BY <1>7
<1> QED
  BY <1>7, <1>8

(* No other leaf gets to the same node. *)
LEMMA ClimbsApart ==
  ASSUME NEW k \in Nat, NEW proof, NEW a, NEW b, NEW c, NEW d,
         Climb(a, proof, k, c), Climb(b, proof, k, d), c[k] = d[k]
  PROVE  a = b
<1>1. /\ c[0] = Leaf(a)
      /\ \A h \in 1..k : c[h] = IF proof[h].side = "left" THEN HashPair(proof[h].hash, c[h - 1])
                                ELSE HashPair(c[h - 1], proof[h].hash)
  <2>1. \A h \in 0..k : c[h] = IF h = 0 THEN Leaf(a)
                               ELSE IF proof[h].side = "left" THEN HashPair(proof[h].hash, c[h - 1])
                                    ELSE HashPair(c[h - 1], proof[h].hash)
    BY DEF Climb
  <2>2. 0 \in 0..k /\ \A h \in 1..k : h \in 0..k /\ h # 0
    OBVIOUS
  <2> QED
    BY <2>1, <2>2
<1>2. /\ d[0] = Leaf(b)
      /\ \A h \in 1..k : d[h] = IF proof[h].side = "left" THEN HashPair(proof[h].hash, d[h - 1])
                                ELSE HashPair(d[h - 1], proof[h].hash)
  <2>1. \A h \in 0..k : d[h] = IF h = 0 THEN Leaf(b)
                               ELSE IF proof[h].side = "left" THEN HashPair(proof[h].hash, d[h - 1])
                                    ELSE HashPair(d[h - 1], proof[h].hash)
    BY DEF Climb
  <2>2. 0 \in 0..k /\ \A h \in 1..k : h \in 0..k /\ h # 0
    OBVIOUS
  <2> QED
    BY <2>1, <2>2
<1> DEFINE Meet == {h \in 0..k : c[h] = d[h]}
<1>3. Meet # {} /\ Meet \subseteq Nat
  OBVIOUS
<1>4. PICK h \in Meet : \A j \in Meet : h <= j
  <2> HIDE DEF Meet
  <2> QED
    BY <1>3, Smallest
<1>5. h = 0
  <2>1. ASSUME h # 0 PROVE FALSE
    <3>1. h \in 1..k /\ h - 1 \in 0..k /\ ~(h <= h - 1) /\ c[h] = d[h]
      BY <1>4, <2>1
    <3>2. c[h - 1] = d[h - 1]
      BY <1>1, <1>2, <3>1, PairsDiffer
    <3> QED
      BY <1>4, <3>1, <3>2
  <2> QED
    BY <2>1
<1>6. Leaf(a) = Leaf(b)
  BY <1>1, <1>2, <1>4, <1>5
<1> QED
  BY <1>6, LeavesDiffer

LEMMA ProofsProve ==
  ASSUME board \subseteq Trackers, NEW t \in board, NEW other
  PROVE  VerifyMerkleProof(other, TrackerProof(t).proof, MerkleRoot(Sorted(board))) <=> other = t
<1>1. PICK s, n : s = Sorted(board) /\ n = Cardinality(board)
  OBVIOUS
<1>2. n \in Nat /\ s \in [1..n -> board] /\ Range(s) = board
  BY <1>1, SortedIs
<1>3. PICK k : \E size : Tree(s, n, Levels(s), k, size) /\ MerkleRoot(s) = Levels(s)[k][1]
  BY <1>1, RootIs
<1>4. PICK size : Tree(s, n, Levels(s), k, size) /\ MerkleRoot(s) = Levels(s)[k][1]
  BY <1>3
<1>5. PICK i \in 1..n : i = CHOOSE j \in DOMAIN s : s[j] = t
  <2>1. \E j \in DOMAIN s : s[j] = t
    BY <1>2 DEF Range
  <2> QED
    BY <1>2, <2>1
<1>6. s[i] = t
  <2>1. \E j \in DOMAIN s : s[j] = t
    BY <1>2 DEF Range
  <2> QED
    BY <1>5, <2>1
<1>7. PICK proof : proof = MerkleProof(s, i - 1)
  OBVIOUS
<1>8. TrackerProof(t).proof = proof
  BY <1>1, <1>5, <1>7 DEF TrackerProof
<1>9. PICK at : /\ Halving(i - 1, n, at)
                /\ proof = [h \in 1..k |-> Partner(Levels(s)[h - 1], at[h - 1])]
  <2>1. Partners(MerkleProof(s, i - 1), Levels(s), n, k, i - 1)
    BY <1>2, <1>4, ProofIs
  <2> QED
    BY <1>7, <2>1 DEF Partners
<1>10. k \in Nat
  BY <1>4 DEF Tree
<1>11. Len(proof) = k
  <2>1. IsLevel(proof, k)
    BY <1>9 DEF IsLevel
  <2> QED
    BY <1>10, <2>1, LenIs
<1>12. PICK c : /\ Climb(t, proof, k, c)
                /\ \A root : VerifyMerkleProof(t, proof, root) <=> c[k] = root
  BY <1>10, <1>11, VerifiesBy
<1>13. PICK d : /\ Climb(other, proof, k, d)
                /\ \A root : VerifyMerkleProof(other, proof, root) <=> d[k] = root
  BY <1>10, <1>11, VerifiesBy
<1>14. c[k] = Levels(s)[k][1]
  <2>1. i - 1 \in 0..(n - 1) /\ (i - 1) + 1 = i
    BY <1>2
  <2>2. \A h \in 1..k : proof[h] = Partner(Levels(s)[h - 1], at[h - 1])
    BY <1>9
  <2>3. Climb(s[(i - 1) + 1], proof, k, c)
    BY <1>6, <1>12, <2>1
  <2>4. PICK f : f = Levels(s)
    OBVIOUS
  <2>5. PICK index \in 0..(n - 1) : index = i - 1
    BY <2>1
  <2>6. /\ Tree(s, n, f, k, size) /\ Halving(index, n, at) /\ Climb(s[index + 1], proof, k, c)
        /\ \A h \in 1..k : proof[h] = Partner(f[h - 1], at[h - 1])
    BY <1>4, <1>9, <2>2, <2>3, <2>4, <2>5
  <2>7. c[k] = f[k][1]
    BY <1>2, <2>6, ProofLeads
  <2> QED
    BY <2>4, <2>7
<1>15. VerifyMerkleProof(other, proof, MerkleRoot(s)) <=> d[k] = c[k]
  BY <1>4, <1>13, <1>14
<1>16. d[k] = c[k] => other = t
  BY <1>10, <1>12, <1>13, ClimbsApart
<1>17. VerifyMerkleProof(t, proof, MerkleRoot(s))
  BY <1>4, <1>12, <1>14
<1> QED
  BY <1>1, <1>8, <1>15, <1>16, <1>17

-----------------------------------------------------------------------------
(* Bulletin: arithmetic modulo Prime.                                        *)

Residue(x) == x % Prime

LEMMA PrimeIs == Prime \in Nat /\ Prime > 1 /\ \A d \in 2..(Prime - 1) : Prime % d # 0
  BY BulletinAssumption

LEMMA Multiples ==
  ASSUME NEW p \in Nat, p > 0, NEW m \in Int, NEW n \in Int, n < m
  PROVE  m * p >= n * p + p
<1>1. PICK d \in Nat : m = n + 1 + d
  <2>1. m - n - 1 \in Nat /\ m = n + 1 + (m - n - 1)
    OBVIOUS
  <2> QED
    BY <2>1
<1>2. m * p = n * p + p + d * p
  BY <1>1
<1>3. d * p >= 0
  BY <1>1
<1> QED
  BY <1>2, <1>3

(* There is one way to divide.                                               *)
LEMMA Remainder ==
  ASSUME NEW p \in Nat, p > 0, NEW q \in Int, NEW r \in Int, 0 <= r, r < p
  PROVE  (q * p + r) % p = r
<1> DEFINE x == q * p + r
           s == x % p
           d == x \div p
<1>1. x \in Int
  OBVIOUS
<1>2. s \in Int /\ d \in Int /\ x = p * d + s /\ 0 <= s /\ s < p
  <2> HIDE DEF x
  <2> QED
    BY <1>1
<1>3. q * p + r = d * p + s
  BY <1>2
<1> HIDE DEF s, d, x
<1>4. ~(d < q)
  <2> SUFFICES ASSUME d < q PROVE FALSE
    OBVIOUS
  <2>1. q * p >= d * p + p
    BY <1>2, Multiples
  <2>2. q * p \in Int /\ d * p \in Int
    BY <1>2
  <2> QED
    BY <1>2, <1>3, <2>1, <2>2
<1>5. ~(q < d)
  <2> SUFFICES ASSUME q < d PROVE FALSE
    OBVIOUS
  <2>1. d * p >= q * p + p
    BY <1>2, Multiples
  <2>2. q * p \in Int /\ d * p \in Int
    BY <1>2
  <2> QED
    BY <1>2, <1>3, <2>1, <2>2
<1>6. d = q
  BY <1>2, <1>4, <1>5
<1>7. s = r
  <2>1. q * p \in Int
    OBVIOUS
  <2> QED
    BY <1>2, <1>3, <1>6, <2>1
<1> QED
  BY <1>7 DEF s, x

LEMMA Divides ==
  ASSUME NEW p \in Nat, p > 0, NEW x \in Int
  PROVE  \E q \in Int : x = q * p + (x % p) /\ x % p \in 0..(p - 1)
<1>1. x \div p \in Int /\ x = p * (x \div p) + (x % p) /\ x % p \in 0..(p - 1)
  OBVIOUS
<1>2. p * (x \div p) = (x \div p) * p
  BY <1>1
<1> QED
  BY <1>1, <1>2

LEMMA ResidueIs ==
  ASSUME NEW x \in Int
  PROVE  /\ Residue(x) \in 0..(Prime - 1) /\ Residue(x) \in Int
         /\ \E q \in Int : x = q * Prime + Residue(x)
<1>1. PICK p \in Nat : p = Prime /\ p > 0
  BY PrimeIs
<1>2. \E q \in Int : x = q * p + (x % p) /\ x % p \in 0..(p - 1)
  BY <1>1, Divides
<1> QED
  BY <1>1, <1>2 DEF Residue

LEMMA ResidueOf ==
  ASSUME NEW q \in Int, NEW x \in Int
  PROVE  Residue(q * Prime + x) = Residue(x)
<1>1. PICK d \in Int : x = d * Prime + Residue(x)
  BY ResidueIs
<1>2. Residue(x) \in Int /\ 0 <= Residue(x) /\ Residue(x) < Prime /\ Prime \in Nat /\ Prime > 0
  BY ResidueIs, PrimeIs
<1>3. PICK r \in Int : r = Residue(x)
  BY <1>2
<1>4. PICK e \in Int : e = q + d
  BY <1>1
<1>5. q * Prime + x = e * Prime + r
  BY <1>1, <1>2, <1>3, <1>4
<1>6. (e * Prime + r) % Prime = r
  BY <1>2, <1>3, Remainder
<1> QED
  BY <1>3, <1>5, <1>6 DEF Residue

LEMMA ResidueOfSmall ==
  ASSUME NEW x \in 0..(Prime - 1)
  PROVE  Residue(x) = x
<1>1. x = 0 * Prime + x /\ x \in Int /\ 0 <= x /\ x < Prime
  BY PrimeIs
<1> QED
  BY <1>1, PrimeIs, Remainder DEF Residue

LEMMA ResidueTwice ==
  ASSUME NEW x \in Int
  PROVE  Residue(Residue(x)) = Residue(x)
  BY ResidueIs, ResidueOfSmall

(* What counts in a sum or a product is the residues of its parts.           *)
LEMMA ResidueSum ==
  ASSUME NEW x \in Int, NEW y \in Int
  PROVE  Residue(Residue(x) + y) = Residue(x + y)
<1>1. PICK q \in Int : x = q * Prime + Residue(x)
  BY ResidueIs
<1>2. PICK r \in Int : r = Residue(x)
  BY ResidueIs
<1>3. x + y = q * Prime + (r + y) /\ r + y \in Int
  BY <1>1, <1>2, PrimeIs
<1> QED
  BY <1>2, <1>3, ResidueOf

LEMMA ResidueProduct ==
  ASSUME NEW x \in Int, NEW y \in Int
  PROVE  Residue(Residue(x) * y) = Residue(x * y)
<1>1. PICK q \in Int : x = q * Prime + Residue(x)
  BY ResidueIs
<1>2. PICK r \in Int : r = Residue(x)
  BY ResidueIs
<1>3. x * y = (q * y) * Prime + r * y /\ r * y \in Int /\ q * y \in Int
  BY <1>1, <1>2, PrimeIs
<1> QED
  BY <1>2, <1>3, ResidueOf

LEMMA Replace ==
  ASSUME NEW x \in Int, NEW z \in Int, NEW y \in Int, Residue(x) = Residue(z)
  PROVE  Residue(x + y) = Residue(z + y) /\ Residue(x * y) = Residue(z * y)
<1>1. Residue(Residue(x) + y) = Residue(x + y) /\ Residue(Residue(z) + y) = Residue(z + y)
  BY ResidueSum
<1>2. Residue(Residue(x) * y) = Residue(x * y) /\ Residue(Residue(z) * y) = Residue(z * y)
  BY ResidueProduct
<1> QED
  BY <1>1, <1>2

LEMMA ReplaceFactor ==
  ASSUME NEW x \in Int, NEW z \in Int, NEW y \in Int, Residue(x) = Residue(z)
  PROVE  Residue(x * y) = Residue(z * y)
  BY Replace

LEMMA Difference ==
  ASSUME NEW x \in Int, NEW y \in Int
  PROVE  Residue(x) = Residue(y) <=> Residue(x - y) = 0
<1>1. ASSUME Residue(x) = Residue(y) PROVE Residue(x - y) = 0
  <2>1. -y \in Int /\ x + (-y) = x - y /\ y + (-y) = 0
    OBVIOUS
  <2>2. Residue(x + (-y)) = Residue(y + (-y))
    BY <1>1, <2>1, Replace
  <2>3. Residue(0) = 0
    BY PrimeIs, ResidueOfSmall
  <2> QED
    BY <2>1, <2>2, <2>3
<1>2. ASSUME Residue(x - y) = 0 PROVE Residue(x) = Residue(y)
  <2>1. PICK d \in Int : d = x - y
    OBVIOUS
  <2>2. Residue(0) = 0 /\ 0 \in Int
    BY PrimeIs, ResidueOfSmall
  <2>3. Residue(d + y) = Residue(0 + y)
    <3>1. Residue(d) = Residue(0)
      BY <1>2, <2>1, <2>2
    <3> QED
      BY <2>2, <3>1, Replace
  <2>4. d + y = x /\ 0 + y = y
    BY <2>1
  <2> QED
    BY <2>3, <2>4
<1> QED
  BY <1>1, <1>2

(* Every residue but 0 has an inverse.                                       *)
LEMMA Inverses ==
  ASSUME NEW n \in 1..(Prime - 1)
  PROVE  \E k \in 1..(Prime - 1) : Residue(k * n) = 1
<1>0. n \in Nat /\ n > 0 /\ Prime \in Nat /\ Prime > 1
  BY PrimeIs
<1> DEFINE Got == {m \in 1..(Prime - 1) : \E k \in Nat : Residue(k * n) = m}
<1>1. n \in Got
  <2>1. 1 * n = n /\ n \in 0..(Prime - 1)
    BY <1>0
  <2>2. Residue(1 * n) = n
    BY <2>1, ResidueOfSmall
  <2> QED
    BY <2>2
<1>2. PICK d \in Got : \A e \in Got : d <= e
  <2>1. Got \subseteq Nat /\ Got # {}
    BY <1>1
  <2> HIDE DEF Got
  <2> QED
    BY <2>1, Smallest
<1>3. d \in 1..(Prime - 1) /\ d \in Nat /\ d > 0
  BY <1>2
<1>4. PICK k \in Nat : Residue(k * n) = d
  BY <1>2
<1>5. d = 1
  <2> SUFFICES ASSUME d # 1 PROVE FALSE
    OBVIOUS
  <2>1. d \in 2..(Prime - 1)
    BY <1>3
  <2>2. PICK q \in Int : Prime = q * d + (Prime % d) /\ Prime % d \in 0..(d - 1)
    BY <1>0, <1>3, Divides
  <2>3. PICK r \in Int : r = Prime % d
    BY <2>2
  <2>4. r # 0 /\ r >= 1 /\ r < d
    BY <2>1, <2>2, <2>3, <1>3, PrimeIs
  <2>5. q \in Nat
    <3> SUFFICES ASSUME q < 0 PROVE FALSE
      BY <2>2
    <3>1. 0 * d >= q * d + d
      BY <1>3, <2>2, Multiples
    <3>2. q * d \in Int /\ 0 * d = 0
      BY <1>3, <2>2
    <3> QED
      BY <1>0, <1>3, <2>2, <2>3, <2>4, <3>1, <3>2
  <2> DEFINE j == ((Prime - 1) * q) * k
  <2>6. j \in Nat
    BY <1>0, <2>5
  <2>7. Residue(j * n) = Residue((q * Prime) * d + (-(q * d)))
    <3>1. Residue(d) = d
      BY <1>3, ResidueOfSmall
    <3>2. k * n \in Int /\ (Prime - 1) * q \in Int /\ d \in Int
      BY <1>0, <1>3, <2>5
    <3>3. Residue((k * n) * ((Prime - 1) * q)) = Residue(d * ((Prime - 1) * q))
      <4>1. PICK x \in Int, y \in Int : x = k * n /\ y = (Prime - 1) * q
        BY <3>2
      <4>2. Residue(x) = Residue(d) /\ d \in Int
        BY <1>4, <3>1, <3>2, <4>1
      <4>3. Residue(x * y) = Residue(d * y)
        BY <4>2, ReplaceFactor
      <4> QED
        BY <4>1, <4>3
    <3>4. j * n = (k * n) * ((Prime - 1) * q)
      BY <1>0, <2>5
    <3>5. d * ((Prime - 1) * q) = (q * Prime) * d + (-(q * d))
      BY <1>0, <1>3, <2>5
    <3> QED
      BY <3>3, <3>4, <3>5
  <2>8. (q * Prime) * d + (-(q * d)) = (q * d - 1) * Prime + r
    BY <1>0, <1>3, <2>2, <2>3
  <2>9. Residue((q * d - 1) * Prime + r) = r
    <3>1. q * d - 1 \in Int /\ r \in 0..(Prime - 1)
      BY <1>3, <2>2, <2>4
    <3> QED
      BY <3>1, ResidueOf, ResidueOfSmall
  <2>10. r \in Got
    <3>1. r \in 1..(Prime - 1)
      <4>1. d < Prime /\ d \in Int /\ Prime \in Int
        BY <1>0, <1>3
      <4> QED
        BY <2>4, <4>1
    <3> QED
      BY <2>6, <2>7, <2>8, <2>9, <3>1
  <2> QED
    BY <1>2, <1>3, <2>4, <2>10
<1>6. PICK i \in Int : i = Residue(k)
  BY ResidueIs
<1>7. Residue(i * n) = 1
  BY <1>0, <1>4, <1>5, <1>6, ResidueProduct
<1>8. i # 0
  <2> SUFFICES ASSUME i = 0 PROVE FALSE
    OBVIOUS
  <2>1. i * n = 0 /\ 0 \in 0..(Prime - 1)
    BY <1>0
  <2> QED
    BY <1>7, <2>1, ResidueOfSmall
<1>9. i \in 1..(Prime - 1)
  BY <1>6, <1>8, ResidueIs
<1> QED
  BY <1>7, <1>9

LEMMA ReciprocalIs ==
  ASSUME NEW n \in 1..(Prime - 1)
  PROVE  Reciprocal(n) \in 1..(Prime - 1) /\ Residue(Reciprocal(n) * n) = 1
<1>1. \E k \in 1..(Prime - 1) : (k * n) % Prime = 1
  BY Inverses DEF Residue
<1> QED
  BY <1>1 DEF Reciprocal, Residue

(* A product is 0 only if a factor is.                                       *)
LEMMA NoDivisorsOfZero ==
  ASSUME NEW x \in Int, NEW y \in Int, Residue(x) # 0, Residue(x * y) = 0
  PROVE  Residue(y) = 0
<1>1. PICK n \in 1..(Prime - 1) : n = Residue(x)
  BY ResidueIs
<1>2. PICK k \in 1..(Prime - 1) : Residue(k * n) = 1
  BY Inverses
<1>3. k \in Int /\ n \in Int
  OBVIOUS
<1>4. Residue(x * k) = 1
  <2>1. Residue(n * k) = Residue(x * k) /\ n * k = k * n
    BY <1>1, <1>3, ResidueProduct
  <2> QED
    BY <1>2, <2>1
<1>5. Residue(0) = 0 /\ Residue(1) = 1
  BY PrimeIs, ResidueOfSmall
<1>6. Residue((x * y) * k) = Residue(0 * k)
  <2>1. PICK u \in Int : u = x * y
    OBVIOUS
  <2>2. Residue(u) = Residue(0) /\ 0 \in Int
    BY <1>5, <2>1
  <2>3. Residue(u * k) = Residue(0 * k)
    BY <1>3, <2>2, ReplaceFactor
  <2> QED
    BY <2>1, <2>3
<1>7. Residue((x * k) * y) = Residue(1 * y)
  <2>1. PICK u \in Int : u = x * k
    BY <1>3
  <2>2. Residue(u) = Residue(1) /\ 1 \in Int
    BY <1>4, <1>5, <2>1
  <2>3. Residue(u * y) = Residue(1 * y)
    BY <2>2, Replace
  <2> QED
    BY <2>1, <2>3
<1>8. (x * y) * k = (x * k) * y /\ 0 * k = 0 /\ 1 * y = y
  BY <1>3
<1> QED
  BY <1>5, <1>6, <1>7, <1>8

-----------------------------------------------------------------------------
(* Bulletin: sums and products modulo Prime, over finite sets.               *)

LEMMA SmallestSet ==
  ASSUME NEW S, IsFiniteSet(S), NEW Bad, Bad \subseteq SUBSET S, Bad # {}
  PROVE  \E T \in Bad : /\ IsFiniteSet(T) /\ T \subseteq S
                        /\ \A U \in SUBSET T : U # T => U \notin Bad
<1>1. \A T \in SUBSET S : IsFiniteSet(T)
  BY FS_Subset
<1>2. Bad \subseteq FiniteSubsetsOf(S)
  BY <1>1 DEF FiniteSubsetsOf
<1>3. IsWellFoundedOn(StrictSubsetOrdering(S), FiniteSubsetsOf(S))
  BY FS_StrictSubsetOrderingWellFounded
<1>4. \E T \in Bad : \A U \in Bad : <<U, T>> \notin StrictSubsetOrdering(S)
  BY <1>2, <1>3, WFMin
<1>5. PICK T \in Bad : \A U \in Bad : <<U, T>> \notin StrictSubsetOrdering(S)
  BY <1>4
<1>6. ASSUME NEW U \in SUBSET T, U # T, U \in Bad PROVE FALSE
  <2>1. U \in SUBSET S /\ T \in SUBSET S
    BY <1>6
  <2>2. <<U, T>> \in StrictSubsetOrdering(S)
    BY <1>6, <2>1 DEF StrictSubsetOrdering
  <2> QED
    BY <1>5, <1>6, <2>2
<1> QED
  BY <1>1, <1>5, <1>6

FirstOf(s) == CHOOSE x \in s : TRUE
Combined(m, a, b) == IF m = "sum" THEN (a + b) % Prime ELSE (a * b) % Prime
Neutral(m) == IF m = "sum" THEN 0 ELSE 1

Folding(it, m, f, S) ==
    it = [s \in SUBSET S |-> IF s = {} THEN Neutral(m) ELSE Combined(m, f[FirstOf(s)], it[s \ {FirstOf(s)}])]
Folded(m, f, S) == (CHOOSE it : Folding(it, m, f, S))[S]

LEMMA FirstIsIn == \A s : s # {} => FirstOf(s) \in s
  BY DEF FirstOf

LEMMA FoldingAgrees ==
  ASSUME NEW m, NEW f, NEW A, NEW B, NEW i, NEW j, Folding(i, m, f, A), Folding(j, m, f, B),
         NEW s, IsFiniteSet(s), s \subseteq A, s \subseteq B
  PROVE  i[s] = j[s]
<1> DEFINE Bad == {t \in SUBSET s : i[t] # j[t]}
<1>1. SUFFICES ASSUME Bad # {} PROVE FALSE
  OBVIOUS
<1>2. PICK T \in Bad : T \subseteq s /\ \A U \in SUBSET T : U # T => U \notin Bad
  <2>1. Bad \subseteq SUBSET s
    BY DEF Bad
  <2> HIDE DEF Bad
  <2> QED
    BY <1>1, <2>1, SmallestSet
<1>3. T \in SUBSET A /\ T \in SUBSET B
  BY <1>2
<1>4. /\ i[T] = IF T = {} THEN Neutral(m) ELSE Combined(m, f[FirstOf(T)], i[T \ {FirstOf(T)}])
      /\ j[T] = IF T = {} THEN Neutral(m) ELSE Combined(m, f[FirstOf(T)], j[T \ {FirstOf(T)}])
  BY <1>3 DEF Folding
<1>5. CASE T = {}
  BY <1>2, <1>4, <1>5
<1>6. CASE T # {}
  <2> DEFINE U == T \ {FirstOf(T)}
  <2>1. U \in SUBSET T /\ U # T
    BY <1>6, FirstIsIn
  <2>2. i[U] = j[U]
    BY <1>2, <2>1
  <2> QED
    BY <1>2, <1>4, <1>6, <2>2
<1> QED
  BY <1>5, <1>6

LEMMA FoldedIs ==
  ASSUME NEW m, NEW f, NEW A, NEW i, Folding(i, m, f, A), NEW s, IsFiniteSet(s), s \subseteq A
  PROVE  Folded(m, f, s) = i[s]
<1> DEFINE r == [t \in SUBSET s |-> i[t]]
<1>1. \A t \in SUBSET s : i[t] = IF t = {} THEN Neutral(m) ELSE Combined(m, f[FirstOf(t)], i[t \ {FirstOf(t)}])
  BY DEF Folding
<1>2. \A t \in SUBSET s : t \ {FirstOf(t)} \in SUBSET s
  OBVIOUS
<1>3. r = [t \in SUBSET s |-> IF t = {} THEN Neutral(m) ELSE Combined(m, f[FirstOf(t)], r[t \ {FirstOf(t)}])]
  BY <1>1, <1>2
<1> HIDE DEF r
<1>4. Folding(r, m, f, s)
  BY <1>3 DEF Folding
<1>5. Folding((CHOOSE it : Folding(it, m, f, s)), m, f, s)
  BY <1>4
<1> QED
  BY <1>5, FoldingAgrees DEF Folded

LEMMA SomeFolding ==
  ASSUME NEW m, NEW f, NEW S, IsFiniteSet(S)
  PROVE  \E it : Folding(it, m, f, S)
<1> DEFINE Bad == {t \in SUBSET S : ~\E it : Folding(it, m, f, t)}
<1>1. SUFFICES ASSUME Bad # {} PROVE FALSE
  BY DEF Bad
<1>2. PICK T \in Bad : IsFiniteSet(T) /\ T \subseteq S /\ \A U \in SUBSET T : U # T => U \notin Bad
  <2>1. Bad \subseteq SUBSET S
    BY DEF Bad
  <2> HIDE DEF Bad
  <2> QED
    BY <1>1, <2>1, SmallestSet
<1>3. \A U \in SUBSET T : U # T => \E it : Folding(it, m, f, U)
  BY <1>2
<1> DEFINE it == [s \in SUBSET T |-> IF s = {} THEN Neutral(m)
                                     ELSE Combined(m, f[FirstOf(s)], Folded(m, f, s \ {FirstOf(s)}))]
<1>4. ASSUME NEW s \in SUBSET T, s # T PROVE it[s] = Folded(m, f, s)
  <2>0. IsFiniteSet(s)
    BY <1>2, FS_Subset
  <2>1. PICK i : Folding(i, m, f, s)
    BY <1>3, <1>4
  <2>2. Folded(m, f, s) = i[s]
    BY <2>0, <2>1, FoldedIs
  <2>3. i[s] = IF s = {} THEN Neutral(m) ELSE Combined(m, f[FirstOf(s)], i[s \ {FirstOf(s)}])
    BY <2>1 DEF Folding
  <2>4. Folded(m, f, s \ {FirstOf(s)}) = i[s \ {FirstOf(s)}]
    <3>1. IsFiniteSet(s \ {FirstOf(s)}) /\ s \ {FirstOf(s)} \subseteq s
      BY <2>0, FS_RemoveElement
    <3> QED
      BY <2>1, <3>1, FoldedIs
  <2> QED
    BY <2>2, <2>3, <2>4
<1>5. \A s \in SUBSET T : s # {} => it[s \ {FirstOf(s)}] = Folded(m, f, s \ {FirstOf(s)})
  <2>1. ASSUME NEW s \in SUBSET T, s # {} PROVE it[s \ {FirstOf(s)}] = Folded(m, f, s \ {FirstOf(s)})
    <3>1. s \ {FirstOf(s)} \in SUBSET T /\ s \ {FirstOf(s)} # T
      BY <2>1, FirstIsIn
    <3> QED
      BY <1>4, <3>1
  <2> QED
    BY <2>1
<1>6. it = [s \in SUBSET T |-> IF s = {} THEN Neutral(m) ELSE Combined(m, f[FirstOf(s)], it[s \ {FirstOf(s)}])]
  BY <1>5
<1>7. Folding(it, m, f, T)
  <2> HIDE DEF it
  <2> QED
    BY <1>6 DEF Folding
<1> QED
  BY <1>2, <1>7

LEMMA FoldedUnfolds ==
  ASSUME NEW m, NEW f, NEW S, IsFiniteSet(S)
  PROVE  /\ S = {} => Folded(m, f, S) = Neutral(m)
         /\ S # {} => Folded(m, f, S) = Combined(m, f[FirstOf(S)], Folded(m, f, S \ {FirstOf(S)}))
<1>1. PICK i : Folding(i, m, f, S)
  BY SomeFolding
<1>2. i[S] = IF S = {} THEN Neutral(m) ELSE Combined(m, f[FirstOf(S)], i[S \ {FirstOf(S)}])
  BY <1>1 DEF Folding
<1>3. Folded(m, f, S) = i[S]
  BY <1>1, FoldedIs
<1>4. Folded(m, f, S \ {FirstOf(S)}) = i[S \ {FirstOf(S)}]
  BY <1>1, FoldedIs, FS_RemoveElement
<1> QED
  BY <1>2, <1>3, <1>4

(* The folds of the module are these.                                        *)
Summing(it, f, S) ==
    it = [s \in SUBSET S |-> IF s = {} THEN 0
                             ELSE (f[CHOOSE x \in s : TRUE] + it[s \ {CHOOSE x \in s : TRUE}]) % Prime]
Multiplying(it, f, S) ==
    it = [s \in SUBSET S |-> IF s = {} THEN 1
                             ELSE (f[CHOOSE x \in s : TRUE] * it[s \ {CHOOSE x \in s : TRUE}]) % Prime]

LEMMA SumIsFolded ==
  ASSUME NEW f, NEW S, IsFiniteSet(S)
  PROVE  SumModulo(f, S) = Folded("sum", f, S)
<1>1. SumModulo(f, S) = (CHOOSE it : Summing(it, f, S))[S]
  BY DEF SumModulo, FoldFunctionOnSet, MapThenFoldSet, Summing
<1>2. \A it : Summing(it, f, S) <=> Folding(it, "sum", f, S)
  BY DEF Summing, Folding, FirstOf, Combined, Neutral
<1>3. \E it : Summing(it, f, S)
  BY <1>2, SomeFolding
<1>4. Summing((CHOOSE it : Summing(it, f, S)), f, S)
  BY <1>3
<1>5. Folding((CHOOSE it : Summing(it, f, S)), "sum", f, S)
  BY <1>2, <1>4
<1> QED
  BY <1>1, <1>5, FoldedIs

LEMMA ProductIsFolded ==
  ASSUME NEW f, NEW S, IsFiniteSet(S)
  PROVE  ProductModulo(f, S) = Folded("product", f, S)
<1>1. ProductModulo(f, S) = (CHOOSE it : Multiplying(it, f, S))[S]
  BY DEF ProductModulo, FoldFunctionOnSet, MapThenFoldSet, Multiplying
<1>2. \A it : Multiplying(it, f, S) <=> Folding(it, "product", f, S)
  BY DEF Multiplying, Folding, FirstOf, Combined, Neutral
<1>3. \E it : Multiplying(it, f, S)
  BY <1>2, SomeFolding
<1>4. Multiplying((CHOOSE it : Multiplying(it, f, S)), f, S)
  BY <1>3
<1>5. Folding((CHOOSE it : Multiplying(it, f, S)), "product", f, S)
  BY <1>2, <1>4
<1> QED
  BY <1>1, <1>5, FoldedIs

LEMMA CombinedType ==
  ASSUME NEW m, NEW a \in Int, NEW b \in Int
  PROVE  Combined(m, a, b) \in 0..(Prime - 1) /\ Combined(m, a, b) \in Int
<1>1. Residue(a + b) \in 0..(Prime - 1) /\ Residue(a * b) \in 0..(Prime - 1)
  BY ResidueIs
<1> QED
  BY <1>1 DEF Combined, Residue

LEMMA FoldedType ==
  ASSUME NEW m, NEW S, IsFiniteSet(S), NEW f, \A x \in S : f[x] \in Int
  PROVE  Folded(m, f, S) \in 0..(Prime - 1) /\ Folded(m, f, S) \in Int
<1> DEFINE Bad == {t \in SUBSET S : Folded(m, f, t) \notin 0..(Prime - 1)}
<1>1. SUFFICES ASSUME Bad # {} PROVE FALSE
  <2>1. S \notin Bad => Folded(m, f, S) \in 0..(Prime - 1)
    OBVIOUS
  <2> QED
    BY <2>1
<1>2. PICK T \in Bad : IsFiniteSet(T) /\ T \subseteq S /\ \A U \in SUBSET T : U # T => U \notin Bad
  <2>1. Bad \subseteq SUBSET S
    OBVIOUS
  <2> HIDE DEF Bad
  <2> QED
    BY <1>1, <2>1, SmallestSet
<1>3. CASE T = {}
  <2>1. Folded(m, f, T) = Neutral(m)
    BY <1>2, <1>3, FoldedUnfolds
  <2>2. Neutral(m) \in 0..(Prime - 1)
    BY PrimeIs DEF Neutral
  <2> QED
    BY <1>2, <2>1, <2>2
<1>4. CASE T # {}
  <2> DEFINE U == T \ {FirstOf(T)}
  <2>1. U \in SUBSET T /\ U # T /\ FirstOf(T) \in S
    BY <1>2, <1>4, FirstIsIn
  <2>2. PICK u \in Int : u = Folded(m, f, U)
    BY <1>2, <2>1
  <2>3. Folded(m, f, T) = Combined(m, f[FirstOf(T)], Folded(m, f, U))
    BY <1>2, <1>4, FoldedUnfolds
  <2>4. PICK v \in Int : v = f[FirstOf(T)]
    BY <2>1
  <2>5. Combined(m, v, u) \in 0..(Prime - 1)
    BY CombinedType
  <2>6. Folded(m, f, T) \in 0..(Prime - 1)
    BY <2>2, <2>3, <2>4, <2>5
  <2> QED
    BY <1>2, <2>6
<1> QED
  BY <1>3, <1>4

LEMMA CombinedEither ==
  ASSUME NEW m, NEW a \in Int, NEW b \in Int, NEW c \in Int
  PROVE  Combined(m, a, Combined(m, b, c)) = Combined(m, b, Combined(m, a, c))
<1>1. PICK u \in Int : u = a + c
  OBVIOUS
<1>2. PICK v \in Int : v = b + c
  OBVIOUS
<1>3. PICK w \in Int : w = a * c
  OBVIOUS
<1>4. PICK z \in Int : z = b * c
  OBVIOUS
<1>5. Residue(Residue(v) + a) = Residue(v + a) /\ Residue(Residue(u) + b) = Residue(u + b)
  BY ResidueSum
<1>6. Residue(Residue(z) * a) = Residue(z * a) /\ Residue(Residue(w) * b) = Residue(w * b)
  BY ResidueProduct
<1>7. v + a = u + b /\ z * a = w * b
  BY <1>1, <1>2, <1>3, <1>4
<1>8. Residue(v) \in Int /\ Residue(u) \in Int /\ Residue(z) \in Int /\ Residue(w) \in Int
  BY ResidueIs
<1>9. /\ a + Residue(v) = Residue(v) + a /\ b + Residue(u) = Residue(u) + b
      /\ a * Residue(z) = Residue(z) * a /\ b * Residue(w) = Residue(w) * b
  BY <1>8
<1>10. Residue(a + Residue(v)) = Residue(b + Residue(u)) /\ Residue(a * Residue(z)) = Residue(b * Residue(w))
  BY <1>5, <1>6, <1>7, <1>9
<1>11. CASE m = "sum"
  <2>1. Combined(m, b, c) = Residue(v) /\ Combined(m, a, c) = Residue(u)
    BY <1>1, <1>2, <1>11 DEF Combined, Residue
  <2>2. /\ Combined(m, a, Residue(v)) = Residue(a + Residue(v))
        /\ Combined(m, b, Residue(u)) = Residue(b + Residue(u))
    BY <1>11 DEF Combined, Residue
  <2> QED
    BY <1>10, <2>1, <2>2
<1>12. CASE m # "sum"
  <2>1. Combined(m, b, c) = Residue(z) /\ Combined(m, a, c) = Residue(w)
    BY <1>3, <1>4, <1>12 DEF Combined, Residue
  <2>2. /\ Combined(m, a, Residue(z)) = Residue(a * Residue(z))
        /\ Combined(m, b, Residue(w)) = Residue(b * Residue(w))
    BY <1>12 DEF Combined, Residue
  <2> QED
    BY <1>10, <2>1, <2>2
<1> QED
  BY <1>11, <1>12

(* Whatever element is taken out.                                            *)
LEMMA FoldedTakes ==
  ASSUME NEW m, NEW S, IsFiniteSet(S), NEW f, \A x \in S : f[x] \in Int, NEW y \in S
  PROVE  Folded(m, f, S) = Combined(m, f[y], Folded(m, f, S \ {y}))
<1> DEFINE Bad == {t \in SUBSET S : \E x \in t : Folded(m, f, t) # Combined(m, f[x], Folded(m, f, t \ {x}))}
<1>1. SUFFICES ASSUME Bad # {} PROVE FALSE
  OBVIOUS
<1>2. PICK T \in Bad : IsFiniteSet(T) /\ T \subseteq S /\ \A U \in SUBSET T : U # T => U \notin Bad
  <2>1. Bad \subseteq SUBSET S
    OBVIOUS
  <2> HIDE DEF Bad
  <2> QED
    BY <1>1, <2>1, SmallestSet
<1>3. PICK x \in T : Folded(m, f, T) # Combined(m, f[x], Folded(m, f, T \ {x}))
  BY <1>2
<1> DEFINE c == FirstOf(T)
           V == T \ {c}
           W == T \ {x}
<1>4. c \in T /\ Folded(m, f, T) = Combined(m, f[c], Folded(m, f, V))
  BY <1>2, <1>3, FirstIsIn, FoldedUnfolds
<1>5. c # x
  BY <1>3, <1>4
<1>6. /\ V \in SUBSET T /\ V # T /\ x \in V
      /\ W \in SUBSET T /\ W # T /\ c \in W
      /\ V \ {x} = W \ {c}
  BY <1>3, <1>4, <1>5
<1>7. V \in SUBSET S /\ W \in SUBSET S
  BY <1>2
<1>8. /\ Folded(m, f, V) = Combined(m, f[x], Folded(m, f, V \ {x}))
      /\ Folded(m, f, W) = Combined(m, f[c], Folded(m, f, W \ {c}))
  <2>1. V \notin Bad /\ W \notin Bad
    BY <1>2, <1>6
  <2> QED
    BY <1>6, <1>7, <2>1
<1>9. f[c] \in Int /\ f[x] \in Int /\ Folded(m, f, W \ {c}) \in Int
  <2>1. IsFiniteSet(W \ {c}) /\ W \ {c} \subseteq S
    BY <1>2, <1>7, FS_RemoveElement
  <2>2. c \in S /\ x \in S
    BY <1>2, <1>3, <1>4
  <2> HIDE DEF c, W
  <2>3. \A z \in W \ {c} : f[z] \in Int
    BY <2>1
  <2> QED
    BY <2>1, <2>2, <2>3, FoldedType
<1>10. Folded(m, f, T) = Combined(m, f[x], Folded(m, f, W))
  <2>1. Folded(m, f, V \ {x}) = Folded(m, f, W \ {c})
    BY <1>6
  <2> HIDE DEF c, V, W
  <2>2. PICK u \in Int : u = f[c]
    BY <1>9
  <2>3. PICK v \in Int : v = f[x]
    BY <1>9
  <2>4. PICK w \in Int : w = Folded(m, f, W \ {c})
    BY <1>9
  <2>5. Combined(m, u, Combined(m, v, w)) = Combined(m, v, Combined(m, u, w))
    BY CombinedEither
  <2> QED
    BY <1>4, <1>8, <2>1, <2>2, <2>3, <2>4, <2>5
<1> QED
  BY <1>3, <1>10

(* The values count, not how they are given.                                 *)
LEMMA FoldedSame ==
  ASSUME NEW m, NEW S, IsFiniteSet(S), NEW f, NEW g, \A x \in S : f[x] = g[x]
  PROVE  Folded(m, f, S) = Folded(m, g, S)
<1> DEFINE Bad == {t \in SUBSET S : Folded(m, f, t) # Folded(m, g, t)}
<1>1. SUFFICES ASSUME Bad # {} PROVE FALSE
  OBVIOUS
<1>2. PICK T \in Bad : IsFiniteSet(T) /\ T \subseteq S /\ \A U \in SUBSET T : U # T => U \notin Bad
  <2>1. Bad \subseteq SUBSET S
    OBVIOUS
  <2> HIDE DEF Bad
  <2> QED
    BY <1>1, <2>1, SmallestSet
<1>3. CASE T = {}
  BY <1>2, <1>3, FoldedUnfolds
<1>4. CASE T # {}
  <2> DEFINE U == T \ {FirstOf(T)}
  <2>1. U \in SUBSET T /\ U # T /\ FirstOf(T) \in S
    BY <1>2, <1>4, FirstIsIn
  <2>2. U \in SUBSET S /\ U \notin Bad
    BY <1>2, <2>1
  <2>3. Folded(m, f, U) = Folded(m, g, U)
    BY <2>2
  <2>4. /\ Folded(m, f, T) = Combined(m, f[FirstOf(T)], Folded(m, f, U))
        /\ Folded(m, g, T) = Combined(m, g[FirstOf(T)], Folded(m, g, U))
    BY <1>2, <1>4, FoldedUnfolds
  <2>5. Folded(m, f, T) = Folded(m, g, T)
    BY <2>1, <2>3, <2>4
  <2> QED
    BY <1>2, <2>5
<1> QED
  BY <1>3, <1>4

-----------------------------------------------------------------------------
(* Bulletin: the trustees' shares give the secret back.                      *)

LEMMA ReplaceBoth ==
  ASSUME NEW x \in Int, NEW z \in Int, NEW y \in Int, NEW w \in Int,
         Residue(x) = Residue(z), Residue(y) = Residue(w)
  PROVE  Residue(x + y) = Residue(z + w) /\ Residue(x * y) = Residue(z * w)
<1>1. Residue(x + y) = Residue(z + y) /\ Residue(x * y) = Residue(z * y)
  BY Replace
<1>2. Residue(y + z) = Residue(w + z) /\ Residue(y * z) = Residue(w * z)
  BY Replace
<1>3. y + z = z + y /\ w + z = z + w /\ y * z = z * y /\ w * z = z * w
  OBVIOUS
<1> QED
  BY <1>1, <1>2, <1>3

LEMMA SumTakes ==
  ASSUME NEW S, IsFiniteSet(S), NEW f, \A x \in S : f[x] \in Int, NEW y \in S
  PROVE  SumModulo(f, S) = Residue(f[y] + SumModulo(f, S \ {y})) /\ SumModulo(f, S \ {y}) \in Int
<1>1. IsFiniteSet(S \ {y}) /\ \A x \in S \ {y} : f[x] \in Int
  BY FS_RemoveElement
<1>2. SumModulo(f, S) = Folded("sum", f, S)
  BY SumIsFolded
<1>3. PICK R : R = S \ {y} /\ IsFiniteSet(R) /\ \A x \in R : f[x] \in Int
  BY <1>1
<1>4. SumModulo(f, R) = Folded("sum", f, R) /\ Folded("sum", f, R) \in Int
  BY <1>3, SumIsFolded, FoldedType
<1>5. Folded("sum", f, S) = Combined("sum", f[y], Folded("sum", f, R))
  BY <1>3, FoldedTakes
<1> QED
  BY <1>2, <1>3, <1>4, <1>5 DEF Combined, Residue

LEMMA SumOfNone == ASSUME NEW f PROVE SumModulo(f, {}) = 0
<1>1. IsFiniteSet({})
  BY FS_EmptySet
<1> QED
  BY <1>1, SumIsFolded, FoldedUnfolds DEF Neutral

LEMMA SumType ==
  ASSUME NEW S, IsFiniteSet(S), NEW f, \A x \in S : f[x] \in Int
  PROVE  SumModulo(f, S) \in 0..(Prime - 1) /\ SumModulo(f, S) \in Int
  BY SumIsFolded, FoldedType

LEMMA SumSame ==
  ASSUME NEW S, IsFiniteSet(S), NEW f, NEW g, \A x \in S : f[x] = g[x]
  PROVE  SumModulo(f, S) = SumModulo(g, S)
  BY SumIsFolded, FoldedSame

LEMMA ProductTakes ==
  ASSUME NEW S, IsFiniteSet(S), NEW f, \A x \in S : f[x] \in Int, NEW y \in S
  PROVE  ProductModulo(f, S) = Residue(f[y] * ProductModulo(f, S \ {y})) /\ ProductModulo(f, S \ {y}) \in Int
<1>1. IsFiniteSet(S \ {y}) /\ \A x \in S \ {y} : f[x] \in Int
  BY FS_RemoveElement
<1>2. ProductModulo(f, S) = Folded("product", f, S)
  BY ProductIsFolded
<1>3. PICK R : R = S \ {y} /\ IsFiniteSet(R) /\ \A x \in R : f[x] \in Int
  BY <1>1
<1>4. ProductModulo(f, R) = Folded("product", f, R) /\ Folded("product", f, R) \in Int
  BY <1>3, ProductIsFolded, FoldedType
<1>5. Folded("product", f, S) = Combined("product", f[y], Folded("product", f, R))
  BY <1>3, FoldedTakes
<1> QED
  BY <1>2, <1>3, <1>4, <1>5 DEF Combined, Residue

LEMMA ProductOfNone == ASSUME NEW f PROVE ProductModulo(f, {}) = 1
<1>1. IsFiniteSet({})
  BY FS_EmptySet
<1> QED
  BY <1>1, ProductIsFolded, FoldedUnfolds DEF Neutral

LEMMA ProductType ==
  ASSUME NEW S, IsFiniteSet(S), NEW f, \A x \in S : f[x] \in Int
  PROVE  ProductModulo(f, S) \in 0..(Prime - 1) /\ ProductModulo(f, S) \in Int
  BY ProductIsFolded, FoldedType

LEMMA ProductSame ==
  ASSUME NEW S, IsFiniteSet(S), NEW f, NEW g, \A x \in S : f[x] = g[x]
  PROVE  ProductModulo(f, S) = ProductModulo(g, S)
  BY ProductIsFolded, FoldedSame

LEMMA ProductNotZero ==
  ASSUME NEW S, IsFiniteSet(S), NEW f, \A x \in S : f[x] \in Int /\ Residue(f[x]) # 0
  PROVE  ProductModulo(f, S) \in 1..(Prime - 1)
<1> DEFINE Bad == {t \in SUBSET S : ProductModulo(f, t) = 0}
<1>1. SUFFICES ASSUME Bad # {} PROVE FALSE
  <2>1. S \notin Bad => ProductModulo(f, S) # 0
    OBVIOUS
  <2>2. ProductModulo(f, S) \in 0..(Prime - 1)
    BY ProductType
  <2> HIDE DEF Bad
  <2> QED
    BY <2>1, <2>2
<1>2. PICK T \in Bad : IsFiniteSet(T) /\ T \subseteq S /\ \A U \in SUBSET T : U # T => U \notin Bad
  <2>1. Bad \subseteq SUBSET S
    OBVIOUS
  <2> HIDE DEF Bad
  <2> QED
    BY <1>1, <2>1, SmallestSet
<1>3. ProductModulo(f, T) = 0
  BY <1>2
<1>4. T # {}
  BY <1>3, ProductOfNone
<1>5. PICK y \in T : TRUE
  BY <1>4
<1>6. PICK U : U = T \ {y}
  OBVIOUS
<1>7. U \in SUBSET T /\ U # T /\ U \in SUBSET S
  BY <1>2, <1>5, <1>6
<1>8. ProductModulo(f, U) # 0
  BY <1>2, <1>7
<1>9. \A x \in T : f[x] \in Int
  BY <1>2
<1>10. ProductModulo(f, T) = Residue(f[y] * ProductModulo(f, U)) /\ ProductModulo(f, U) \in Int
  BY <1>2, <1>6, <1>9, ProductTakes
<1>11. IsFiniteSet(U) /\ \A x \in U : f[x] \in Int
  BY <1>2, <1>7, <1>9, FS_Subset
<1>12. ProductModulo(f, U) \in 0..(Prime - 1)
  BY <1>11, ProductType
<1>13. PICK a \in Int : a = f[y]
  BY <1>9
<1>14. PICK b \in 0..(Prime - 1) : b = ProductModulo(f, U)
  BY <1>12
<1>15. Residue(a * b) = 0 /\ Residue(a) # 0 /\ b \in Int
  BY <1>2, <1>3, <1>10, <1>13, <1>14
<1>16. Residue(b) = 0
  BY <1>15, NoDivisorsOfZero
<1>17. Residue(b) = b
  BY ResidueOfSmall
<1> QED
  BY <1>8, <1>14, <1>16, <1>17

LEMMA ScaledSum ==
  ASSUME NEW u \in Int, NEW a \in Int, NEW b \in Int
  PROVE  u * Residue(a + b) \in Int /\ Residue(u * Residue(a + b)) = Residue(u * a + u * b)
<1>1. PICK s \in Int : s = a + b
  OBVIOUS
<1>2. Residue(Residue(s) * u) = Residue(s * u)
  BY ResidueProduct
<1>3. PICK r \in Int : r = Residue(s)
  BY ResidueIs
<1>4. r * u = u * r /\ s * u = u * a + u * b
  BY <1>1
<1> QED
  BY <1>1, <1>2, <1>3, <1>4

AddsUp(u, v, a, b, c, A, B, C) ==
    Residue(c) = Residue(u * a + v * b) /\ Residue(C) = Residue(u * A + v * B) =>
        Residue(Residue(c + C)) = Residue(u * Residue(a + A) + v * Residue(b + B))

LEMMA LinearStep ==
  ASSUME NEW u \in Int, NEW v \in Int, NEW a \in Int, NEW b \in Int, NEW c \in Int,
         NEW A \in Int, NEW B \in Int, NEW C \in Int
  PROVE  AddsUp(u, v, a, b, c, A, B, C)
<1> SUFFICES ASSUME Residue(c) = Residue(u * a + v * b), Residue(C) = Residue(u * A + v * B)
             PROVE  Residue(Residue(c + C)) = Residue(u * Residue(a + A) + v * Residue(b + B))
  BY DEF AddsUp
<1>1. PICK p \in Int : p = u * a + v * b
  OBVIOUS
<1>2. PICK q \in Int : q = u * A + v * B
  OBVIOUS
<1>3. PICK mu \in Int : mu = u * Residue(a + A) /\ Residue(mu) = Residue(u * a + u * A)
  BY ScaledSum
<1>4. PICK nv \in Int : nv = v * Residue(b + B) /\ Residue(nv) = Residue(v * b + v * B)
  BY ScaledSum
<1>5. PICK su \in Int : su = u * a + u * A
  OBVIOUS
<1>6. PICK tv \in Int : tv = v * b + v * B
  OBVIOUS
<1>13. Residue(mu + nv) = Residue(su + tv)
  <2>1. Residue(mu) = Residue(su) /\ Residue(nv) = Residue(tv)
    BY <1>3, <1>4, <1>5, <1>6
  <2> QED
    BY <2>1, ReplaceBoth
<1>14. Residue(c + C) = Residue(p + q)
  <2>1. Residue(c) = Residue(p) /\ Residue(C) = Residue(q)
    BY <1>1, <1>2
  <2> QED
    BY <2>1, ReplaceBoth
<1>15. p + q = su + tv
  BY <1>1, <1>2, <1>5, <1>6
<1>16. PICK e \in Int : e = c + C
  OBVIOUS
<1>17. Residue(Residue(e)) = Residue(e)
  BY ResidueTwice
<1> QED
  BY <1>3, <1>4, <1>13, <1>14, <1>15, <1>16, <1>17

AddUp(S, f, g, h, u, v) ==
    (/\ IsFiniteSet(S)
     /\ \A x \in S : f[x] \in Int /\ g[x] \in Int /\ h[x] \in Int
     /\ \A x \in S : Residue(h[x]) = Residue(u * f[x] + v * g[x]))
    => Residue(SumModulo(h, S)) = Residue(u * SumModulo(f, S) + v * SumModulo(g, S))

LEMMA SumLinear ==
  ASSUME NEW S, NEW f, NEW g, NEW h, NEW u \in Int, NEW v \in Int
  PROVE  AddUp(S, f, g, h, u, v)
<1> SUFFICES ASSUME IsFiniteSet(S), \A x \in S : f[x] \in Int /\ g[x] \in Int /\ h[x] \in Int,
                    \A x \in S : Residue(h[x]) = Residue(u * f[x] + v * g[x])
             PROVE  Residue(SumModulo(h, S)) = Residue(u * SumModulo(f, S) + v * SumModulo(g, S))
  BY DEF AddUp
<1> DEFINE Bad == {t \in SUBSET S : Residue(SumModulo(h, t)) # Residue(u * SumModulo(f, t) + v * SumModulo(g, t))}
<1>1. SUFFICES ASSUME Bad # {} PROVE FALSE
  OBVIOUS
<1>2. PICK T \in Bad : IsFiniteSet(T) /\ T \subseteq S /\ \A U \in SUBSET T : U # T => U \notin Bad
  <2>1. Bad \subseteq SUBSET S
    OBVIOUS
  <2> HIDE DEF Bad
  <2> QED
    BY <1>1, <2>1, SmallestSet
<1>3. Residue(SumModulo(h, T)) # Residue(u * SumModulo(f, T) + v * SumModulo(g, T))
  BY <1>2
<1>4. T # {}
  <2> SUFFICES ASSUME T = {} PROVE FALSE
    OBVIOUS
  <2>1. SumModulo(h, T) = 0 /\ SumModulo(f, T) = 0 /\ SumModulo(g, T) = 0
    BY SumOfNone
  <2>2. u * 0 + v * 0 = 0
    OBVIOUS
  <2> HIDE DEF Bad
  <2> QED
    BY <1>3, <2>1, <2>2
<1>5. PICK y \in T : TRUE
  BY <1>4
<1>6. PICK U : U = T \ {y}
  OBVIOUS
<1>7. U \in SUBSET T /\ U # T /\ U \in SUBSET S /\ y \in S
  BY <1>2, <1>5, <1>6
<1>8. Residue(SumModulo(h, U)) = Residue(u * SumModulo(f, U) + v * SumModulo(g, U))
  BY <1>2, <1>7
<1> HIDE DEF Bad
<1>9. /\ \A x \in T : f[x] \in Int
      /\ \A x \in T : g[x] \in Int
      /\ \A x \in T : h[x] \in Int
  BY <1>2
<1>10. /\ SumModulo(f, T) = Residue(f[y] + SumModulo(f, U)) /\ SumModulo(f, U) \in Int
       /\ SumModulo(g, T) = Residue(g[y] + SumModulo(g, U)) /\ SumModulo(g, U) \in Int
       /\ SumModulo(h, T) = Residue(h[y] + SumModulo(h, U)) /\ SumModulo(h, U) \in Int
  BY <1>2, <1>6, <1>9, SumTakes
<1>11. PICK a \in Int : a = f[y]
  BY <1>9
<1>12. PICK b \in Int : b = g[y]
  BY <1>9
<1>13. PICK c \in Int : c = h[y]
  BY <1>9
<1>14. PICK A \in Int : A = SumModulo(f, U)
  BY <1>10
<1>15. PICK B \in Int : B = SumModulo(g, U)
  BY <1>10
<1>16. PICK C \in Int : C = SumModulo(h, U)
  BY <1>10
<1>17. Residue(c) = Residue(u * a + v * b)
  BY <1>7, <1>11, <1>12, <1>13
<1>18. Residue(C) = Residue(u * A + v * B)
  BY <1>8, <1>14, <1>15, <1>16
<1>19. Residue(Residue(c + C)) = Residue(u * Residue(a + A) + v * Residue(b + B))
  <2>1. AddsUp(u, v, a, b, c, A, B, C)
    BY LinearStep
  <2> QED
    BY <1>17, <1>18, <2>1 DEF AddsUp
<1> QED
  BY <1>3, <1>10, <1>11, <1>12, <1>13, <1>14, <1>15, <1>16, <1>19

Points(S) == IsFiniteSet(S) /\ S \subseteq 1..(Prime - 1)
Negatives(T) == [j \in T |-> -j]
Distances(i, T) == [j \in T |-> i - j]
Numerator(i, S) == ProductModulo(Negatives(S \ {i}), S \ {i})
Denominator(i, S) == ProductModulo(Distances(i, S \ {i}), S \ {i})
WeightOf(i, S) == Numerator(i, S) * Reciprocal(Denominator(i, S))
Weighted(h, S) == [i \in S |-> h[i] * WeightOf(i, S)]
Interpolated(h, S) == SumModulo(Weighted(h, S), S)

LEMMA PointsApart ==
  ASSUME NEW i \in 1..(Prime - 1), NEW j \in 1..(Prime - 1), i # j
  PROVE  Residue(i - j) # 0
<1>1. i \in Int /\ j \in Int /\ i \in 0..(Prime - 1) /\ j \in 0..(Prime - 1)
  BY PrimeIs
<1>2. Residue(i) = i /\ Residue(j) = j
  BY <1>1, ResidueOfSmall
<1> QED
  BY <1>1, <1>2, Difference

LEMMA WeightTypes ==
  ASSUME NEW S, Points(S), NEW i \in S
  PROVE  /\ Numerator(i, S) \in Int /\ Denominator(i, S) \in 1..(Prime - 1)
         /\ Reciprocal(Denominator(i, S)) \in 1..(Prime - 1)
         /\ Residue(Reciprocal(Denominator(i, S)) * Denominator(i, S)) = 1
         /\ WeightOf(i, S) \in Int
<1>1. PICK T : T = S \ {i} /\ IsFiniteSet(T) /\ T \subseteq 1..(Prime - 1) /\ i \notin T
  <2>1. IsFiniteSet(S \ {i})
    BY FS_RemoveElement DEF Points
  <2> QED
    BY <2>1 DEF Points
<1>2. i \in 1..(Prime - 1) /\ Prime \in Nat
  BY PrimeIs DEF Points
<1>3. \A j \in T : Negatives(T)[j] \in Int
  BY <1>1, <1>2 DEF Negatives
<1>4. ProductModulo(Negatives(T), T) \in Int
  BY <1>1, <1>3, ProductType
<1>5. \A j \in T : Distances(i, T)[j] \in Int /\ Residue(Distances(i, T)[j]) # 0
  <2>1. ASSUME NEW j \in T PROVE Distances(i, T)[j] \in Int /\ Residue(Distances(i, T)[j]) # 0
    <3>1. j \in 1..(Prime - 1) /\ i # j
      BY <1>1
    <3>2. Distances(i, T)[j] = i - j
      BY DEF Distances
    <3>3. Residue(i - j) # 0
      BY <1>2, <3>1, PointsApart
    <3> QED
      BY <1>2, <3>1, <3>2, <3>3
  <2> QED
    BY <2>1
<1>6. ProductModulo(Distances(i, T), T) \in 1..(Prime - 1)
  BY <1>1, <1>5, ProductNotZero
<1>7. Numerator(i, S) \in Int /\ Denominator(i, S) \in 1..(Prime - 1)
  BY <1>1, <1>4, <1>6 DEF Numerator, Denominator
<1>8. PICK d \in 1..(Prime - 1) : d = Denominator(i, S)
  BY <1>7
<1>9. Reciprocal(d) \in 1..(Prime - 1) /\ Residue(Reciprocal(d) * d) = 1
  BY ReciprocalIs
<1>10. WeightOf(i, S) \in Int
  BY <1>7, <1>8, <1>9 DEF WeightOf
<1> QED
  BY <1>7, <1>8, <1>9, <1>10

(* Without the point a, the product is the one with it but for the factor.   *)
LEMMA NumeratorStep ==
  ASSUME NEW S, Points(S), NEW i \in S, NEW a \in S, a # i
  PROVE  Numerator(i, S) = Residue((-a) * Numerator(i, S \ {a}))
<1>1. PICK T : T = S \ {i} /\ IsFiniteSet(T) /\ T \subseteq 1..(Prime - 1) /\ a \in T
  <2>1. IsFiniteSet(S \ {i})
    BY FS_RemoveElement DEF Points
  <2> QED
    BY <2>1 DEF Points
<1>2. PICK U : U = T \ {a} /\ IsFiniteSet(U) /\ U = (S \ {a}) \ {i}
  <2>1. IsFiniteSet(T \ {a})
    BY <1>1, FS_RemoveElement
  <2> QED
    BY <1>1, <2>1
<1>3. \A j \in T : Negatives(T)[j] \in Int
  BY <1>1 DEF Negatives
<1>4. \A j \in U : Negatives(T)[j] = Negatives(U)[j]
  BY <1>2 DEF Negatives
<1>5. PICK f : f = Negatives(T)
  OBVIOUS
<1>6. PICK g : g = Negatives(U)
  OBVIOUS
<1>7. ProductModulo(f, T) = Residue(f[a] * ProductModulo(f, U))
  <2>1. \A j \in T : f[j] \in Int
    BY <1>3, <1>5
  <2>2. ProductModulo(f, T) = Residue(f[a] * ProductModulo(f, T \ {a}))
    BY <1>1, <2>1, ProductTakes
  <2> QED
    BY <1>2, <2>2
<1>8. ProductModulo(f, U) = ProductModulo(g, U)
  BY <1>2, <1>4, <1>5, <1>6, ProductSame
<1>9. f[a] = -a
  BY <1>1, <1>5 DEF Negatives
<1> QED
  BY <1>1, <1>2, <1>5, <1>6, <1>7, <1>8, <1>9 DEF Numerator

LEMMA DenominatorStep ==
  ASSUME NEW S, Points(S), NEW i \in S, NEW a \in S, a # i
  PROVE  Denominator(i, S) = Residue((i - a) * Denominator(i, S \ {a}))
<1>1. PICK T : T = S \ {i} /\ IsFiniteSet(T) /\ T \subseteq 1..(Prime - 1) /\ a \in T
  <2>1. IsFiniteSet(S \ {i})
    BY FS_RemoveElement DEF Points
  <2> QED
    BY <2>1 DEF Points
<1>2. PICK U : U = T \ {a} /\ IsFiniteSet(U) /\ U = (S \ {a}) \ {i}
  <2>1. IsFiniteSet(T \ {a})
    BY <1>1, FS_RemoveElement
  <2> QED
    BY <1>1, <2>1
<1>3. \A j \in T : Distances(i, T)[j] \in Int
  <2>1. i \in Int
    BY DEF Points
  <2> QED
    BY <1>1, <2>1 DEF Distances
<1>4. \A j \in U : Distances(i, T)[j] = Distances(i, U)[j]
  BY <1>2 DEF Distances
<1>5. PICK f : f = Distances(i, T)
  OBVIOUS
<1>6. PICK g : g = Distances(i, U)
  OBVIOUS
<1>7. ProductModulo(f, T) = Residue(f[a] * ProductModulo(f, U))
  <2>1. \A j \in T : f[j] \in Int
    BY <1>3, <1>5
  <2>2. ProductModulo(f, T) = Residue(f[a] * ProductModulo(f, T \ {a}))
    BY <1>1, <2>1, ProductTakes
  <2> QED
    BY <1>2, <2>2
<1>8. ProductModulo(f, U) = ProductModulo(g, U)
  BY <1>2, <1>4, <1>5, <1>6, ProductSame
<1>9. f[a] = i - a
  BY <1>1, <1>5 DEF Distances
<1> QED
  BY <1>1, <1>2, <1>5, <1>6, <1>7, <1>8, <1>9 DEF Denominator

Swaps(x, z, y) == Residue(x) = Residue(z) => Residue(x * y) = Residue(z * y)

LEMMA Swapping ==
  ASSUME NEW x \in Int, NEW z \in Int, NEW y \in Int
  PROVE  Swaps(x, z, y)
  BY Replace DEF Swaps

(* n/(c*d) times d is n/c. *)
Reduces(n, c, d, r, s, w) ==
    Residue(r * Residue(d * c)) = 1 /\ Residue(s * c) = 1 =>
        Residue((Residue(w * n) * r) * d) = Residue((n * s) * w)

LEMMA Reduction ==
  ASSUME NEW n \in Int, NEW c \in Int, NEW d \in Int, NEW r \in Int, NEW s \in Int, NEW w \in Int
  PROVE  Reduces(n, c, d, r, s, w)
<1> SUFFICES ASSUME Residue(r * Residue(d * c)) = 1, Residue(s * c) = 1
             PROVE  Residue((Residue(w * n) * r) * d) = Residue((n * s) * w)
  BY DEF Reduces
<1>1. PICK e \in Int : e = d * c
  OBVIOUS
<1>2. Residue(Residue(e) * r) = Residue(e * r)
  BY ResidueProduct
<1>3. PICK er \in Int : er = e * r /\ Residue(er) = 1
  <2>1. Residue(e) \in Int
    BY ResidueIs
  <2>2. r * Residue(e) = Residue(e) * r
    BY <2>1
  <2> QED
    BY <1>1, <1>2, <2>2
<1>4. PICK sc \in Int : sc = s * c /\ Residue(sc) = 1
  OBVIOUS
<1>5. Residue(1) = 1
  BY PrimeIs, ResidueOfSmall
<1>6. PICK rd \in Int : rd = r * d
  OBVIOUS
<1>7. Residue(er * s) = Residue(1 * s)
  <2>1. Swaps(er, 1, s)
    BY Swapping
  <2> QED
    BY <1>3, <1>5, <2>1 DEF Swaps
<1>8. Residue(sc * rd) = Residue(1 * rd)
  <2>1. Swaps(sc, 1, rd)
    BY Swapping
  <2> QED
    BY <1>4, <1>5, <2>1 DEF Swaps
<1>9. er * s = sc * rd
  BY <1>1, <1>3, <1>4, <1>6
<1>10. Residue(s) = Residue(rd)
  BY <1>7, <1>8, <1>9
<1>11. PICK wn \in Int : wn = w * n
  OBVIOUS
<1>12. Residue(Residue(wn) * rd) = Residue(wn * rd)
  BY ResidueProduct
<1>13. Residue(rd * wn) = Residue(s * wn)
  <2>1. Swaps(rd, s, wn)
    BY Swapping
  <2> QED
    BY <1>10, <2>1 DEF Swaps
<1>14. rd * wn = wn * rd /\ s * wn = (n * s) * w
  BY <1>11
<1>15. PICK m \in Int : m = Residue(wn)
  BY ResidueIs
<1>16. (m * r) * d = m * rd
  BY <1>6
<1> QED
  BY <1>11, <1>12, <1>13, <1>14, <1>15, <1>16

LEMMA WeightStep ==
  ASSUME NEW S, Points(S), NEW i \in S, NEW a \in S, a # i
  PROVE  Residue(WeightOf(i, S) * (i - a)) = Residue(WeightOf(i, S \ {a}) * (-a))
<1>1. PICK T : T = S \ {a} /\ Points(T) /\ i \in T
  <2>1. IsFiniteSet(S \ {a})
    BY FS_RemoveElement DEF Points
  <2> QED
    BY <2>1 DEF Points
<1>2. PICK d \in Int : d = i - a
  BY DEF Points
<1>3. PICK w \in Int : w = -a
  BY DEF Points
<1>4. PICK n \in Int : n = Numerator(i, T)
  BY <1>1, WeightTypes
<1>5. PICK c \in Int : c = Denominator(i, T)
  BY <1>1, WeightTypes
<1>6. PICK s \in Int : s = Reciprocal(Denominator(i, T))
  BY <1>1, WeightTypes
<1>7. PICK r \in Int : r = Reciprocal(Denominator(i, S))
  BY WeightTypes
<1>8. Residue(s * c) = 1
  BY <1>1, <1>5, <1>6, WeightTypes
<1>9. Denominator(i, S) = Residue(d * c)
  BY <1>1, <1>2, <1>5, DenominatorStep
<1>10. Residue(r * Residue(d * c)) = 1
  BY <1>7, <1>9, WeightTypes
<1>11. Numerator(i, S) = Residue(w * n)
  BY <1>1, <1>3, <1>4, NumeratorStep
<1>12. Reduces(n, c, d, r, s, w)
  BY Reduction
<1>13. Residue((Residue(w * n) * r) * d) = Residue((n * s) * w)
  BY <1>8, <1>10, <1>12 DEF Reduces
<1>14. WeightOf(i, S) = Residue(w * n) * r
  BY <1>7, <1>11 DEF WeightOf
<1>15. WeightOf(i, T) = n * s
  BY <1>4, <1>6 DEF WeightOf
<1> QED
  BY <1>1, <1>2, <1>3, <1>13, <1>14, <1>15

LEMMA InterpolatedType ==
  ASSUME NEW S, Points(S), NEW h \in [Nat -> Int]
  PROVE  /\ \A i \in S : Weighted(h, S)[i] = h[i] * WeightOf(i, S) /\ Weighted(h, S)[i] \in Int
         /\ Interpolated(h, S) \in 0..(Prime - 1) /\ Interpolated(h, S) \in Int
<1>1. ASSUME NEW i \in S
      PROVE  Weighted(h, S)[i] = h[i] * WeightOf(i, S) /\ Weighted(h, S)[i] \in Int
  <2>1. WeightOf(i, S) \in Int
    BY WeightTypes
  <2>2. h[i] \in Int
    BY PrimeIs DEF Points
  <2>3. Weighted(h, S)[i] = h[i] * WeightOf(i, S)
    BY DEF Weighted
  <2> QED
    BY <2>1, <2>2, <2>3
<1>2. PICK f : f = Weighted(h, S)
  OBVIOUS
<1>3. \A i \in S : f[i] \in Int
  BY <1>1, <1>2
<1>4. SumModulo(f, S) \in 0..(Prime - 1) /\ SumModulo(f, S) \in Int
  BY <1>3, SumType DEF Points
<1> QED
  BY <1>1, <1>2, <1>4 DEF Interpolated

Multiplied(h) == [x \in Nat |-> h[x] * x]

Shifts(x, z, y) == Residue(x) = Residue(z) => Residue(x + y) = Residue(z + y)

LEMMA Shifting ==
  ASSUME NEW x \in Int, NEW z \in Int, NEW y \in Int
  PROVE  Shifts(x, z, y)
  BY Replace DEF Shifts

Splits(x, i, a, w, v) ==
    Residue(w * (i - a)) = Residue(v * (-a)) =>
        Residue((x * i) * w) = Residue(a * (x * w) + (-a) * (x * v))

LEMMA Splitting ==
  ASSUME NEW x \in Int, NEW i \in Int, NEW a \in Int, NEW w \in Int, NEW v \in Int
  PROVE  Splits(x, i, a, w, v)
<1> SUFFICES ASSUME Residue(w * (i - a)) = Residue(v * (-a))
             PROVE  Residue((x * i) * w) = Residue(a * (x * w) + (-a) * (x * v))
  BY DEF Splits
<1>1. PICK p \in Int : p = w * (i - a)
  OBVIOUS
<1>2. PICK q \in Int : q = v * (-a)
  OBVIOUS
<1>3. Residue(p * x) = Residue(q * x)
  <2>1. Swaps(p, q, x)
    BY Swapping
  <2> QED
    BY <1>1, <1>2, <2>1 DEF Swaps
<1>4. PICK px \in Int : px = p * x
  OBVIOUS
<1>5. PICK qx \in Int : qx = q * x
  OBVIOUS
<1>6. PICK y \in Int : y = a * (x * w)
  OBVIOUS
<1>7. Residue(px + y) = Residue(qx + y)
  <2>1. Residue(px) = Residue(qx)
    BY <1>3, <1>4, <1>5
  <2>2. Shifts(px, qx, y)
    BY Shifting
  <2> QED
    BY <2>1, <2>2 DEF Shifts
<1>8. px + y = (x * i) * w
  BY <1>1, <1>4, <1>6
<1>9. qx + y = a * (x * w) + (-a) * (x * v)
  BY <1>2, <1>5, <1>6
<1> QED
  BY <1>7, <1>8, <1>9

(* What x times h interpolates to, by what h does with and without a.        *)
LEMMA MultipliedSum ==
  ASSUME NEW S, Points(S), NEW a \in S, NEW h \in [Nat -> Int]
  PROVE  Residue(Interpolated(Multiplied(h), S))
             = Residue(a * Interpolated(h, S) + (-a) * Interpolated(h, S \ {a}))
<1>1. PICK T : T = S \ {a} /\ Points(T)
  <2>1. IsFiniteSet(S \ {a})
    BY FS_RemoveElement DEF Points
  <2> QED
    BY <2>1 DEF Points
<1>2. \A i \in S : i \in Nat /\ i \in Int
  BY PrimeIs DEF Points
<1>3. PICK hx \in [Nat -> Int] : hx = Multiplied(h)
  <2>1. \A x \in Nat : h[x] * x \in Int
    OBVIOUS
  <2>2. Multiplied(h) \in [Nat -> Int]
    BY <2>1 DEF Multiplied
  <2> QED
    BY <2>2
<1>4. PICK f : f = Weighted(h, S)
  OBVIOUS
<1>5. PICK c : c = Weighted(hx, S)
  OBVIOUS
<1>6. PICK b : b = Weighted(h, T)
  OBVIOUS
<1>7. PICK g : g = [i \in S |-> IF i = a THEN 0 ELSE b[i]]
  OBVIOUS
<1>8. /\ \A i \in S : f[i] = h[i] * WeightOf(i, S) /\ f[i] \in Int
      /\ Interpolated(h, S) = SumModulo(f, S) /\ SumModulo(f, S) \in Int
  BY <1>4, InterpolatedType DEF Interpolated
<1>9. /\ \A i \in S : c[i] = hx[i] * WeightOf(i, S) /\ c[i] \in Int
      /\ Interpolated(hx, S) = SumModulo(c, S)
  BY <1>5, InterpolatedType DEF Interpolated
<1>10. /\ \A i \in T : b[i] = h[i] * WeightOf(i, T) /\ b[i] \in Int
       /\ Interpolated(h, T) = SumModulo(b, T) /\ SumModulo(b, T) \in Int
  BY <1>1, <1>6, InterpolatedType DEF Interpolated
<1>11. \A i \in S : g[i] \in Int
  BY <1>1, <1>7, <1>10
<1>12. SumModulo(g, S) = SumModulo(b, T)
  <2>1. SumModulo(g, S) = Residue(g[a] + SumModulo(g, S \ {a})) /\ SumModulo(g, S \ {a}) \in Int
    BY <1>11, SumTakes DEF Points
  <2>2. g[a] = 0
    BY <1>7
  <2>3. \A i \in T : g[i] = b[i]
    BY <1>1, <1>7
  <2>4. SumModulo(g, T) = SumModulo(b, T)
    BY <1>1, <2>3, SumSame DEF Points
  <2>5. SumModulo(b, T) \in 0..(Prime - 1)
    BY <1>1, <1>6, InterpolatedType DEF Interpolated
  <2>6. PICK t \in 0..(Prime - 1) : t = SumModulo(b, T)
    BY <2>5
  <2>7. 0 + t = t /\ Residue(t) = t
    BY ResidueOfSmall
  <2> QED
    BY <1>1, <2>1, <2>2, <2>4, <2>6, <2>7
<1>13. ASSUME NEW i \in S PROVE Residue(c[i]) = Residue(a * f[i] + (-a) * g[i])
  <2>1. PICK x \in Int : x = h[i]
    BY <1>2
  <2>2. PICK w \in Int : w = WeightOf(i, S)
    BY WeightTypes
  <2>3. PICK n \in Int : n = i
    BY <1>2
  <2>4. PICK e \in Int : e = a
    BY <1>2
  <2>5. f[i] = x * w
    BY <1>8, <2>1, <2>2
  <2>6. c[i] = (x * n) * w
    <3>1. hx[i] = h[i] * i
      BY <1>2, <1>3 DEF Multiplied
    <3> QED
      BY <1>9, <2>1, <2>2, <2>3, <3>1
  <2>7. CASE i = a
    <3>1. g[i] = 0
      BY <1>7, <2>7
    <3>2. (x * n) * w = e * (x * w) + (-e) * 0
      BY <2>3, <2>4, <2>7
    <3> QED
      BY <2>4, <2>5, <2>6, <3>1, <3>2
  <2>8. CASE i # a
    <3>1. i \in T
      BY <1>1, <2>8
    <3>2. PICK v \in Int : v = WeightOf(i, T)
      BY <1>1, <3>1, WeightTypes
    <3>3. g[i] = x * v
      BY <1>7, <1>10, <2>1, <2>8, <3>1, <3>2
    <3>4. Residue(w * (n - e)) = Residue(v * (-e))
      BY <1>1, <2>2, <2>3, <2>4, <2>8, <3>2, WeightStep
    <3>5. Splits(x, n, e, w, v)
      BY Splitting
    <3>6. Residue((x * n) * w) = Residue(e * (x * w) + (-e) * (x * v))
      BY <3>4, <3>5 DEF Splits
    <3> QED
      BY <2>4, <2>5, <2>6, <3>3, <3>6
  <2> QED
    BY <2>7, <2>8
<1>14. Residue(SumModulo(c, S)) = Residue(a * SumModulo(f, S) + (-a) * SumModulo(g, S))
  <2>1. PICK u \in Int : u = a
    BY <1>2
  <2>2. PICK v \in Int : v = -a
    BY <1>2
  <2>3. \A i \in S : f[i] \in Int /\ g[i] \in Int /\ c[i] \in Int
    BY <1>8, <1>9, <1>11
  <2>4. \A i \in S : Residue(c[i]) = Residue(u * f[i] + v * g[i])
    BY <1>13, <2>1, <2>2
  <2>5. IsFiniteSet(S)
    BY DEF Points
  <2>6. Residue(SumModulo(c, S)) = Residue(u * SumModulo(f, S) + v * SumModulo(g, S))
    <3>1. AddUp(S, f, g, c, u, v)
      BY SumLinear
    <3> QED
      BY <2>3, <2>4, <2>5, <3>1 DEF AddUp
  <2> QED
    BY <2>1, <2>2, <2>6
<1> QED
  BY <1>1, <1>3, <1>8, <1>9, <1>10, <1>12, <1>14

One == [x \in Nat |-> 1]

LEMMA OneAtOnePoint ==
  ASSUME NEW a \in 1..(Prime - 1)
  PROVE  Residue(Interpolated(One, {a})) = 1
<1>1. Points({a}) /\ One \in [Nat -> Int] /\ a \in Nat
  <2>1. IsFiniteSet({a})
    BY FS_Singleton
  <2>2. Points({a})
    BY <2>1 DEF Points
  <2> QED
    BY <2>2 DEF One
<1>2. {a} \ {a} = {}
  OBVIOUS
<1>3. Numerator(a, {a}) = 1 /\ Denominator(a, {a}) = 1
  BY <1>2, ProductOfNone DEF Numerator, Denominator
<1>4. 1 \in 1..(Prime - 1) /\ 1 \in 0..(Prime - 1) /\ Prime \in Nat
  BY PrimeIs
<1>5. PICK r \in 1..(Prime - 1) : r = Reciprocal(1) /\ Residue(r * 1) = 1
  BY <1>4, ReciprocalIs
<1>6. r * 1 = r /\ r \in 0..(Prime - 1) /\ 1 * r = r
  BY <1>4
<1>7. r = 1
  BY <1>5, <1>6, ResidueOfSmall
<1>8. WeightOf(a, {a}) = 1
  BY <1>3, <1>5, <1>6, <1>7 DEF WeightOf
<1>9. PICK f : f = Weighted(One, {a})
  OBVIOUS
<1>10. f[a] = 1 /\ \A x \in {a} : f[x] \in Int
  <2>1. f[a] = One[a] * 1 /\ One[a] = 1
    BY <1>1, <1>8, <1>9 DEF Weighted, One
  <2> QED
    BY <2>1
<1>11. SumModulo(f, {a}) = Residue(f[a] + SumModulo(f, {a} \ {a}))
  BY <1>10, FS_Singleton, SumTakes
<1>12. SumModulo(f, {a}) = Residue(1 + 0)
  BY <1>2, <1>10, <1>11, SumOfNone
<1>13. Residue(1) = 1
  BY <1>4, ResidueOfSmall
<1> QED
  BY <1>9, <1>12, <1>13 DEF Interpolated

Cancels(a, b, x, c) ==
    Residue(a - b) # 0 /\ Residue(c) = Residue(a * x + (-a) * 1) /\ Residue(c) = Residue(b * x + (-b) * 1) =>
        Residue(x) = 1

LEMMA Cancelling ==
  ASSUME NEW a \in Int, NEW b \in Int, NEW x \in Int, NEW c \in Int
  PROVE  Cancels(a, b, x, c)
<1> SUFFICES ASSUME Residue(a - b) # 0, Residue(c) = Residue(a * x + (-a) * 1),
                    Residue(c) = Residue(b * x + (-b) * 1)
             PROVE  Residue(x) = 1
  BY DEF Cancels
<1>1. PICK p \in Int : p = a * x + (-a) * 1
  OBVIOUS
<1>2. PICK q \in Int : q = b * x + (-b) * 1
  OBVIOUS
<1>3. PICK d \in Int : d = a - b
  OBVIOUS
<1>4. PICK y \in Int : y = x - 1
  OBVIOUS
<1>5. Residue(p - q) = 0
  BY <1>1, <1>2, Difference
<1>6. p - q = d * y
  BY <1>1, <1>2, <1>3, <1>4
<1>7. Residue(y) = 0
  BY <1>3, <1>5, <1>6, NoDivisorsOfZero
<1>8. Residue(x) = Residue(1)
  BY <1>4, <1>7, Difference
<1> QED
  BY <1>8, PrimeIs, ResidueOfSmall

(* The weights add up to 1.                                                  *)
LEMMA Ones ==
  ASSUME NEW S, Points(S), S # {}
  PROVE  Residue(Interpolated(One, S)) = 1
<1> DEFINE Bad == {t \in SUBSET S : t # {} /\ Residue(Interpolated(One, t)) # 1}
<1>1. SUFFICES ASSUME Bad # {} PROVE FALSE
  OBVIOUS
<1>2. PICK T \in Bad : IsFiniteSet(T) /\ T \subseteq S /\ \A U \in SUBSET T : U # T => U \notin Bad
  <2>1. Bad \subseteq SUBSET S
    OBVIOUS
  <2>2. IsFiniteSet(S)
    BY DEF Points
  <2> HIDE DEF Bad
  <2> QED
    BY <1>1, <2>1, <2>2, SmallestSet
<1>3. T # {} /\ Residue(Interpolated(One, T)) # 1
  BY <1>2
<1>4. Points(T) /\ One \in [Nat -> Int]
  BY <1>2 DEF Points, One
<1>5. PICK a \in T : TRUE
  BY <1>3
<1>6. a \in 1..(Prime - 1)
  BY <1>4 DEF Points
<1>7. PICK b \in T : b # a
  <2> SUFFICES ASSUME \A b \in T : b = a PROVE FALSE
    OBVIOUS
  <2>1. T = {a}
    BY <1>5
  <2> HIDE DEF Bad
  <2> QED
    BY <1>3, <1>6, <2>1, OneAtOnePoint
<1>8. b \in 1..(Prime - 1)
  BY <1>4 DEF Points
<1>9. ASSUME NEW e \in T, NEW o \in T, o # e
      PROVE  Residue(Interpolated(One, T \ {e})) = 1 /\ Interpolated(One, T \ {e}) = 1
  <2>0. o \in T \ {e} /\ e \notin T \ {e}
    BY <1>9
  <2>1. PICK U : U = T \ {e} /\ U \in SUBSET T /\ U # T /\ U # {} /\ U \in SUBSET S
    <3>1. T \ {e} \in SUBSET T /\ T \ {e} # T /\ T \ {e} # {} /\ T \ {e} \in SUBSET S
      BY <1>2, <2>0
    <3> QED
      BY <3>1
  <2>2. Residue(Interpolated(One, U)) = 1
    BY <1>2, <2>1
  <2>3. IsFiniteSet(U) /\ Points(U)
    BY <1>2, <1>4, <2>1, FS_Subset DEF Points
  <2>4. Interpolated(One, U) \in 0..(Prime - 1)
    BY <1>4, <2>3, InterpolatedType
  <2> HIDE DEF Bad
  <2> QED
    BY <2>1, <2>2, <2>4, ResidueOfSmall
<1> HIDE DEF Bad
<1>10. PICK x \in Int : x = Interpolated(One, T)
  BY <1>4, InterpolatedType
<1>11. PICK c : c = Interpolated(Multiplied(One), T)
  OBVIOUS
<1>12. c \in Int
  <2>1. Multiplied(One) \in [Nat -> Int]
    BY DEF Multiplied, One
  <2> QED
    BY <1>4, <1>11, <2>1, InterpolatedType
<1>13. Residue(c) = Residue(a * x + (-a) * 1)
  BY <1>4, <1>5, <1>7, <1>9, <1>10, <1>11, MultipliedSum
<1>14. Residue(c) = Residue(b * x + (-b) * 1)
  BY <1>4, <1>5, <1>7, <1>9, <1>10, <1>11, MultipliedSum
<1>15. Residue(a - b) # 0
  BY <1>6, <1>7, <1>8, PointsApart
<1>16. Cancels(a, b, x, c)
  BY <1>6, <1>8, <1>12, PrimeIs, Cancelling
<1> QED
  BY <1>3, <1>10, <1>13, <1>14, <1>15, <1>16 DEF Cancels

(* The polynomial at x, from the highest coefficient down.                   *)
Evaluating(y, c, x, n) ==
    y = [i \in 0..n |-> IF i = 0 THEN 0 ELSE (y[i - 1] * x + c[n + 1 - i]) % Prime]
Evaluation(c, x, n) == CHOOSE y : Evaluating(y, c, x, n)

(* As far as m, any m. *)
EvaluatedTo(y, c, x, n, m) ==
    y = [i \in 0..m |-> IF i = 0 THEN 0 ELSE (y[i - 1] * x + c[n + 1 - i]) % Prime]

LEMMA SomeEvaluation ==
  ASSUME NEW c, NEW x, NEW n \in Nat
  PROVE  \E y : Evaluating(y, c, x, n)
<1> DEFINE Bad == {m \in Nat : ~\E y : EvaluatedTo(y, c, x, n, m)}
<1>1. Bad = {}
  <2> SUFFICES ASSUME Bad # {} PROVE FALSE
    OBVIOUS
  <2>1. PICK m \in Bad : \A k \in Bad : m <= k
    <3>1. Bad \subseteq Nat
      OBVIOUS
    <3> HIDE DEF Bad
    <3> QED
      BY <3>1, Smallest
  <2>2. CASE m = 0
    <3> DEFINE y == [i \in 0..0 |-> 0]
    <3>1. y = [i \in 0..0 |-> IF i = 0 THEN 0 ELSE (y[i - 1] * x + c[n + 1 - i]) % Prime]
      OBVIOUS
    <3> HIDE DEF y
    <3>2. EvaluatedTo(y, c, x, n, 0)
      BY <3>1 DEF EvaluatedTo
    <3> QED
      BY <2>1, <2>2, <3>2
  <2>3. CASE m # 0
    <3>1. PICK k \in Nat : m = k + 1
      <4>1. m - 1 \in Nat /\ m = (m - 1) + 1
        BY <2>1, <2>3
      <4> QED
        BY <4>1
    <3>2. k \notin Bad
      BY <2>1, <3>1
    <3>3. PICK z : EvaluatedTo(z, c, x, n, k)
      BY <3>2
    <3> DEFINE y == [i \in 0..m |-> IF i = 0 THEN 0 ELSE (z[i - 1] * x + c[n + 1 - i]) % Prime]
    <3>4. \A i \in 0..k : y[i] = z[i]
      BY <3>1, <3>3 DEF EvaluatedTo
    <3>5. \A i \in 0..m : i # 0 => i - 1 \in 0..k
      BY <3>1
    <3>6. \A i \in 0..m : i # 0 => y[i - 1] = z[i - 1]
      BY <3>4, <3>5
    <3>7. y = [i \in 0..m |-> IF i = 0 THEN 0 ELSE (y[i - 1] * x + c[n + 1 - i]) % Prime]
      BY <3>6
    <3> HIDE DEF y
    <3>8. EvaluatedTo(y, c, x, n, m)
      BY <3>7 DEF EvaluatedTo
    <3> QED
      BY <2>1, <3>8
  <2> QED
    BY <2>2, <2>3
<1>2. PICK y : EvaluatedTo(y, c, x, n, n)
  BY <1>1
<1>3. Evaluating(y, c, x, n)
  BY <1>2 DEF EvaluatedTo, Evaluating
<1> QED
  BY <1>3

LEMMA EvaluationSteps ==
  ASSUME NEW c, NEW x, NEW n \in Nat
  PROVE  /\ Evaluation(c, x, n)[0] = 0
         /\ \A i \in 1..n : Evaluation(c, x, n)[i] = Residue(Evaluation(c, x, n)[i - 1] * x + c[n + 1 - i])
<1>1. PICK y : y = Evaluation(c, x, n) /\ Evaluating(y, c, x, n)
  <2>1. \E y : Evaluating(y, c, x, n)
    BY SomeEvaluation
  <2> QED
    BY <2>1 DEF Evaluation
<1>2. \A i \in 0..n : y[i] = IF i = 0 THEN 0 ELSE (y[i - 1] * x + c[n + 1 - i]) % Prime
  BY <1>1 DEF Evaluating
<1>3. \A i \in 1..n : y[i] = (y[i - 1] * x + c[n + 1 - i]) % Prime
  BY <1>2
<1>4. y[0] = 0
  BY <1>2
<1> QED
  BY <1>1, <1>3, <1>4 DEF Residue

LEMMA EvaluationType ==
  ASSUME NEW n \in Nat, NEW c \in [1..n -> Int], NEW x \in Int
  PROVE  \A i \in 0..n : Evaluation(c, x, n)[i] \in Int
<1> DEFINE Bad == {i \in 0..n : Evaluation(c, x, n)[i] \notin Int}
<1>1. SUFFICES ASSUME Bad # {} PROVE FALSE
  OBVIOUS
<1>2. PICK i \in Bad : \A j \in Bad : i <= j
  <2>1. Bad \subseteq Nat
    OBVIOUS
  <2> HIDE DEF Bad
  <2> QED
    BY <1>1, <2>1, Smallest
<1>3. i # 0
  BY <1>2, EvaluationSteps
<1>4. i \in 1..n /\ i - 1 \in 0..n
  BY <1>2, <1>3
<1>5. i - 1 \notin Bad
  BY <1>2, <1>4
<1>6. Evaluation(c, x, n)[i - 1] \in Int
  BY <1>4, <1>5
<1>7. PICK u \in Int : u = Evaluation(c, x, n)[i - 1] * x + c[n + 1 - i]
  <2>1. c[n + 1 - i] \in Int
    BY <1>4
  <2> QED
    BY <1>6, <2>1
<1>8. Evaluation(c, x, n)[i] = Residue(u)
  BY <1>4, <1>7, EvaluationSteps
<1> QED
  BY <1>2, <1>8, ResidueIs

Polynomial(c, n, i) == [x \in Nat |-> Evaluation(c, x, n)[i]]

LEMMA PolynomialIs ==
  ASSUME NEW n \in Nat, NEW c \in [1..n -> Int], NEW i \in 0..n
  PROVE  Polynomial(c, n, i) \in [Nat -> Int]
<1>1. \A x \in Nat : Evaluation(c, x, n)[i] \in Int
  BY EvaluationType
<1> QED
  BY <1>1 DEF Polynomial

NextTerm(h, x, e, w) ==
    Residue(Residue(h * x + e) * w) = Residue(1 * ((h * x) * w) + e * (1 * w))

LEMMA TermStep ==
  ASSUME NEW h \in Int, NEW x \in Int, NEW e \in Int, NEW w \in Int
  PROVE  NextTerm(h, x, e, w)
<1>1. PICK u \in Int : u = h * x + e
  OBVIOUS
<1>2. Residue(Residue(u) * w) = Residue(u * w)
  BY ResidueProduct
<1>3. u * w = 1 * ((h * x) * w) + e * (1 * w)
  BY <1>1
<1> QED
  BY <1>1, <1>2, <1>3 DEF NextTerm

Constant(c, n, i) == IF i = 0 THEN 0 ELSE c[n + 1 - i]

LEMMA NextCoefficient ==
  ASSUME NEW n \in Nat, NEW c \in [1..n -> Int], NEW j \in Nat, j + 1 \in 1..n,
         NEW S, Points(S), S # {}
  PROVE  Residue(Interpolated(Polynomial(c, n, j + 1), S))
             = Residue(1 * Interpolated(Multiplied(Polynomial(c, n, j)), S) + c[n + 1 - (j + 1)] * Interpolated(One, S))
<1>1. PICK e \in Int : e = c[n + 1 - (j + 1)]
  <2>1. n + 1 - (j + 1) \in 1..n
    OBVIOUS
  <2> QED
    BY <2>1
<1>2. PICK h \in [Nat -> Int] : h = Polynomial(c, n, j)
  BY PolynomialIs
<1>3. PICK k \in [Nat -> Int] : k = Polynomial(c, n, j + 1)
  <2>1. PICK i \in 0..n : i = j + 1
    OBVIOUS
  <2>2. Polynomial(c, n, i) \in [Nat -> Int]
    BY PolynomialIs
  <2> QED
    BY <2>1, <2>2
<1>4. PICK hx \in [Nat -> Int] : hx = Multiplied(h) /\ \A x \in Nat : hx[x] = h[x] * x
  <2>1. \A x \in Nat : h[x] * x \in Int
    OBVIOUS
  <2>2. Multiplied(h) \in [Nat -> Int] /\ \A x \in Nat : Multiplied(h)[x] = h[x] * x
    BY <2>1 DEF Multiplied
  <2> QED
    BY <2>2
<1>5. PICK o \in [Nat -> Int] : o = One /\ \A x \in Nat : o[x] = 1
  <2>1. One \in [Nat -> Int] /\ \A x \in Nat : One[x] = 1
    BY DEF One
  <2> QED
    BY <2>1
<1>6. \A x \in Nat : k[x] = Residue(h[x] * x + e)
  <2>1. ASSUME NEW x \in Nat PROVE k[x] = Residue(h[x] * x + e)
    <3>1. (j + 1) - 1 = j
      OBVIOUS
    <3>2. Evaluation(c, x, n)[j + 1] = Residue(Evaluation(c, x, n)[(j + 1) - 1] * x + c[n + 1 - (j + 1)])
      BY EvaluationSteps
    <3>3. h[x] = Evaluation(c, x, n)[j] /\ k[x] = Evaluation(c, x, n)[j + 1]
      BY <1>2, <1>3 DEF Polynomial
    <3> QED
      BY <1>1, <3>1, <3>2, <3>3
  <2> QED
    BY <2>1
<1>7. PICK f : f = Weighted(hx, S) /\ \A i \in S : f[i] = hx[i] * WeightOf(i, S) /\ f[i] \in Int
  BY InterpolatedType
<1>8. PICK g : g = Weighted(o, S) /\ \A i \in S : g[i] = o[i] * WeightOf(i, S) /\ g[i] \in Int
  BY InterpolatedType
<1>9. PICK l : l = Weighted(k, S) /\ \A i \in S : l[i] = k[i] * WeightOf(i, S) /\ l[i] \in Int
  BY InterpolatedType
<1>10. ASSUME NEW i \in S PROVE Residue(l[i]) = Residue(1 * f[i] + e * g[i])
  <2>1. i \in Nat /\ i \in Int
    BY PrimeIs DEF Points
  <2>2. PICK w \in Int : w = WeightOf(i, S)
    BY WeightTypes
  <2>3. PICK y \in Int : y = h[i]
    BY <2>1
  <2>4. NextTerm(y, i, e, w)
    BY <2>1, TermStep
  <2>5. l[i] = Residue(y * i + e) * w
    BY <1>6, <1>9, <2>1, <2>2, <2>3
  <2>6. f[i] = (y * i) * w
    BY <1>4, <1>7, <2>1, <2>2, <2>3
  <2>7. g[i] = 1 * w
    BY <1>5, <1>8, <2>1, <2>2
  <2> QED
    BY <2>4, <2>5, <2>6, <2>7 DEF NextTerm
<1>11. PICK u \in Int : u = 1
  OBVIOUS
<1>12. \A i \in S : f[i] \in Int /\ g[i] \in Int /\ l[i] \in Int
  BY <1>7, <1>8, <1>9
<1>13. \A i \in S : Residue(l[i]) = Residue(u * f[i] + e * g[i])
  BY <1>10, <1>11
<1>14. IsFiniteSet(S)
  BY DEF Points
<1>15. Residue(SumModulo(l, S)) = Residue(u * SumModulo(f, S) + e * SumModulo(g, S))
  <2>1. AddUp(S, f, g, l, u, e)
    BY SumLinear
  <2> QED
    BY <1>12, <1>13, <1>14, <2>1 DEF AddUp
<1> QED
  BY <1>1, <1>2, <1>3, <1>4, <1>5, <1>7, <1>8, <1>9, <1>11, <1>15 DEF Interpolated

Vanishes(a, x, y, z, t) ==
    Residue(x) = Residue(t) /\ Residue(y) = Residue(t) /\ Residue(z) = Residue(a * x + (-a) * y) =>
        Residue(z) = 0

LEMMA Vanishing ==
  ASSUME NEW a \in Int, NEW x \in Int, NEW y \in Int, NEW z \in Int, NEW t \in Int
  PROVE  Vanishes(a, x, y, z, t)
<1> SUFFICES ASSUME Residue(x) = Residue(t), Residue(y) = Residue(t),
                    Residue(z) = Residue(a * x + (-a) * y)
             PROVE  Residue(z) = 0
  BY DEF Vanishes
<1>1. PICK d \in Int : d = x - y
  OBVIOUS
<1>2. Residue(d) = 0 /\ Residue(0) = 0
  BY <1>1, Difference, PrimeIs, ResidueOfSmall
<1>3. Residue(d * a) = Residue(0 * a)
  <2>1. Swaps(d, 0, a)
    BY Swapping
  <2> QED
    BY <1>2, <2>1 DEF Swaps
<1>4. d * a = a * x + (-a) * y /\ 0 * a = 0
  BY <1>1
<1> QED
  BY <1>2, <1>3, <1>4

LastTerm(z, e, o, k) ==
    Residue(z) = 0 /\ Residue(o) = 1 /\ Residue(k) = Residue(1 * z + e * o) => Residue(k) = Residue(e)

LEMMA LastOne ==
  ASSUME NEW z \in Int, NEW e \in Int, NEW o \in Int, NEW k
  PROVE  LastTerm(z, e, o, k)
<1> SUFFICES ASSUME Residue(z) = 0, Residue(o) = 1, Residue(k) = Residue(1 * z + e * o)
             PROVE  Residue(k) = Residue(e)
  BY DEF LastTerm
<1>1. Residue(0) = 0 /\ Residue(1) = 1
  BY PrimeIs, ResidueOfSmall
<1>2. Residue(o * e) = Residue(1 * e)
  <2>1. Swaps(o, 1, e)
    BY Swapping
  <2> QED
    BY <1>1, <2>1 DEF Swaps
<1>3. PICK oe \in Int : oe = o * e
  OBVIOUS
<1>4. Residue(z + oe) = Residue(0 + oe)
  <2>1. Shifts(z, 0, oe)
    BY Shifting
  <2> QED
    BY <1>1, <2>1 DEF Shifts
<1>5. 1 * z + e * o = z + oe /\ 0 + oe = oe /\ 1 * e = e
  BY <1>3
<1> QED
  BY <1>2, <1>3, <1>4, <1>5

(* Through as many points as there are coefficients, the polynomial at 0.    *)
LEMMA Interpolation ==
  ASSUME NEW n \in Nat, NEW c \in [1..n -> Int]
  PROVE  \A i \in 0..n : \A S : Points(S) /\ Cardinality(S) >= i =>
             Residue(Interpolated(Polynomial(c, n, i), S)) = Residue(Constant(c, n, i))
<1> DEFINE Holds(i) == \A S : Points(S) /\ Cardinality(S) >= i =>
               Residue(Interpolated(Polynomial(c, n, i), S)) = Residue(Constant(c, n, i))
           Bad == {i \in 0..n : ~Holds(i)}
<1>1. SUFFICES ASSUME Bad # {} PROVE FALSE
  OBVIOUS
<1>2. PICK i \in Bad : \A j \in Bad : i <= j
  <2>1. Bad \subseteq Nat
    OBVIOUS
  <2> HIDE DEF Bad
  <2> QED
    BY <1>1, <2>1, Smallest
<1>3. i \in 0..n /\ ~Holds(i) /\ i \in Nat
  BY <1>2
<1>4. PICK S : /\ Points(S) /\ Cardinality(S) >= i
               /\ Residue(Interpolated(Polynomial(c, n, i), S)) # Residue(Constant(c, n, i))
  BY <1>3
<1>5. i # 0
  <2> SUFFICES ASSUME i = 0 PROVE FALSE
    OBVIOUS
  <2>1. PICK h \in [Nat -> Int] : h = Polynomial(c, n, 0)
    BY PolynomialIs
  <2>2. \A x \in Nat : h[x] = 0
    BY <2>1, EvaluationSteps DEF Polynomial
  <2>3. PICK f : f = Weighted(h, S) /\ \A x \in S : f[x] = h[x] * WeightOf(x, S) /\ f[x] \in Int
    BY <1>4, InterpolatedType
  <2>4. \A x \in S : f[x] = 0 * f[x] + 0 * f[x]
    <3>1. ASSUME NEW x \in S PROVE f[x] = 0 * f[x] + 0 * f[x]
      <4>0. x \in Nat
        BY <1>4, PrimeIs DEF Points
      <4>1. x \in Nat /\ WeightOf(x, S) \in Int
        BY <1>4, <4>0, WeightTypes
      <4>2. f[x] = 0 * WeightOf(x, S)
        BY <2>2, <2>3, <4>1
      <4> QED
        BY <4>1, <4>2
    <3> QED
      BY <3>1
  <2>5. PICK u \in Int : u = 0
    OBVIOUS
  <2>6. \A x \in S : f[x] \in Int /\ Residue(f[x]) = Residue(u * f[x] + u * f[x])
    BY <2>3, <2>4, <2>5
  <2>7. Residue(SumModulo(f, S)) = Residue(u * SumModulo(f, S) + u * SumModulo(f, S))
    <3>1. AddUp(S, f, f, f, u, u)
      BY SumLinear
    <3> QED
      BY <1>4, <2>6, <3>1 DEF Points, AddUp
  <2>8. PICK s \in Int : s = SumModulo(f, S)
    BY <1>4, <2>3, SumType DEF Points
  <2>9. u * s + u * s = 0
    BY <2>5
  <2>10. Residue(Interpolated(Polynomial(c, n, 0), S)) = Residue(0)
    BY <2>1, <2>3, <2>7, <2>8, <2>9 DEF Interpolated
  <2> QED
    BY <1>4, <2>10 DEF Constant
<1>6. PICK j \in Nat : i = j + 1 /\ j \in 0..n
  <2>1. i - 1 \in Nat /\ i = (i - 1) + 1 /\ i - 1 \in 0..n
    BY <1>3, <1>5
  <2> QED
    BY <2>1
<1>7. Holds(j)
  <2>1. j \notin Bad
    BY <1>2, <1>6
  <2> QED
    BY <1>6, <2>1
<1>8. IsFiniteSet(S) /\ Cardinality(S) \in Nat
  BY <1>4, FS_CardinalityType DEF Points
<1>9. PICK a \in S : TRUE
  <2>1. S # {}
    <3> SUFFICES ASSUME S = {} PROVE FALSE
      OBVIOUS
    <3>1. Cardinality(S) = 0
      BY FS_EmptySet
    <3> HIDE DEF Bad, Holds
    <3> QED
      BY <1>4, <1>6, <3>1
  <2> QED
    BY <2>1
<1>10. PICK T : T = S \ {a} /\ Points(T) /\ Cardinality(T) >= j
  <2>1. IsFiniteSet(S \ {a}) /\ Cardinality(S \ {a}) = Cardinality(S) - 1
    BY <1>8, <1>9, FS_RemoveElement
  <2>2. Points(S \ {a})
    BY <1>4, <2>1 DEF Points
  <2>3. Cardinality(S \ {a}) >= j
    BY <1>4, <1>6, <1>8, <2>1
  <2> QED
    BY <2>2, <2>3
<1>11. PICK h \in [Nat -> Int] : h = Polynomial(c, n, j)
  BY <1>6, PolynomialIs
<1>12. Cardinality(S) >= j
  BY <1>4, <1>6, <1>8
<1>13. PICK t \in Int : t = Constant(c, n, j)
  <2>1. CASE j = 0
    BY <2>1 DEF Constant
  <2>2. CASE j # 0
    <3>1. n + 1 - j \in 1..n
      BY <1>6, <2>2
    <3>2. c[n + 1 - j] \in Int
      BY <3>1
    <3> QED
      BY <2>2, <3>2 DEF Constant
  <2> QED
    BY <2>1, <2>2
<1>14. PICK x \in Int : x = Interpolated(h, S) /\ Residue(x) = Residue(t)
  BY <1>4, <1>7, <1>11, <1>12, <1>13, InterpolatedType
<1>15. PICK y \in Int : y = Interpolated(h, T) /\ Residue(y) = Residue(t)
  BY <1>7, <1>10, <1>11, <1>13, InterpolatedType
<1>16. PICK z \in Int : z = Interpolated(Multiplied(h), S)
  <2>1. Multiplied(h) \in [Nat -> Int]
    BY DEF Multiplied
  <2> QED
    BY <1>4, <2>1, InterpolatedType
<1>17. a \in Int
  BY <1>4 DEF Points
<1>18. Residue(z) = Residue(a * x + (-a) * y)
  BY <1>4, <1>10, <1>14, <1>15, <1>16, MultipliedSum
<1>19. Residue(z) = 0
  <2>1. Vanishes(a, x, y, z, t)
    BY <1>17, Vanishing
  <2> QED
    BY <1>14, <1>15, <1>18, <2>1 DEF Vanishes
<1>20. PICK o \in Int : o = Interpolated(One, S) /\ Residue(o) = 1
  <2>1. One \in [Nat -> Int]
    BY DEF One
  <2> QED
    BY <1>4, <1>9, <2>1, InterpolatedType, Ones
<1>21. PICK e \in Int : e = c[n + 1 - (j + 1)]
  <2>1. n + 1 - (j + 1) \in 1..n
    BY <1>3, <1>6
  <2> QED
    BY <2>1
<1>22. PICK k : k = Interpolated(Polynomial(c, n, i), S)
  OBVIOUS
<1>23. Residue(k) = Residue(1 * z + e * o)
  <2>1. j + 1 \in 1..n /\ S # {}
    BY <1>3, <1>5, <1>6, <1>9
  <2>2. Residue(Interpolated(Polynomial(c, n, j + 1), S))
          = Residue(1 * Interpolated(Multiplied(Polynomial(c, n, j)), S) + c[n + 1 - (j + 1)] * Interpolated(One, S))
    BY <1>4, <2>1, NextCoefficient
  <2> QED
    BY <1>6, <1>11, <1>16, <1>20, <1>21, <1>22, <2>2
<1>24. Residue(k) = Residue(e)
  <2>1. LastTerm(z, e, o, k)
    BY LastOne
  <2> QED
    BY <1>19, <1>20, <1>23, <2>1 DEF LastTerm
<1>25. Constant(c, n, i) = e
  BY <1>5, <1>6, <1>21 DEF Constant
<1> QED
  BY <1>4, <1>22, <1>24, <1>25

SharesEvaluate(c, m, n) == \A x \in 1..m : Shares(c, m)[x] = Evaluation(c, x, n)[n]

LEMMA SharesAre ==
  ASSUME NEW c, NEW m, NEW n, Len(c) = n
  PROVE  SharesEvaluate(c, m, n)
<1>1. \A x \in 1..m : Shares(c, m)[x] = Evaluation(c, x, Len(c))[Len(c)]
  BY DEF Shares, Evaluation, Evaluating
<1> QED
  BY <1>1 DEF SharesEvaluate

LEMMA CombineIs ==
  ASSUME NEW share, NEW S
  PROVE  Combine(share, S) = Interpolated(share, S)
  BY DEF Combine, Interpolated, Weighted, WeightOf, Numerator, Denominator, Negatives, Distances

Coefficients(n) == [1..n -> 0..(Prime - 1)]

LEMMA SharesGiveBack ==
  ASSUME NEW m \in Nat, m < Prime, NEW S, S \subseteq 1..m, S # {}, NEW c \in Coefficients(Cardinality(S))
  PROVE  Combine(Shares(c, m), S) = c[1]
<1>n. PICK n \in Nat : n = Cardinality(S) /\ n >= 1
  <2>1. IsFiniteSet(1..m)
    BY FS_Interval
  <2>2. IsFiniteSet(S)
    BY <2>1, FS_Subset
  <2>3. Cardinality(S) \in Nat /\ Cardinality(S) # 0
    BY <2>2, FS_CardinalityType, FS_EmptySet
  <2> QED
    BY <2>3
<1>0. c \in [1..n -> 0..(Prime - 1)]
  BY <1>n DEF Coefficients
<1>1. Points(S)
  <2>1. IsFiniteSet(1..m)
    BY FS_Interval
  <2>2. IsFiniteSet(S)
    BY <2>1, FS_Subset
  <2>3. S \subseteq 1..(Prime - 1)
    BY PrimeIs
  <2> QED
    BY <2>2, <2>3 DEF Points
<1>2. Prime \in Nat /\ c \in [1..n -> Int] /\ Len(c) = n
  <2>1. c \in Seq(0..(Prime - 1))
    <3>1. c \in UNION {[1..i -> 0..(Prime - 1)] : i \in Nat}
      BY <1>0
    <3> QED
      BY <3>1, SeqDef
  <2>2. DOMAIN c = 1..n
    BY <1>0
  <2>3. Len(c) = n
    BY <2>1, <2>2, LenProperties
  <2>4. c \in [1..n -> Int]
    BY <1>0, PrimeIs
  <2> QED
    BY <2>3, <2>4, PrimeIs
<1>3. PICK h \in [Nat -> Int] : h = Polynomial(c, n, n)
  <2>1. n \in 0..n
    OBVIOUS
  <2> QED
    BY <1>2, <2>1, PolynomialIs
<1>4. PICK share : share = Shares(c, m)
  OBVIOUS
<1>5. \A x \in S : share[x] = h[x]
  <2>1. \A x \in 1..m : Shares(c, m)[x] = Evaluation(c, x, n)[n]
    <3>1. SharesEvaluate(c, m, n)
      BY <1>2, SharesAre
    <3> QED
      BY <3>1 DEF SharesEvaluate
  <2> QED
    BY <1>3, <1>4, <2>1 DEF Polynomial
<1>6. PICK f : f = Weighted(h, S)
  OBVIOUS
<1>7. PICK g : g = Weighted(share, S)
  OBVIOUS
<1>8. \A x \in S : g[x] = f[x]
  BY <1>5, <1>6, <1>7 DEF Weighted
<1>9. SumModulo(g, S) = SumModulo(f, S)
  BY <1>1, <1>8, SumSame DEF Points
<1>10. PICK k \in 0..(Prime - 1) : k = Interpolated(h, S)
  BY <1>1, InterpolatedType
<1>11. Combine(share, S) = k
  BY <1>6, <1>7, <1>9, <1>10, CombineIs DEF Interpolated
<1>12. Residue(k) = Residue(Constant(c, n, n))
  <2>1. n \in 0..n /\ Cardinality(S) >= n
    BY <1>n
  <2> QED
    BY <1>1, <1>2, <1>3, <1>10, <2>1, Interpolation
<1>13. Constant(c, n, n) = c[1]
  <2>1. n + 1 - n = 1 /\ n # 0
    BY <1>n
  <2> QED
    BY <2>1 DEF Constant
<1>14. c[1] \in 0..(Prime - 1)
  BY <1>n, <1>0
<1> QED
  BY <1>4, <1>10, <1>11, <1>12, <1>13, <1>14, ResidueOfSmall

(* What is drawn is a polynomial of the custody's threshold.                 *)
Drawn ==
    polynomial.coefficients # <<>> =>
        /\ polynomial.custody \in Custodies
        /\ polynomial.coefficients \in [1..polynomial.custody.threshold -> 0..(Prime - 1)]

LEMMA DrawnRecovers == Drawn => SharesRecover
<1> SUFFICES ASSUME Drawn, polynomial.coefficients # <<>> PROVE SharesRecover
  BY DEF SharesRecover
<1>1. PICK p : p = polynomial.custody
  OBVIOUS
<1>2. PICK c : c = polynomial.coefficients
  OBVIOUS
<1>3. p \in Custodies /\ c \in [1..p.threshold -> 0..(Prime - 1)]
  BY <1>1, <1>2 DEF Drawn
<1>4. PICK n \in Nat : n = p.threshold /\ n >= 1
  BY <1>3, BulletinAssumption
<1>5. PICK m \in Nat : m = p.shares /\ m < Prime
  BY <1>3, BulletinAssumption
<1>6. c \in [1..n -> 0..(Prime - 1)]
  BY <1>3, <1>4
<1>7. PICK share : share = Shares(c, m)
  OBVIOUS
<1>8. DOMAIN share = 1..m
  BY <1>7 DEF Shares
<1>9. ASSUME NEW chosen \in kSubset(n, DOMAIN share)
      PROVE  Combine(share, chosen) = c[1]
  <2>1. chosen \subseteq 1..m /\ Cardinality(chosen) = n
    BY <1>8 DEF kSubset
  <2>2. chosen # {} /\ m < Prime
    <3>1. Cardinality({}) = 0
      BY FS_EmptySet
    <3>2. Cardinality(chosen) # 0
      BY <1>4, <2>1
    <3> QED
      BY <1>5, <3>1, <3>2
  <2>3. c \in Coefficients(Cardinality(chosen))
    BY <1>6, <2>1 DEF Coefficients
  <2>4. Combine(Shares(c, m), chosen) = c[1]
    BY <2>1, <2>2, <2>3, SharesGiveBack
  <2> QED
    BY <1>7, <2>4
<1> QED
  BY <1>1, <1>2, <1>4, <1>5, <1>7, <1>9 DEF SharesRecover

LEMMA InitDrawn == BulletinInit => Drawn
  BY DEF BulletinInit, Drawn

LEMMA DrawnKept ==
  ASSUME Drawn, [BulletinNext]_bulletinVars
  PROVE  Drawn'
<1>1. CASE Schedules
  <2>1. PICK c \in Custodies : \E d \in [1..c.threshold -> 0..(Prime - 1)] :
            polynomial' = [custody |-> c, coefficients |-> d]
    BY <1>1 DEF Schedules
  <2>2. PICK d \in [1..c.threshold -> 0..(Prime - 1)] : polynomial' = [custody |-> c, coefficients |-> d]
    BY <2>1
  <2> QED
    BY <2>2 DEF Drawn
<1>2. CASE UNCHANGED polynomial
  BY <1>2 DEF Drawn
<1>3. UNCHANGED polynomial \/ Schedules
  BY DEF BulletinNext, bulletinVars, Approves, SignsByHand, EditsConfiguration, Moves, Votes, SuspendsOrRestores,
         RunsTally, CertifiesResult, RevokesCertificate, RecountsBallots, ReplacesSigningKey
<1> QED
  BY <1>1, <1>2, <1>3

-----------------------------------------------------------------------------
(* Bulletin: what is signed, tallied and certified.                          *)

Stages == {"DRAFT", "REVIEW", "APPROVED", "SCHEDULED", "OPEN", "CLOSED"} \cup Tallied
Sizes == {Cardinality(s) : s \in SUBSET People}
Roots == {MerkleRoot(Sorted(b)) : b \in SUBSET Trackers}
Documents == [edits : Nat, statuses : [{"ELIGIBLE", "VOTED", "SUSPENDED"} -> Sizes]]
Data == [ballots : SUBSET Trackers, cast : Sizes, eligible : Sizes, root : Roots]
Payloads == [resultHash : Data, root : Roots, configHash : Documents]
Row == [status : {"PENDING_REVIEW", "APPROVED", "SUPERSEDED"}, data : Data]
Snapshot == [config : Documents, key : SigningKeys]

BulletinTyped ==
    /\ heedful \in BOOLEAN /\ stage \in Stages /\ edits \in Nat
    /\ electorate \in [People -> {"ELIGIBLE", "VOTED", "SUSPENDED"}]
    /\ board \in SUBSET Trackers /\ receipts \in [People -> Trackers \cup {0}]
    /\ snapshots \in Seq(Snapshot) /\ tallies \in Seq(Row)
    /\ certificate \in {NoCertificate} \cup
           [result : Nat \ {0}, payload : Payloads, signed : Payloads, key : SigningKeys]
    /\ signer \in [own : SigningKeys, previous : SUBSET SigningKeys]

(* Nobody gets past the approval without a signed configuration.             *)
Signed == stage \notin {"DRAFT", "REVIEW"} => snapshots # <<>>

(* Once there is a tally nobody votes, and every tally is of what there is.  *)
TalliesCurrent ==
    /\ tallies # <<>> => stage \in Tallied
    /\ \A i \in 1..Len(tallies) :
           /\ tallies[i].data.ballots = board
           /\ tallies[i].data.cast = Cardinality(InState("VOTED"))
           /\ tallies[i].data.root = MerkleRoot(Sorted(board))

(* The certificate is of a result that stays what it was.                    *)
CertificateSound ==
    certificate # NoCertificate =>
        /\ stage \in {"CERTIFIED", "PUBLISHED", "ARCHIVED"}
        /\ certificate.result \in 1..Len(tallies)
        /\ certificate.signed = certificate.payload
        /\ certificate.payload.resultHash = tallies[certificate.result].data
        /\ certificate.payload.root = certificate.payload.resultHash.root

(* As long as everybody is careful, the newest configuration is the one      *)
(* certified, and the key of the certificate is listed.                      *)
Heeded ==
    heedful /\ certificate # NoCertificate =>
        certificate.payload.configHash = LatestSnapshot /\ certificate.key \in TrustedKeys

ReceiptsOnBoard == \A p \in People : receipts[p] # 0 => receipts[p] \in board

BulletinInv == BulletinTyped /\ Signed /\ TalliesCurrent /\ CertificateSound /\ Heeded /\ ReceiptsOnBoard /\ RecountsAgree

LEMMA InitBulletin == BulletinInit => BulletinInv
<1> SUFFICES ASSUME BulletinInit PROVE BulletinInv
  OBVIOUS
<1>1. Len(tallies) = 0 /\ tallies = <<>> /\ snapshots = <<>>
  BY DEF BulletinInit
<1>2. BulletinTyped
  BY BulletinAssumption DEF BulletinInit, BulletinTyped, Stages
<1>3. Signed /\ CertificateSound /\ Heeded /\ ReceiptsOnBoard
  BY DEF BulletinInit, Signed, CertificateSound, Heeded, ReceiptsOnBoard
<1>4. TalliesCurrent
  BY <1>1 DEF TalliesCurrent
<1>5. RecountsAgree
  BY DEF BulletinInit, RecountsAgree
<1> QED
  BY <1>2, <1>3, <1>4, <1>5 DEF BulletinInv

LEMMA DocumentIs ==
  ASSUME BulletinTyped PROVE ConfigurationDocument \in Documents
<1>1. \A s : InState(s) \in SUBSET People
  BY DEF InState
<1>2. \A s : Cardinality(InState(s)) \in Sizes
  BY <1>1 DEF Sizes
<1> QED
  BY <1>2 DEF BulletinTyped, ConfigurationDocument, Documents

LEMMA CountedIs ==
  ASSUME BulletinTyped PROVE Counted \in Data
<1>1. \A s : InState(s) \in SUBSET People /\ People \ InState(s) \in SUBSET People
  BY DEF InState
<1>2. Cardinality(InState("VOTED")) \in Sizes /\ Cardinality(People \ InState("SUSPENDED")) \in Sizes
  BY <1>1 DEF Sizes
<1>3. MerkleRoot(Sorted(board)) \in Roots /\ board \in SUBSET Trackers
  BY DEF BulletinTyped, Roots
<1> QED
  BY <1>2, <1>3 DEF Counted, Data

(* Another signed configuration. *)
LEMMA SignsKept ==
  ASSUME BulletinInv, Approves \/ SignsByHand
  PROVE  BulletinInv'
<1>1. /\ UNCHANGED <<heedful, edits, electorate, board, receipts, tallies, recounted, certificate, signer>>
      /\ snapshots' = Append(snapshots, [config |-> ConfigurationDocument, key |-> signer.own])
      /\ stage' = stage \/ (stage = "REVIEW" /\ stage' = "APPROVED")
  BY DEF Approves, SignsByHand, Signs
<1>2. heedful => stage \notin {"CERTIFIED", "PUBLISHED", "ARCHIVED"}
  BY DEF Approves, SignsByHand
<1>3. [config |-> ConfigurationDocument, key |-> signer.own] \in Snapshot
  BY DocumentIs DEF BulletinInv, BulletinTyped, Snapshot
<1>4. snapshots' \in Seq(Snapshot) /\ snapshots' # <<>>
  BY <1>1, <1>3, AppendProperties DEF BulletinInv, BulletinTyped
<1>5. BulletinTyped'
  BY <1>1, <1>4 DEF BulletinInv, BulletinTyped, Stages
<1>6. Signed'
  BY <1>4 DEF Signed
<1>7. tallies # <<>> => stage # "REVIEW"
  BY DEF BulletinInv, TalliesCurrent, Tallied
<1>8. TalliesCurrent'
  BY <1>1, <1>7 DEF BulletinInv, TalliesCurrent, InState
<1>9. CertificateSound'
  BY <1>1 DEF BulletinInv, CertificateSound
<1>10. Heeded'
  BY <1>1, <1>2 DEF BulletinInv, Heeded, CertificateSound
<1>11. ReceiptsOnBoard' /\ RecountsAgree'
  BY <1>1 DEF BulletinInv, ReceiptsOnBoard, RecountsAgree
<1> QED
  BY <1>5, <1>6, <1>8, <1>9, <1>10, <1>11 DEF BulletinInv

(* Steps that only move the election, a suspension, a new signing key.       *)
LEMMA MovesKept ==
  ASSUME BulletinInv, EditsConfiguration \/ Schedules \/ Moves
  PROVE  BulletinInv'
<1>1. /\ UNCHANGED <<heedful, electorate, board, receipts, snapshots, tallies, recounted, certificate, signer>>
      /\ edits' \in {edits, edits + 1}
  BY DEF EditsConfiguration, Schedules, Moves
<1>2. <<stage, stage'>> \in {<<"APPROVED", "DRAFT">>, <<"APPROVED", "SCHEDULED">>, <<"DRAFT", "REVIEW">>,
            <<"SCHEDULED", "OPEN">>, <<"OPEN", "CLOSED">>, <<"CERTIFIED", "PUBLISHED">>,
            <<"PUBLISHED", "ARCHIVED">>, <<"CLOSED", "ARCHIVED">>}
  BY DEF EditsConfiguration, Schedules, Moves
<1>3. BulletinTyped'
  BY <1>1, <1>2 DEF BulletinInv, BulletinTyped, Stages, Tallied
<1>4. Signed'
  BY <1>1, <1>2 DEF BulletinInv, Signed
<1>5. tallies # <<>> => stage' \in Tallied
  BY <1>2 DEF BulletinInv, TalliesCurrent, Tallied
<1>6. TalliesCurrent'
  BY <1>1, <1>5 DEF BulletinInv, TalliesCurrent, InState
<1>7. CertificateSound'
  BY <1>1, <1>2 DEF BulletinInv, CertificateSound
<1>8. Heeded'
  BY <1>1 DEF BulletinInv, Heeded, LatestSnapshot, TrustedKeys
<1>9. ReceiptsOnBoard' /\ RecountsAgree'
  BY <1>1 DEF BulletinInv, ReceiptsOnBoard, RecountsAgree
<1> QED
  BY <1>3, <1>4, <1>6, <1>7, <1>8, <1>9 DEF BulletinInv

LEMMA VotesKept ==
  ASSUME BulletinInv, NEW p \in People, Votes(p)
  PROVE  BulletinInv'
<1>1. /\ UNCHANGED <<heedful, stage, edits, snapshots, tallies, recounted, certificate, signer>>
      /\ stage = "OPEN" /\ electorate' = [electorate EXCEPT ![p] = "VOTED"]
  BY DEF Votes
<1>2. PICK t \in Trackers \ board : board' = board \cup {t} /\ receipts' = [receipts EXCEPT ![p] = t]
  BY DEF Votes
<1>3. BulletinTyped'
  BY <1>1, <1>2 DEF BulletinInv, BulletinTyped
<1>4. tallies = <<>>
  BY <1>1 DEF BulletinInv, TalliesCurrent, Tallied
<1>5. Len(tallies) = 0
  BY <1>4
<1>6. TalliesCurrent'
  BY <1>1, <1>4, <1>5 DEF TalliesCurrent
<1>7. Signed' /\ CertificateSound' /\ RecountsAgree'
  BY <1>1 DEF BulletinInv, Signed, CertificateSound, RecountsAgree
<1>8. Heeded'
  BY <1>1 DEF BulletinInv, Heeded, LatestSnapshot, TrustedKeys
<1>9. ReceiptsOnBoard'
  BY <1>2 DEF BulletinInv, BulletinTyped, ReceiptsOnBoard
<1> QED
  BY <1>3, <1>6, <1>7, <1>8, <1>9 DEF BulletinInv

LEMMA SuspendsKept ==
  ASSUME BulletinInv, NEW p \in People, SuspendsOrRestores(p)
  PROVE  BulletinInv'
<1>1. /\ UNCHANGED <<heedful, stage, edits, board, receipts, snapshots, tallies, recounted, certificate, signer>>
      /\ electorate[p] # "VOTED"
      /\ electorate' = [electorate EXCEPT ![p] = IF electorate[p] = "ELIGIBLE" THEN "SUSPENDED" ELSE "ELIGIBLE"]
  BY DEF SuspendsOrRestores
<1>2. BulletinTyped'
  BY <1>1 DEF BulletinInv, BulletinTyped
<1>3. InState("VOTED")' = InState("VOTED")
  BY <1>1 DEF BulletinInv, BulletinTyped, InState
<1>4. TalliesCurrent'
  BY <1>1, <1>3 DEF BulletinInv, TalliesCurrent
<1>5. Signed' /\ CertificateSound' /\ RecountsAgree' /\ ReceiptsOnBoard'
  BY <1>1 DEF BulletinInv, Signed, CertificateSound, RecountsAgree, ReceiptsOnBoard
<1>6. Heeded'
  BY <1>1 DEF BulletinInv, Heeded, LatestSnapshot, TrustedKeys
<1> QED
  BY <1>2, <1>4, <1>5, <1>6 DEF BulletinInv

LEMMA KeyKept ==
  ASSUME BulletinInv, ReplacesSigningKey
  PROVE  BulletinInv'
<1>1. UNCHANGED <<heedful, stage, edits, electorate, board, receipts, snapshots, tallies, recounted, certificate>>
  BY DEF ReplacesSigningKey
<1>2. PICK k \in SigningKeys : \/ signer' = [own |-> k, previous |-> signer.previous \cup {signer.own}]
                               \/ ~heedful /\ signer' = [signer EXCEPT !.own = k]
  BY DEF ReplacesSigningKey
<1>3. BulletinTyped'
  BY <1>1, <1>2 DEF BulletinInv, BulletinTyped
<1>4. Signed' /\ CertificateSound' /\ RecountsAgree' /\ ReceiptsOnBoard'
  BY <1>1 DEF BulletinInv, Signed, CertificateSound, RecountsAgree, ReceiptsOnBoard
<1>5. TalliesCurrent'
  BY <1>1 DEF BulletinInv, TalliesCurrent, InState
<1>6. heedful => TrustedKeys \subseteq TrustedKeys'
  BY <1>2 DEF TrustedKeys
<1>7. Heeded'
  BY <1>1, <1>6 DEF BulletinInv, Heeded, LatestSnapshot
<1> QED
  BY <1>3, <1>4, <1>5, <1>7 DEF BulletinInv

LEMMA SupersededIs ==
  ASSUME BulletinTyped
  PROVE  /\ Superseded \in Seq(Row) /\ Len(Superseded) = Len(tallies)
         /\ \A i \in 1..Len(tallies) : Superseded[i].data = tallies[i].data
<1>1. PICK n \in Nat : n = Len(tallies) /\ DOMAIN tallies = 1..n /\ \A i \in 1..n : tallies[i] \in Row
  <2>1. tallies \in Seq(Row)
    BY DEF BulletinTyped
  <2> QED
    BY <2>1, LenProperties, ElementOfSeq
<1> DEFINE new(i) == IF tallies[i].status = "PENDING_REVIEW" THEN [tallies[i] EXCEPT !.status = "SUPERSEDED"] ELSE tallies[i]
<1>2. ASSUME NEW i \in 1..n PROVE new(i) \in Row /\ new(i).data = tallies[i].data
  BY <1>1 DEF Row
<1>3. Superseded = [i \in 1..n |-> new(i)]
  BY <1>1 DEF Superseded
<1> HIDE DEF new
<1>4. Superseded \in Seq(Row)
  BY <1>2, <1>3, IsASeq
<1>5. DOMAIN Superseded = 1..n
  BY <1>3
<1>6. Len(Superseded) = n
  BY <1>4, <1>5, LenProperties
<1> QED
  BY <1>1, <1>2, <1>3, <1>4, <1>6

LEMMA TallyKept ==
  ASSUME BulletinInv, RunsTally
  PROVE  BulletinInv'
<1>1. /\ UNCHANGED <<heedful, edits, electorate, board, receipts, snapshots, recounted, certificate, signer>>
      /\ stage \in {"CLOSED", "TALLYING"} /\ stage' = "TALLYING"
      /\ tallies' = Append(Superseded, [status |-> "PENDING_REVIEW", data |-> Counted])
  BY DEF RunsTally
<1>2. PICK row \in Row : row = [status |-> "PENDING_REVIEW", data |-> Counted]
  BY CountedIs DEF BulletinInv, Row
<1>3. PICK n \in Nat : n = Len(tallies)
  BY LenProperties DEF BulletinInv, BulletinTyped
<1>4. /\ Superseded \in Seq(Row) /\ Len(Superseded) = n
      /\ \A i \in 1..n : Superseded[i].data = tallies[i].data
  BY <1>3, SupersededIs DEF BulletinInv
<1>5. tallies' = Append(Superseded, row)
  BY <1>1, <1>2
<1>6. /\ tallies' \in Seq(Row) /\ Len(tallies') = n + 1
      /\ \A i \in 1..n : tallies'[i] = Superseded[i]
      /\ tallies'[n + 1] = row
  BY <1>4, <1>5, AppendProperties
<1>7. BulletinTyped'
  BY <1>1, <1>6 DEF BulletinInv, BulletinTyped, Stages, Tallied
<1>8. Signed'
  BY <1>1 DEF BulletinInv, Signed
<1>9. TalliesCurrent'
  <2>1. stage' \in Tallied
    BY <1>1 DEF Tallied
  <2>2. ASSUME NEW i \in 1..(n + 1)
        PROVE  /\ tallies'[i].data.ballots = board
               /\ tallies'[i].data.cast = Cardinality(InState("VOTED"))
               /\ tallies'[i].data.root = MerkleRoot(Sorted(board))
    <3>1. CASE i = n + 1
      BY <1>2, <1>6, <3>1 DEF Counted
    <3>2. CASE i # n + 1
      <4>1. i \in 1..n
        BY <3>2
      <4>2. tallies'[i].data = tallies[i].data
        BY <1>4, <1>6, <4>1
      <4> QED
        BY <1>3, <4>1, <4>2 DEF BulletinInv, TalliesCurrent
    <3> QED
      BY <3>1, <3>2
  <2>3. InState("VOTED")' = InState("VOTED") /\ board' = board
    BY <1>1 DEF InState
  <2> QED
    BY <1>6, <2>1, <2>2, <2>3 DEF TalliesCurrent
<1>10. certificate = NoCertificate
  BY <1>1 DEF BulletinInv, CertificateSound
<1>11. CertificateSound' /\ Heeded'
  BY <1>1, <1>10 DEF CertificateSound, Heeded
<1>12. ReceiptsOnBoard' /\ RecountsAgree'
  BY <1>1 DEF BulletinInv, ReceiptsOnBoard, RecountsAgree
<1> QED
  BY <1>7, <1>8, <1>9, <1>11, <1>12 DEF BulletinInv

(* Setting the status of one tally leaves its data. *)
LEMMA StatusSet ==
  ASSUME BulletinTyped, NEW i \in 1..Len(tallies), NEW mark \in {"APPROVED", "SUPERSEDED"},
         tallies' = [tallies EXCEPT ![i].status = mark]
  PROVE  /\ tallies' \in Seq(Row) /\ Len(tallies') = Len(tallies)
         /\ \A j \in 1..Len(tallies) : tallies'[j].data = tallies[j].data
<1>1. PICK n \in Nat : n = Len(tallies) /\ DOMAIN tallies = 1..n /\ \A j \in 1..n : tallies[j] \in Row
  <2>1. tallies \in Seq(Row)
    BY DEF BulletinTyped
  <2> QED
    BY <2>1, LenProperties, ElementOfSeq
<1>2. PICK new \in Row : new = [tallies[i] EXCEPT !.status = mark] /\ new.data = tallies[i].data
  <2>1. tallies[i] \in Row
    BY <1>1
  <2>2. [tallies[i] EXCEPT !.status = mark] \in Row /\ [tallies[i] EXCEPT !.status = mark].data = tallies[i].data
    BY <2>1 DEF Row
  <2> QED
    BY <2>2
<1>3. tallies' = [tallies EXCEPT ![i] = new]
  BY <1>2
<1>4. tallies \in Seq(Row) /\ i \in 1..Len(tallies)
  BY DEF BulletinTyped
<1>5. tallies' \in Seq(Row) /\ Len(tallies') = Len(tallies)
  BY <1>3, <1>4, ExceptSeq
<1>6. \A j \in 1..n : tallies'[j].data = tallies[j].data
  BY <1>1, <1>2, <1>3
<1> QED
  BY <1>1, <1>5, <1>6

LEMMA CertifyKept ==
  ASSUME BulletinInv, CertifiesResult
  PROVE  BulletinInv'
<1>1. /\ UNCHANGED <<heedful, edits, electorate, board, receipts, snapshots, recounted, signer>>
      /\ stage = "TALLYING" /\ stage' = "CERTIFIED"
  BY DEF CertifiesResult
<1>2. PICK i \in DOMAIN tallies :
         /\ tallies' = [tallies EXCEPT ![i].status = "APPROVED"]
         /\ certificate' = [result |-> i, payload |-> Payload(tallies[i].data),
                            signed |-> Payload(tallies[i].data), key |-> signer.own]
  BY DEF CertifiesResult
<1>3. PICK n \in Nat : n = Len(tallies) /\ DOMAIN tallies = 1..n /\ \A j \in 1..n : tallies[j] \in Row
  <2>1. tallies \in Seq(Row)
    BY DEF BulletinInv, BulletinTyped
  <2> QED
    BY <2>1, LenProperties, ElementOfSeq
<1>4. i \in 1..n /\ i \in Nat \ {0}
  BY <1>3
<1>5. /\ tallies' \in Seq(Row) /\ Len(tallies') = n
      /\ \A j \in 1..n : tallies'[j].data = tallies[j].data
  BY <1>2, <1>3, <1>4, StatusSet DEF BulletinInv
<1>6. PICK data \in Data : data = tallies[i].data
  BY <1>3, <1>4 DEF Row
<1>7. LatestSnapshot \in Documents
  <2>1. snapshots # <<>> /\ snapshots \in Seq(Snapshot)
    BY <1>1 DEF BulletinInv, BulletinTyped, Signed
  <2>2. Len(snapshots) \in 1..Len(snapshots)
    BY <2>1
  <2>3. snapshots[Len(snapshots)] \in Snapshot
    BY <2>1, <2>2, ElementOfSeq
  <2> QED
    BY <2>3 DEF LatestSnapshot, Last, Snapshot
<1>8. PICK payload \in Payloads : payload = Payload(data)
  <2>1. Payload(data) \in Payloads
    BY <1>6, <1>7 DEF Payload, Payloads, Data
  <2> QED
    BY <2>1
<1>9. /\ payload.resultHash = data /\ payload.root = data.root /\ payload.configHash = LatestSnapshot
  BY <1>8 DEF Payload
<1>10. certificate' = [result |-> i, payload |-> payload, signed |-> payload, key |-> signer.own]
  BY <1>2, <1>6, <1>8
<1>11. signer.own \in SigningKeys
  BY DEF BulletinInv, BulletinTyped
<1>12. certificate' \in [result : Nat \ {0}, payload : Payloads, signed : Payloads, key : SigningKeys]
  BY <1>4, <1>10, <1>11
<1>13. BulletinTyped'
  BY <1>1, <1>5, <1>12 DEF BulletinInv, BulletinTyped, Stages, Tallied
<1>14. Signed'
  BY <1>1 DEF BulletinInv, Signed
<1>15. TalliesCurrent'
  <2>1. stage' \in Tallied
    BY <1>1 DEF Tallied
  <2>2. InState("VOTED")' = InState("VOTED") /\ board' = board
    BY <1>1 DEF InState
  <2> QED
    BY <1>3, <1>5, <2>1, <2>2 DEF BulletinInv, TalliesCurrent
<1>16. CertificateSound'
  <2>1. /\ certificate'.result = i /\ certificate'.payload = payload /\ certificate'.signed = payload
    BY <1>10
  <2>2. tallies'[i].data = data
    BY <1>4, <1>5, <1>6
  <2> QED
    BY <1>1, <1>4, <1>5, <1>9, <2>1, <2>2 DEF CertificateSound
<1>17. Heeded'
  <2>1. certificate'.payload = payload /\ certificate'.key = signer.own
    BY <1>10
  <2> QED
    BY <1>1, <1>9, <2>1 DEF Heeded, LatestSnapshot, TrustedKeys
<1>18. ReceiptsOnBoard' /\ RecountsAgree'
  BY <1>1 DEF BulletinInv, ReceiptsOnBoard, RecountsAgree
<1> QED
  BY <1>13, <1>14, <1>15, <1>16, <1>17, <1>18 DEF BulletinInv

LEMMA RevokeKept ==
  ASSUME BulletinInv, RevokesCertificate
  PROVE  BulletinInv'
<1>1. /\ UNCHANGED <<heedful, edits, electorate, board, receipts, snapshots, recounted, signer>>
      /\ stage \in {"CERTIFIED", "PUBLISHED"} /\ stage' = "TALLYING" /\ certificate' = NoCertificate
      /\ tallies' = [tallies EXCEPT ![certificate.result].status = "SUPERSEDED"]
  BY DEF RevokesCertificate
<1>2. tallies \in Seq(Row) /\ Len(tallies) \in Nat /\ DOMAIN tallies = 1..Len(tallies)
  BY LenProperties DEF BulletinInv, BulletinTyped
<1>3. /\ tallies' \in Seq(Row) /\ Len(tallies') = Len(tallies)
      /\ \A j \in 1..Len(tallies) : tallies'[j].data = tallies[j].data
  <2>1. PICK i : i = certificate.result
    OBVIOUS
  <2>2. CASE i \in 1..Len(tallies)
    BY <1>1, <2>1, <2>2, StatusSet DEF BulletinInv
  <2>3. CASE i \notin 1..Len(tallies)
    <3>1. tallies' = tallies
      BY <1>1, <1>2, <2>1, <2>3
    <3> QED
      BY <1>2, <3>1
  <2> QED
    BY <2>2, <2>3
<1>4. BulletinTyped'
  BY <1>1, <1>3 DEF BulletinInv, BulletinTyped, Stages, Tallied
<1>5. Signed'
  BY <1>1 DEF BulletinInv, Signed
<1>6. TalliesCurrent'
  <2>1. stage' \in Tallied
    BY <1>1 DEF Tallied
  <2>2. InState("VOTED")' = InState("VOTED") /\ board' = board
    BY <1>1 DEF InState
  <2> QED
    BY <1>3, <2>1, <2>2 DEF BulletinInv, TalliesCurrent
<1>7. CertificateSound' /\ Heeded'
  BY <1>1 DEF CertificateSound, Heeded
<1>8. ReceiptsOnBoard' /\ RecountsAgree'
  BY <1>1 DEF BulletinInv, ReceiptsOnBoard, RecountsAgree
<1> QED
  BY <1>4, <1>5, <1>6, <1>7, <1>8 DEF BulletinInv

(* A recount is compared to a tally there is. *)
LEMMA ReferenceIs ==
  ASSUME BulletinInv, Reference # 0
  PROVE  Reference \in 1..Len(tallies)
<1>1. CASE certificate # NoCertificate
  BY <1>1 DEF Reference, BulletinInv, CertificateSound
<1>2. CASE certificate = NoCertificate
  <2>1. PICK standing : standing = {i \in DOMAIN tallies : tallies[i].status # "SUPERSEDED"}
    OBVIOUS
  <2>2. PICK n \in Nat : n = Len(tallies) /\ DOMAIN tallies = 1..n
    BY LenProperties DEF BulletinInv, BulletinTyped
  <2>3. standing \subseteq 1..n /\ standing \subseteq Nat /\ \A i \in standing : i <= n
    BY <2>1, <2>2
  <2>4. Reference = IF standing = {} THEN 0 ELSE CHOOSE i \in standing : \A j \in standing : j <= i
    BY <1>2, <2>1 DEF Reference
  <2>5. standing # {}
    BY <2>4
  <2>6. \E i \in standing : \A j \in standing : j <= i
    BY <2>3, <2>5, Largest
  <2>7. Reference \in standing
    BY <2>4, <2>5, <2>6
  <2> QED
    BY <2>2, <2>3, <2>7
<1> QED
  BY <1>1, <1>2

LEMMA RecountKept ==
  ASSUME BulletinInv, RecountsBallots
  PROVE  BulletinInv'
<1>1. /\ UNCHANGED <<heedful, stage, edits, electorate, board, receipts, snapshots, tallies, certificate, signer>>
      /\ Reference # 0
      /\ recounted' = [matches |-> tallies[Reference].data = Counted, data |-> Counted,
                       official |-> tallies[Reference].data]
  BY DEF RecountsBallots
<1>2. PICK i \in 1..Len(tallies) : i = Reference
  BY <1>1, ReferenceIs
<1>3. PICK data \in Data : data = tallies[i].data
  <2>1. tallies[i] \in Row
    BY ElementOfSeq DEF BulletinInv, BulletinTyped
  <2> QED
    BY <2>1 DEF Row
<1>4. PICK now \in Data : now = Counted
  BY CountedIs DEF BulletinInv
<1>5. data.ballots = now.ballots /\ data.cast = now.cast /\ data.root = now.root
  BY <1>2, <1>3, <1>4 DEF BulletinInv, TalliesCurrent, Counted
<1>6. data.eligible = now.eligible => data = now
  BY <1>5 DEF Data
<1>7. recounted'.data = now /\ recounted'.official = data /\ (recounted'.matches <=> data = now)
  <2>1. recounted' = [matches |-> data = now, data |-> now, official |-> data]
    BY <1>1, <1>2, <1>3, <1>4
  <2> QED
    BY <2>1
<1>8. RecountsAgree'
  BY <1>5, <1>6, <1>7 DEF RecountsAgree
<1>9. BulletinTyped'
  BY <1>1 DEF BulletinInv, BulletinTyped
<1>10. Signed' /\ CertificateSound' /\ ReceiptsOnBoard'
  BY <1>1 DEF BulletinInv, Signed, CertificateSound, ReceiptsOnBoard
<1>11. TalliesCurrent'
  BY <1>1 DEF BulletinInv, TalliesCurrent, InState
<1>12. Heeded'
  BY <1>1 DEF BulletinInv, Heeded, LatestSnapshot, TrustedKeys
<1> QED
  BY <1>8, <1>9, <1>10, <1>11, <1>12 DEF BulletinInv

LEMMA StutterKept ==
  ASSUME BulletinInv, UNCHANGED bulletinVars
  PROVE  BulletinInv'
BY DEF bulletinVars, BulletinInv, BulletinTyped, Signed, TalliesCurrent, InState, CertificateSound, Heeded,
       LatestSnapshot, TrustedKeys, ReceiptsOnBoard, RecountsAgree

LEMMA NextKept ==
  ASSUME BulletinInv, [BulletinNext]_bulletinVars
  PROVE  BulletinInv'
<1>1. CASE Approves \/ SignsByHand
  BY <1>1, SignsKept
<1>2. CASE EditsConfiguration \/ Schedules \/ Moves
  BY <1>2, MovesKept
<1>3. ASSUME NEW p \in People, Votes(p) \/ SuspendsOrRestores(p) PROVE BulletinInv'
  BY <1>3, VotesKept, SuspendsKept
<1>4. CASE RunsTally
  BY <1>4, TallyKept
<1>5. CASE CertifiesResult
  BY <1>5, CertifyKept
<1>6. CASE RevokesCertificate
  BY <1>6, RevokeKept
<1>7. CASE RecountsBallots
  BY <1>7, RecountKept
<1>8. CASE ReplacesSigningKey
  BY <1>8, KeyKept
<1>9. CASE UNCHANGED bulletinVars
  BY <1>9, StutterKept
<1> QED
  BY <1>1, <1>2, <1>3, <1>4, <1>5, <1>6, <1>7, <1>8, <1>9 DEF BulletinNext

(* Whatever is signed, voted, tallied, certified, revoked, recounted and     *)
(* rekeyed, what is stored stays consistent: signatures by known keys,       *)
(* certificates of approved results, receipts of ballots on the board.       *)
THEOREM BulletinInvariant == BulletinSpec => []BulletinInv
  BY InitBulletin, NextKept, PTL DEF BulletinSpec

-----------------------------------------------------------------------------
(* Bulletin: what can be checked by anybody.                                 *)

LEMMA BundleIs ==
  ASSUME BulletinInv, certificate # NoCertificate, NEW b, b = VerificationBundle
  PROVE  /\ b = [config |-> b.config, configSigned |-> b.configSigned, certificate |-> b.certificate,
                 trackers |-> b.trackers, root |-> b.root, hasResult |-> b.hasResult,
                 result |-> b.result, trusted |-> b.trusted]
         /\ b.config = LatestSnapshot /\ b.configSigned = b.config /\ b.config \in Documents
         /\ b.certificate = certificate /\ b.certificate.signed = b.certificate.payload
         /\ b.trackers = Sorted(board) /\ b.root = MerkleRoot(b.trackers)
         /\ b.certificate.payload.root = b.root
         /\ b.result = b.certificate.payload.resultHash /\ b.result \in Data /\ b.result.ballots = board
         /\ b.hasResult = (stage \in Public) /\ b.trusted = TrustedKeys
<1>1. /\ b.config = LatestSnapshot /\ b.configSigned = LatestSnapshot
      /\ b.certificate = certificate /\ b.trackers = Sorted(board) /\ b.root = MerkleRoot(Sorted(board))
      /\ b.hasResult = (stage \in Public) /\ b.result = tallies[certificate.result].data /\ b.trusted = TrustedKeys
  BY DEF VerificationBundle, LatestSnapshot
<1>2. b = [config |-> b.config, configSigned |-> b.configSigned, certificate |-> b.certificate,
           trackers |-> b.trackers, root |-> b.root, hasResult |-> b.hasResult,
           result |-> b.result, trusted |-> b.trusted]
  BY DEF VerificationBundle
<1>3. /\ certificate.result \in 1..Len(tallies) /\ certificate.signed = certificate.payload
      /\ certificate.payload.resultHash = tallies[certificate.result].data
      /\ certificate.payload.root = certificate.payload.resultHash.root
      /\ stage \in {"CERTIFIED", "PUBLISHED", "ARCHIVED"}
  BY DEF BulletinInv, CertificateSound
<1>4. /\ tallies[certificate.result].data.ballots = board
      /\ tallies[certificate.result].data.root = MerkleRoot(Sorted(board))
  BY <1>3 DEF BulletinInv, TalliesCurrent
<1>5. tallies[certificate.result].data \in Data
  <2>1. tallies[certificate.result] \in Row
    BY <1>3, ElementOfSeq DEF BulletinInv, BulletinTyped
  <2> QED
    BY <2>1 DEF Row
<1>6. LatestSnapshot \in Documents
  <2>1. snapshots # <<>> /\ snapshots \in Seq(Snapshot)
    BY <1>3 DEF BulletinInv, BulletinTyped, Signed
  <2>2. Len(snapshots) \in 1..Len(snapshots)
    BY <2>1
  <2>3. snapshots[Len(snapshots)] \in Snapshot
    BY <2>1, <2>2, ElementOfSeq
  <2> QED
    BY <2>3 DEF LatestSnapshot, Last, Snapshot
<1>7. certificate.payload.root = MerkleRoot(Sorted(board))
  BY <1>3, <1>4
<1> QED
  BY <1>1, <1>2, <1>3, <1>4, <1>5, <1>6, <1>7

LEMMA Verifies ==
  ASSUME BulletinInv, heedful PROVE EveryCertifiedResultVerifies
<1> SUFFICES ASSUME certificate # NoCertificate
             PROVE  /\ VerifyOffline(VerificationBundle)
                    /\ \A data \in PublicResults : data = certificate.payload.resultHash
                    /\ \A p \in People : receipts[p] # 0 =>
                           VerifyPage(receipts[p]).ok /\ VerifyPage(receipts[p]).proof.included
  BY DEF EveryCertifiedResultVerifies
<1>1. PICK b : b = VerificationBundle
  OBVIOUS
<1>2. /\ b.config = LatestSnapshot /\ b.configSigned = b.config
      /\ b.certificate = certificate /\ b.certificate.signed = b.certificate.payload
      /\ b.trackers = Sorted(board) /\ b.root = MerkleRoot(b.trackers)
      /\ b.certificate.payload.root = b.root
      /\ b.result = b.certificate.payload.resultHash /\ b.trusted = TrustedKeys
  BY <1>1, BundleIs
<1>3. certificate.payload.configHash = LatestSnapshot /\ certificate.key \in TrustedKeys
  BY DEF BulletinInv, Heeded
<1>4. VerifyOffline(b) /\ VerifyBundle(b)
  BY <1>2, <1>3 DEF VerifyOffline, VerifyBundle
<1>5. \A data \in PublicResults : data = certificate.payload.resultHash
  BY DEF PublicResults, BulletinInv, CertificateSound
<1>6. ASSUME NEW p \in People, receipts[p] # 0
      PROVE  VerifyPage(receipts[p]).ok /\ VerifyPage(receipts[p]).proof.included
  <2>1. receipts[p] \in board
    BY <1>6 DEF BulletinInv, ReceiptsOnBoard
  <2>2. TrackerProof(receipts[p]).included
    BY <2>1 DEF TrackerProof
  <2>3. VerifyPage(receipts[p]).ok <=> VerifyBundle(b)
    BY <1>1 DEF VerifyPage
  <2>4. VerifyPage(receipts[p]).proof = TrackerProof(receipts[p])
    BY DEF VerifyPage
  <2> QED
    BY <1>4, <2>2, <2>3, <2>4
<1> QED
  BY <1>1, <1>4, <1>5, <1>6

LEMMA StoredHolds ==
  ASSUME BulletinInv, certificate # NoCertificate PROVE VerifyIntegrity
<1>1. /\ certificate.result \in 1..Len(tallies) /\ certificate.signed = certificate.payload
      /\ certificate.payload.resultHash = tallies[certificate.result].data
      /\ certificate.payload.root = certificate.payload.resultHash.root
  BY DEF BulletinInv, CertificateSound
<1>2. tallies[certificate.result].data.root = MerkleRoot(Sorted(board))
  BY <1>1 DEF BulletinInv, TalliesCurrent
<1> QED
  BY <1>1, <1>2 DEF VerifyIntegrity

LEMMA BoardHolds ==
  ASSUME BulletinInv PROVE BoardProven
<1>1. board \subseteq Trackers
  BY DEF BulletinInv, BulletinTyped
<1>2. \A t \in board : \A other \in Trackers :
          VerifyMerkleProof(other, TrackerProof(t).proof, MerkleRoot(Sorted(board))) <=> other = t
  BY <1>1, ProofsProve
<1>3. ASSUME NEW other \in SUBSET Trackers, RootOf[other] = MerkleRoot(Sorted(board)) PROVE other = board
  <2>1. MerkleRoot(Sorted(other)) = MerkleRoot(Sorted(board))
    BY <1>3 DEF RootOf
  <2> QED
    BY <1>1, <2>1, RootsDiffer
<1> QED
  BY <1>2, <1>3 DEF BoardProven

LEMMA AlteredFails ==
  ASSUME BulletinInv PROVE AlterationsShow
<1> SUFFICES ASSUME certificate # NoCertificate PROVE AlterationsShow
  BY DEF AlterationsShow
<1>1. PICK b : b = VerificationBundle
  OBVIOUS
<1>2. /\ b = [config |-> b.config, configSigned |-> b.configSigned, certificate |-> b.certificate,
              trackers |-> b.trackers, root |-> b.root, hasResult |-> b.hasResult,
              result |-> b.result, trusted |-> b.trusted]
      /\ b.configSigned = b.config /\ b.config \in Documents
      /\ b.trackers = Sorted(board) /\ b.root = MerkleRoot(b.trackers)
      /\ b.certificate.payload.root = b.root
      /\ b.result = b.certificate.payload.resultHash /\ b.result \in Data /\ b.result.ballots = board
      /\ b.hasResult = (stage \in Public)
  BY <1>1, BundleIs
<1>3. ASSUME NEW other \in (SUBSET Trackers) \ {board},
             NEW new, new = [b EXCEPT !.trackers = Sorted(other), !.root = RootOf[other]]
      PROVE  ~VerifyBundle(new) /\ ~VerifyOffline(new)
  <2>1. board \subseteq Trackers
    BY DEF BulletinInv, BulletinTyped
  <2>2. MerkleRoot(Sorted(other)) # MerkleRoot(Sorted(board))
    BY <2>1, RootsDiffer
  <2>3. RootOf[other] = MerkleRoot(Sorted(other))
    BY DEF RootOf
  <2>4. new.trackers = Sorted(other) /\ new.root = RootOf[other] /\ new.certificate = b.certificate
    BY <1>2, <1>3
  <2> QED
    BY <1>2, <2>2, <2>3, <2>4 DEF VerifyBundle, VerifyOffline
<1>4. ASSUME stage \in Public, NEW t \in board, NEW new, new = [b EXCEPT !.result.ballots = b.result.ballots \ {t}]
      PROVE  ~VerifyBundle(new) /\ ~VerifyOffline(new)
  <2>1. new.result = [b.result EXCEPT !.ballots = board \ {t}] /\ new.certificate = b.certificate
        /\ new.hasResult = b.hasResult
    BY <1>2, <1>4
  <2>2. new.result.ballots = board \ {t}
    BY <1>2, <2>1 DEF Data
  <2>3. new.result # b.result
    BY <1>2, <2>2
  <2> QED
    BY <1>2, <1>4, <2>1, <2>3 DEF VerifyBundle, VerifyOffline
<1>5. ASSUME NEW new, new = [b EXCEPT !.config.edits = b.config.edits + 1]
      PROVE  ~VerifyBundle(new) /\ ~VerifyOffline(new)
  <2>1. new.config = [b.config EXCEPT !.edits = b.config.edits + 1] /\ new.configSigned = b.configSigned
    BY <1>2, <1>5
  <2>2. new.config.edits = b.config.edits + 1 /\ b.config.edits \in Nat
    BY <1>2, <2>1 DEF Documents
  <2>3. new.config # b.config
    BY <2>2
  <2> QED
    BY <1>2, <2>1, <2>3 DEF VerifyBundle, VerifyOffline
<1> QED
  BY <1>1, <1>3, <1>4, <1>5 DEF AlterationsShow

(* The rows keep their types: documents, tallies, certificates, keys.        *)
THEOREM BulletinTypeCorrect == BulletinSpec => []BulletinTyped
<1>1. BulletinInv => BulletinTyped
  BY DEF BulletinInv
<1> QED
  BY <1>1, BulletinInvariant, PTL

(* docs/PRD.md:168: every certified result verifies, on the public page      *)
(* (verify_bundle, results.py:389) and with the offline verifier             *)
(* (tools/verify_election.py:57), and every receipt is included, as long as  *)
(* nobody signs a configuration after the certification by hand or drops a   *)
(* retired signing key from the settings.                                    *)
THEOREM CertifiedVerifies == BulletinSpec => [](heedful => EveryCertifiedResultVerifies)
<1>1. BulletinInv => (heedful => EveryCertifiedResultVerifies)
  BY Verifies
<1> QED
  BY <1>1, BulletinInvariant, PTL

(* manage.py verify_integrity finds nothing: the certificate that stands is  *)
(* the one that was signed, its result is unchanged, and the board still has *)
(* the certified root, whoever signed what by hand.                          *)
THEOREM StoredVerifies == BulletinSpec => [](certificate # NoCertificate => VerifyIntegrity)
<1>1. BulletinInv => (certificate # NoCertificate => VerifyIntegrity)
  BY StoredHolds
<1> QED
  BY <1>1, BulletinInvariant, PTL

(* crypto.py:458-498, for boards of any size: the proof given for a ballot   *)
(* leads to the root, no other tracker passes by that proof, and no other    *)
(* board has that root, though odd nodes are paired with themselves.         *)
THEOREM BoardsAreProven == BulletinSpec => []BoardProven
  BY BoardHolds, BulletinInvariant, PTL

(* A bundle with another board, another result or another configuration      *)
(* fails in both verifiers.                                                  *)
THEOREM AlterationsFail == BulletinSpec => []AlterationsShow
  BY AlteredFails, BulletinInvariant, PTL

(* recount (results.py:290-325): it counts the ballots the official result   *)
(* counted, and differs only where the roll changed since.                   *)
THEOREM RecountsAreTrue == BulletinSpec => []RecountsAgree
<1>1. BulletinInv => RecountsAgree
  BY DEF BulletinInv
<1> QED
  BY <1>1, BulletinInvariant, PTL

(* split_secret and combine_shares (crypto.py:405-450), over any prime field: *)
(* whichever trustees bring enough shares, the key comes out, and it is the   *)
(* one that was split.                                                        *)
THEOREM SharesGiveTheKey == BulletinSpec => []SharesRecover
<1>1. BulletinSpec => []Drawn
  BY InitDrawn, DrawnKept, PTL DEF BulletinSpec
<1> QED
  BY <1>1, DrawnRecovers, PTL

(* All of what Bulletin promises to voters, observers and trustees.           *)
THEOREM VerificationStands == BulletinSpec => []VerificationHolds
<1>1. BulletinInv /\ SharesRecover => VerificationHolds
  <2>1. BulletinInv => RecountsAgree
    BY DEF BulletinInv
  <2> QED
    BY <2>1, Verifies, StoredHolds, BoardHolds, AlteredFails DEF VerificationHolds
<1> QED
  BY <1>1, BulletinInvariant, SharesGiveTheKey, PTL
=============================================================================
