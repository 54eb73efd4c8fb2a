--------------------------- MODULE Casting_proofs ---------------------------
(***************************************************************************)
(* What TLAPS proves about Casting and about Roll, for every number of     *)
(* people, tokens, requests, units, addresses and files, every bound and   *)
(* both kinds of roll.                                                     *)
(*                                                                         *)
(* Casting: one inductive invariant carries all of it.  The type invariant *)
(* does not say that a cast still owns the row it locked, nor the box that *)
(* its tokens were consumed, and without these a step of CastCommit could  *)
(* break anything.                                                         *)
(*                                                                         *)
(* Roll (from "Roll: the tree of units" on): the tree is kept because each *)
(* path is the parents written out; the rows, because what a clerk loaded  *)
(* is what the rows still say as long as the queue runs one task a time.   *)
(***************************************************************************)
EXTENDS Casting, Roll, FiniteSetTheorems, SequenceTheorems, TLAPS

(* An authorization that was drawn belongs to a person. *)
Owned == \A t \in Tokens : auth[t].status # "NONE" => auth[t].voter \in Voters

(* A cast in progress holds an ISSUED row, and works for its owner. *)
CastsHold == \A r \in Requests : req[r].op = "cast" =>
                /\ req[r].token \in Tokens
                /\ auth[req[r].token].status = "ISSUED"
                /\ req[r].voter = auth[req[r].token].voter

(* The row lock: no two casts hold one row. *)
CastsApart == \A r1, r2 \in Requests :
    (req[r1].op = "cast" /\ req[r2].op = "cast" /\ req[r1].token = req[r2].token) => r1 = r2

(* One unused authorization per voter. *)
OneIssued == \A t1, t2 \in Tokens :
    (auth[t1].status = "ISSUED" /\ auth[t2].status = "ISSUED" /\ auth[t1].voter = auth[t2].voter)
        => t1 = t2

(* One used authorization per voter. *)
OneConsumed == \A t1, t2 \in Tokens :
    (auth[t1].status = "CONSUMED" /\ auth[t2].status = "CONSUMED" /\ auth[t1].voter = auth[t2].voter)
        => t1 = t2

(* While the roll is frozen nothing imports, removes or deletes. *)
RollHandlers == {"import", "remove", "removeRow", "clearRows"}
Frozen == RollFrozen => /\ \A r \in Requests : req[r].op \notin RollHandlers
                        /\ \A t \in Tokens : auth[t].status # "DELETED"

(* Requests that work for a person name one. *)
Named == \A r \in Requests :
            req[r].op \notin {"idle", "clearRows"} => req[r].voter \in Voters

IInv ==
    /\ TypeOK
    /\ Owned
    /\ CastsHold
    /\ CastsApart
    /\ OneIssued
    /\ OneConsumed
    /\ BoxCoversRegister
    /\ Frozen
    /\ Named

-----------------------------------------------------------------------------
(* The initial state: nothing drawn, nothing cast. *)
LEMMA InitInv == Init => IInv
  BY CastingAssumption, SMTT(30)
  DEF Init, IInv, TypeOK, Owned, CastsHold, CastsApart, OneIssued, OneConsumed,
      BoxCoversRegister, Frozen, Named, RollHandlers, EventStatus, VoterRow, VoterStatus,
      CanVote, Barred, Authorization, AuthStatus, Request, Ops, Idle, NoRow

(* Whatever takes no row lock and leaves authorizations and ballots alone    *)
(* (the reads, the status writes, abandoned requests) keeps the box's part.  *)
LEMMA QuietRequest ==
  ASSUME IInv, NEW r \in Requests, NEW q, q.op # "cast",
         req' = [req EXCEPT ![r] = q], UNCHANGED <<auth, ballots>>
  PROVE  Owned' /\ CastsHold' /\ CastsApart' /\ OneIssued' /\ OneConsumed' /\ BoxCoversRegister'
  BY DEF IInv, TypeOK, Owned, CastsHold, CastsApart, OneIssued, OneConsumed, BoxCoversRegister,
         Request

(* Revoking the unused authorizations of one voter disturbs no cast, because *)
(* the statement waits for the row lock, and brings nothing back to life.    *)
LEMMA RevokeKeeps ==
  ASSUME IInv, NEW v \in Voters, CanRevoke(v), auth' = Revoked(v), ballots' = ballots,
         \/ req' = req
         \/ \E r \in Requests, q \in Request : q.op # "cast" /\ req' = [req EXCEPT ![r] = q]
  PROVE  Owned' /\ CastsHold' /\ CastsApart' /\ OneIssued' /\ OneConsumed' /\ BoxCoversRegister'
<1>1. \A t \in Tokens :
        /\ auth'[t].voter = auth[t].voter
        /\ auth'[t].status = auth[t].status
              \/ /\ auth[t].status = "ISSUED" /\ auth'[t].status = "REVOKED" /\ ~Locked(t)
  BY DEF IInv, TypeOK, Authorization, Revoked, HeldBy, CanRevoke
<1>2. \A r \in Requests : req'[r].op = "cast" => req'[r] = req[r]
  BY DEF IInv, TypeOK
<1>3. Owned' /\ OneIssued' /\ OneConsumed'
  BY <1>1 DEF IInv, Owned, OneIssued, OneConsumed
<1>4. BoxCoversRegister'
  BY <1>1 DEF IInv, BoxCoversRegister
<1>5. CastsHold' /\ CastsApart'
  BY <1>1, <1>2 DEF IInv, CastsHold, CastsApart, Locked
<1>6. QED
  BY <1>3, <1>4, <1>5

(* Revoking one voter's unused authorizations, row by row. *)
LEMMA Revoking ==
  ASSUME TypeOK, NEW v
  PROVE  /\ Revoked(v) \in [Tokens -> Authorization]
         /\ \A u \in Tokens :
              /\ Revoked(v)[u].voter = auth[u].voter
              /\ Revoked(v)[u].status = IF auth[u].voter = v /\ auth[u].status = "ISSUED"
                                        THEN "REVOKED" ELSE auth[u].status
  BY DEF TypeOK, Revoked, HeldBy, Authorization, AuthStatus

(* A new plaintext code is stored: the roll keeps its shape. *)
LEMMA CodeStored ==
  ASSUME TypeOK, NEW v
  PROVE  [roll EXCEPT ![v].code = TRUE] \in [Voters -> VoterRow]
<1>1. roll \in [Voters -> VoterRow]
  BY DEF TypeOK
<1>2. CASE v \in Voters
  <2>1. roll[v] \in VoterRow
    BY <1>1, <1>2
  <2>2. [roll[v] EXCEPT !.code = TRUE] \in VoterRow
    BY <2>1 DEF VoterRow
  <2>3. [roll EXCEPT ![v].code = TRUE] = [roll EXCEPT ![v] = [roll[v] EXCEPT !.code = TRUE]]
    BY <1>1, <1>2
  <2>4. QED
    BY <1>1, <2>2, <2>3
<1>3. CASE v \notin Voters
  BY <1>1, <1>3
<1>4. QED
  BY <1>2, <1>3

(* Consuming one authorization: what the row and the others become. *)
LEMMA Consuming ==
  ASSUME TypeOK, NEW t \in Tokens, auth' = [auth EXCEPT ![t].status = "CONSUMED"]
  PROVE  /\ auth' \in [Tokens -> Authorization]
         /\ \A u \in Tokens : auth'[u].voter = auth[u].voter
         /\ auth'[t].status = "CONSUMED"
         /\ \A u \in Tokens \ {t} : auth'[u].status = auth[u].status
  BY DEF TypeOK, Authorization, AuthStatus

(* The type invariant, and that a request works for a person. *)
LEMMA TypeStep == IInv /\ [Next]_vars => TypeOK' /\ Named'
<1> SUFFICES ASSUME IInv, [Next]_vars PROVE TypeOK' /\ Named'
  OBVIOUS
<1> USE DEF IInv, TypeOK, Named
<1>1. CASE UNCHANGED vars
  BY <1>1 DEF vars
<1>2. ASSUME NEW r \in Requests, Starts(r) PROVE TypeOK' /\ Named'
  <2> USE DEF Request, Ops, VoterRow, VoterStatus, CanVote, Barred, NoRow, Idle, Doing, Begin
  <2>1. ASSUME NEW t \in Tokens, CastLock(r, t) PROVE TypeOK' /\ Named'
    BY <2>1 DEF CastLock, Owned, Authorization
  <2>2. ASSUME NEW v \in Voters, IssueStart(r, v) PROVE TypeOK' /\ Named'
    BY <2>2 DEF IssueStart
  <2>3. ASSUME NEW v \in Voters, OtpVerify(r, v) PROVE TypeOK' /\ Named'
    BY <2>3 DEF OtpVerify
  <2>4. ASSUME NEW v \in Voters, NEW s \in OfficialStatuses, SetStatusCheck(r, v, s)
        PROVE TypeOK' /\ Named'
    BY <2>4, CastingAssumption DEF SetStatusCheck
  <2>5. ASSUME NEW v \in Voters, ResetCheck(r, v) PROVE TypeOK' /\ Named'
    BY <2>5 DEF ResetCheck
  <2>6. ASSUME NEW v \in Voters, ImportRead(r, v) PROVE TypeOK' /\ Named'
    BY <2>6 DEF ImportRead
  <2>7. ASSUME NEW v \in Voters, RemoveCheck(r, v) PROVE TypeOK' /\ Named'
    BY <2>7 DEF RemoveCheck
  <2>8. CASE ClearAuthorizations(r)
    BY <2>8 DEF ClearAuthorizations, Authorization, AuthStatus
  <2>9. QED
    BY <1>2, <2>1, <2>2, <2>3, <2>4, <2>5, <2>6, <2>7, <2>8 DEF Starts
<1>3. ASSUME NEW r \in Requests, Continues(r) PROVE TypeOK' /\ Named'
  <2> USE DEF Request, Ops, VoterRow, VoterStatus, CanVote, Barred, NoRow, Idle, Doing, End
  <2>1. CASE IssueCommit(r)
    <3>1. Expiry \in 0..EndDate
      BY CastingAssumption DEF Expiry
    <3>2. Revoked(req[r].voter) \in [Tokens -> Authorization]
      BY Revoking
    <3>3. auth' \in [Tokens -> Authorization]
      BY <2>1, <3>1, <3>2 DEF IssueCommit, Authorization, AuthStatus
    <3>4. QED
      BY <2>1, <3>3 DEF IssueCommit
  <2>2. CASE OtpSave(r)
    BY <2>2 DEF OtpSave
  <2>3. CASE CastCommit(r)
    <3>1. req[r].token \in Tokens /\ ballots[req[r].token] = 0
      BY <2>3 DEF CastCommit, CastsHold, BoxCoversRegister
    <3>2. auth' \in [Tokens -> Authorization]
      BY <2>3, <3>1, Consuming DEF CastCommit
    <3>3. ballots' \in [Tokens -> 0..1]
      BY <2>3, <3>1 DEF CastCommit
    <3>4. QED
      BY <2>3, <3>2, <3>3 DEF CastCommit
  <2>4. CASE SetStatusSave(r)
    BY <2>4 DEF SetStatusSave
  <2>5. CASE SetStatusRevoke(r)
    BY <2>5, Revoking DEF SetStatusRevoke
  <2>6. CASE ResetCommit(r)
    <3>1. auth' \in [Tokens -> Authorization]
      BY <2>6, Revoking DEF ResetCommit
    <3>2. roll' \in [Voters -> VoterRow]
      <4>1. roll' = [roll EXCEPT ![req[r].voter].code = TRUE]
        BY <2>6 DEF ResetCommit
      <4>2. TypeOK
        BY DEF IInv
      <4>3. QED
        BY <4>1, <4>2, CodeStored
    <3>3. QED
      BY <2>6, <3>1, <3>2 DEF ResetCommit
  <2>7. CASE ImportSave(r)
    BY <2>7 DEF ImportSave
  <2>8. CASE RemoveAuthorizations(r)
    BY <2>8 DEF RemoveAuthorizations, Authorization, AuthStatus
  <2>9. CASE RemoveRow(r)
    BY <2>9 DEF RemoveRow
  <2>10. CASE ClearRows(r)
    BY <2>10 DEF ClearRows
  <2>11. CASE Abandon(r)
    BY <2>11 DEF Abandon
  <2>12. QED
    BY <1>3, <2>1, <2>2, <2>3, <2>4, <2>5, <2>6, <2>7, <2>8, <2>9, <2>10, <2>11 DEF Continues
<1>4. ASSUME NEW v \in Voters, ResendCode(v) PROVE TypeOK' /\ Named'
  BY <1>4, Revoking DEF ResendCode, VoterRow
<1>5. ASSUME NEW v \in Voters, ImportCreate(v) PROVE TypeOK' /\ Named'
  BY <1>5 DEF ImportCreate, VoterRow, VoterStatus, CanVote
<1>6. CASE ExpireAuthorizations
  BY <1>6 DEF ExpireAuthorizations, Authorization, AuthStatus
<1>7. CASE Election
  <2>1. status' \in EventStatus
    BY <1>7 DEF Election, Pause, Resume, Close, Tick, StartTally, CountBallots, Certify,
                EventStatus
  <2>2. counted' = counted \/ CountBallots
    BY <1>7 DEF Election, Pause, Resume, Close, Tick, StartTally, Certify
  <2>3. counted' \in [done : BOOLEAN, trackers : SUBSET Tokens]
    <3>1. CASE CountBallots
      <4> DEFINE found == {t \in Tokens : ballots[t] > 0}
      <4>1. found \in SUBSET Tokens
        OBVIOUS
      <4>2. counted' = [done |-> TRUE, trackers |-> found]
        BY <3>1 DEF CountBallots
      <4> HIDE DEF found
      <4>3. QED
        BY <4>1, <4>2
    <3>2. QED
      BY <3>1, <2>2
  <2>4. UNCHANGED <<now, roll, auth, ballots, req>>
    BY <1>7 DEF Election, Pause, Resume, Close, Tick, StartTally, CountBallots, Certify
  <2>5. QED
    BY <2>1, <2>3, <2>4
<1>8. CASE ClockTick
  BY <1>8, CastingAssumption DEF ClockTick
<1>9. QED
  BY <1>1, <1>2, <1>3, <1>4, <1>5, <1>6, <1>7, <1>8 DEF Next

(* A frozen roll stays frozen: no handler that edits it can start.           *)
LEMMA FrozenStep == IInv /\ [Next]_vars => Frozen'
<1> SUFFICES ASSUME IInv, [Next]_vars, RollFrozen PROVE Frozen'
  BY DEF Frozen
<1> USE DEF IInv, TypeOK, Frozen, RollHandlers
<1>1. ~RollEditable
  BY DEF RollEditable
<1>2. CASE UNCHANGED vars
  BY <1>2 DEF vars
<1>3. ASSUME NEW r \in Requests, Starts(r) PROVE Frozen'
  BY <1>1, <1>3 DEF Starts, CastLock, IssueStart, OtpVerify, SetStatusCheck, ResetCheck,
                    ImportRead, RemoveCheck, ClearAuthorizations, Begin, Doing
<1>4. ASSUME NEW r \in Requests, Continues(r) PROVE Frozen'
  <2>1. \A q \in Requests : req'[q].op \notin RollHandlers
    BY <1>4 DEF Continues, IssueCommit, OtpSave, CastCommit, SetStatusSave, SetStatusRevoke,
                ResetCommit, ImportSave, RemoveAuthorizations, RemoveRow, ClearRows, Abandon,
                End, Idle, Doing
  <2>2. CASE IssueCommit(r)
    BY <2>1, <2>2, Revoking DEF IssueCommit
  <2>3. CASE CastCommit(r)
    <3>1. req[r].token \in Tokens
      BY <2>3 DEF CastCommit, CastsHold
    <3>2. \A t \in Tokens : auth'[t].status # "DELETED"
      BY <2>3, <3>1, Consuming DEF CastCommit
    <3>3. QED
      BY <2>1, <3>2
  <2>4. CASE SetStatusRevoke(r) \/ ResetCommit(r)
    BY <2>1, <2>4, Revoking DEF SetStatusRevoke, ResetCommit
  <2>5. CASE OtpSave(r) \/ SetStatusSave(r) \/ Abandon(r)
    BY <2>1, <2>5 DEF OtpSave, SetStatusSave, Abandon
  <2>6. CASE ImportSave(r) \/ RemoveAuthorizations(r) \/ RemoveRow(r) \/ ClearRows(r)
    BY <2>6 DEF ImportSave, RemoveAuthorizations, RemoveRow, ClearRows
  <2>7. QED
    BY <1>4, <2>2, <2>3, <2>4, <2>5, <2>6 DEF Continues
<1>5. ASSUME NEW v \in Voters, ResendCode(v) \/ ImportCreate(v) PROVE Frozen'
  BY <1>1, <1>5, Revoking DEF ResendCode, ImportCreate
<1>6. CASE ExpireAuthorizations
  BY <1>6 DEF ExpireAuthorizations, Authorization
<1>7. CASE Election \/ ClockTick
  BY <1>7 DEF Election, Pause, Resume, Close, Tick, StartTally, CountBallots, Certify, ClockTick
<1>8. QED
  BY <1>2, <1>3, <1>4, <1>5, <1>6, <1>7 DEF Next

-----------------------------------------------------------------------------
(* The box's part of the invariant. *)
BoxInv == Owned /\ CastsHold /\ CastsApart /\ OneIssued /\ OneConsumed /\ BoxCoversRegister

(* issue_authorization: the new row is the voter's only unused one. *)
LEMMA IssueKeeps ==
  ASSUME IInv, NEW r \in Requests, IssueCommit(r)
  PROVE  BoxInv'
<1> DEFINE v == req[r].voter
<1> USE DEF IInv, TypeOK
<1>1. v \in Voters
  BY DEF IssueCommit, Named
<1>2. PICK t \in Tokens : /\ auth[t].status = "NONE"
                          /\ auth' = [Revoked(v) EXCEPT ![t] =
                               [voter |-> v, status |-> "ISSUED", expires |-> Expiry]]
  BY DEF IssueCommit
<1>3. auth'[t].voter = v /\ auth'[t].status = "ISSUED"
  BY <1>2, Revoking
<1>4. \A u \in Tokens \ {t} :
        /\ auth'[u].voter = auth[u].voter
        /\ \/ auth'[u].status = auth[u].status /\ ~(auth[u].voter = v /\ auth[u].status = "ISSUED")
           \/ /\ auth[u].voter = v /\ auth[u].status = "ISSUED"
              /\ auth'[u].status = "REVOKED" /\ ~Locked(u)
  BY <1>2, Revoking DEF IssueCommit, CanRevoke, HeldBy
<1>5. ballots' = ballots /\ req' = [req EXCEPT ![r] = Idle] /\ Idle.op = "idle"
  BY DEF IssueCommit, End, Idle
<1>6. Owned'
  BY <1>1, <1>3, <1>4 DEF Owned
<1>7. OneIssued' /\ OneConsumed'
  BY <1>3, <1>4 DEF OneIssued, OneConsumed
<1>8. BoxCoversRegister'
  BY <1>2, <1>3, <1>4, <1>5 DEF BoxCoversRegister
<1>9. CastsHold' /\ CastsApart'
  <2>1. \A q \in Requests : req'[q].op = "cast" => req'[q] = req[q] /\ req[q].token # t
    BY <1>2, <1>5 DEF CastsHold
  <2>2. QED
    BY <2>1, <1>4 DEF CastsHold, CastsApart, Locked
<1>10. QED
  BY <1>6, <1>7, <1>8, <1>9 DEF BoxInv

(* _cast, first half: the row was free, and it is the request's from here.   *)
LEMMA LockKeeps ==
  ASSUME IInv, NEW r \in Requests, NEW t \in Tokens, CastLock(r, t)
  PROVE  BoxInv'
<1> USE DEF IInv, TypeOK
<1>1. /\ req' = [req EXCEPT ![r] = [op |-> "cast", voter |-> auth[t].voter, token |-> t,
                                    seen |-> NoRow]]
      /\ auth[t].status = "ISSUED" /\ ~Locked(t)
      /\ UNCHANGED <<auth, ballots>>
  BY DEF CastLock
<1>2. Owned' /\ OneIssued' /\ OneConsumed' /\ BoxCoversRegister'
  BY <1>1 DEF Owned, OneIssued, OneConsumed, BoxCoversRegister
<1>3. CastsHold'
  BY <1>1 DEF CastsHold
<1>4. CastsApart'
  BY <1>1 DEF CastsApart, Locked
<1>5. QED
  BY <1>2, <1>3, <1>4 DEF BoxInv

(* _cast, second half: one more ballot, one more consumed row, the same row, *)
(* and the index admits it only if the voter had none.                       *)
LEMMA CastKeeps ==
  ASSUME IInv, NEW r \in Requests, CastCommit(r)
  PROVE  BoxInv'
<1> DEFINE t == req[r].token
<1> USE DEF IInv, TypeOK
<1>1. /\ t \in Tokens /\ auth[t].status = "ISSUED" /\ req[r].voter = auth[t].voter
      /\ auth' = [auth EXCEPT ![t].status = "CONSUMED"]
      /\ ballots' = [ballots EXCEPT ![t] = @ + 1]
      /\ req' = [req EXCEPT ![r] = Idle] /\ Idle.op = "idle"
      /\ \A u \in Tokens : auth[u].voter = auth[t].voter => auth[u].status # "CONSUMED"
  BY DEF CastCommit, CastsHold, End, Idle, NoneConsumed, HeldBy
<1>2. /\ auth'[t].status = "CONSUMED"
      /\ \A u \in Tokens : auth'[u].voter = auth[u].voter
      /\ \A u \in Tokens \ {t} : auth'[u].status = auth[u].status
  BY <1>1, Consuming
<1>3. Owned' /\ OneIssued' /\ OneConsumed'
  BY <1>1, <1>2 DEF Owned, OneIssued, OneConsumed
<1>4. BoxCoversRegister'
  BY <1>1, <1>2 DEF BoxCoversRegister
<1>5. \A q \in Requests : req'[q].op = "cast" => req'[q] = req[q] /\ req[q].token # t
  BY <1>1 DEF CastsApart, CastCommit
<1>6. CastsHold' /\ CastsApart'
  BY <1>2, <1>5 DEF CastsHold, CastsApart
<1>7. QED
  BY <1>3, <1>4, <1>6 DEF BoxInv

(* Housekeeping, remove_voter and clear_unvoted: rows nobody holds leave the *)
(* life cycle; used ones only by deletion, which leaves the ballot there.    *)
LEMMA RetireKeeps ==
  ASSUME IInv, NEW D \in SUBSET Tokens, NEW s \in {"DELETED", "EXPIRED"},
         \A t \in D : /\ ~Locked(t) /\ auth[t].voter \in Voters
                      /\ s = "DELETED" \/ auth[t].status = "ISSUED",
         auth' = [t \in Tokens |-> IF t \in D THEN [auth[t] EXCEPT !.status = s] ELSE auth[t]],
         ballots' = ballots,
         \/ req' = req
         \/ \E r \in Requests, q \in Request : q.op # "cast" /\ req' = [req EXCEPT ![r] = q]
  PROVE  BoxInv'
<1> USE DEF IInv, TypeOK
<1>1. \A t \in Tokens :
        /\ auth'[t].voter = auth[t].voter
        /\ \/ t \notin D /\ auth'[t].status = auth[t].status
           \/ t \in D /\ auth'[t].status = s
  BY DEF Authorization
<1>2. \A q \in Requests : req'[q].op = "cast" => req'[q] = req[q]
  OBVIOUS
<1>3. Owned' /\ OneIssued' /\ OneConsumed'
  BY <1>1 DEF Owned, OneIssued, OneConsumed
<1>4. BoxCoversRegister'
  BY <1>1 DEF BoxCoversRegister
<1>5. CastsHold' /\ CastsApart'
  BY <1>1, <1>2 DEF CastsHold, CastsApart, Locked
<1>6. QED
  BY <1>3, <1>4, <1>5 DEF BoxInv

(* Every step keeps the box's part. *)
LEMMA BoxStep == IInv /\ [Next]_vars => BoxInv'
<1> SUFFICES ASSUME IInv, [Next]_vars PROVE BoxInv'
  OBVIOUS
<1>1. TypeOK /\ TypeOK'
  BY TypeStep DEF IInv
<1>2. ASSUME UNCHANGED <<auth, ballots, req>> PROVE BoxInv'
  BY <1>2 DEF IInv, BoxInv, Owned, CastsHold, CastsApart, OneIssued, OneConsumed,
              BoxCoversRegister
<1>3. ASSUME NEW r \in Requests, NEW q, q.op # "cast", req' = [req EXCEPT ![r] = q],
             UNCHANGED <<auth, ballots>>
      PROVE  BoxInv'
  BY <1>3, QuietRequest DEF BoxInv
<1>4. ASSUME NEW r \in Requests, Starts(r) PROVE BoxInv'
  <2>1. ASSUME NEW t \in Tokens, CastLock(r, t) PROVE BoxInv'
    BY <2>1, LockKeeps
  <2>2. CASE ClearAuthorizations(r)
    <3> DEFINE gone == {t \in Tokens : /\ auth[t].voter \in NotVoted
                                       /\ auth[t].status \notin {"CONSUMED", "DELETED"}}
    <3>1. /\ \A t \in gone : ~Locked(t) /\ auth[t].voter \in Voters
          /\ auth' = [t \in Tokens |-> IF t \in gone THEN [auth[t] EXCEPT !.status = "DELETED"]
                                                       ELSE auth[t]]
          /\ ballots' = ballots
      BY <2>2 DEF ClearAuthorizations, NotVoted
    <3>2. \E q \in Request : q.op # "cast" /\ req' = [req EXCEPT ![r] = q]
      BY <2>2, <1>1 DEF ClearAuthorizations, Begin, Doing, Request, Ops, NoRow, VoterRow,
                        VoterStatus, TypeOK
    <3>3. QED
      BY <3>1, <3>2, RetireKeeps
  <2>3. ASSUME NEW v \in Voters,
               \/ IssueStart(r, v) \/ OtpVerify(r, v) \/ ResetCheck(r, v) \/ ImportRead(r, v)
               \/ RemoveCheck(r, v) \/ \E s \in OfficialStatuses : SetStatusCheck(r, v, s)
        PROVE  BoxInv'
    <3>1. /\ UNCHANGED <<auth, ballots>>
          /\ \E op \in Ops \ {"cast"} : \E row : req' = [req EXCEPT ![r] = Doing(op, v, row)]
      BY <2>3 DEF IssueStart, OtpVerify, ResetCheck, ImportRead, RemoveCheck, SetStatusCheck,
                  Begin, Ops
    <3>2. QED
      BY <3>1, <1>3 DEF Doing
  <2>4. QED
    BY <1>4, <2>1, <2>2, <2>3 DEF Starts
<1>5. ASSUME NEW r \in Requests, Continues(r) PROVE BoxInv'
  <2>1. CASE IssueCommit(r)
    BY <2>1, IssueKeeps
  <2>2. CASE CastCommit(r)
    BY <2>2, CastKeeps
  <2>3. CASE SetStatusRevoke(r) \/ ResetCommit(r)
    <3> DEFINE v == req[r].voter
    <3>1. v \in Voters /\ Idle \in Request /\ Idle.op # "cast"
      BY <2>3, <1>1, CastingAssumption
         DEF IInv, Named, SetStatusRevoke, ResetCommit, Idle, Request, Ops, NoRow, VoterRow,
             VoterStatus
    <3>2. /\ CanRevoke(v) /\ auth' = Revoked(v) /\ ballots' = ballots
          /\ req' = [req EXCEPT ![r] = Idle]
      BY <2>3 DEF SetStatusRevoke, ResetCommit, End
    <3>3. QED
      BY <3>1, <3>2, RevokeKeeps DEF BoxInv
  <2>4. CASE RemoveAuthorizations(r)
    <3> DEFINE v == req[r].voter
               mine == {t \in Tokens : auth[t].voter = v /\ auth[t].status # "NONE"}
    <3>1. /\ \A t \in mine : ~Locked(t) /\ auth[t].voter \in Voters
          /\ auth' = [t \in Tokens |-> IF t \in mine THEN [auth[t] EXCEPT !.status = "DELETED"]
                                                       ELSE auth[t]]
          /\ ballots' = ballots
      BY <2>4 DEF RemoveAuthorizations, IInv, Owned
    <3>2. v \in Voters
      BY <2>4 DEF RemoveAuthorizations, IInv, Named
    <3>3. \E q \in Request : q.op # "cast" /\ req' = [req EXCEPT ![r] = q]
      BY <2>4, <3>2 DEF RemoveAuthorizations, Doing, Request, Ops, NoRow, VoterRow, VoterStatus
    <3>4. QED
      BY <3>1, <3>3, RetireKeeps
  <2>5. CASE SetStatusSave(r)
    <3>1. /\ UNCHANGED <<auth, ballots>>
          /\ \E q : q.op # "cast" /\ req' = [req EXCEPT ![r] = q]
      BY <2>5 DEF SetStatusSave, Doing, Idle
    <3>2. QED
      BY <3>1, <1>3
  <2>6. CASE OtpSave(r) \/ ImportSave(r) \/ RemoveRow(r) \/ ClearRows(r) \/ Abandon(r)
    <3>1. UNCHANGED <<auth, ballots>> /\ req' = [req EXCEPT ![r] = Idle] /\ Idle.op # "cast"
      BY <2>6 DEF OtpSave, ImportSave, RemoveRow, ClearRows, Abandon, End, Idle
    <3>2. QED
      BY <3>1, <1>3
  <2>7. QED
    BY <1>5, <2>1, <2>2, <2>3, <2>4, <2>5, <2>6 DEF Continues
<1>6. ASSUME NEW v \in Voters, ResendCode(v) PROVE BoxInv'
  BY <1>6, RevokeKeeps DEF ResendCode, BoxInv
<1>7. CASE ExpireAuthorizations
  <2>1. /\ Overdue \in SUBSET Tokens /\ ballots' = ballots /\ req' = req
        /\ \A t \in Overdue : ~Locked(t) /\ auth[t].voter \in Voters /\ auth[t].status = "ISSUED"
        /\ auth' = [t \in Tokens |-> IF t \in Overdue THEN [auth[t] EXCEPT !.status = "EXPIRED"]
                                                        ELSE auth[t]]
    BY <1>7 DEF ExpireAuthorizations, Overdue, IInv, Owned
  <2>2. QED
    BY <2>1, RetireKeeps
<1>8. CASE Election \/ ClockTick \/ UNCHANGED vars \/ \E v \in Voters : ImportCreate(v)
  BY <1>8, <1>2 DEF Election, Pause, Resume, Close, Tick, StartTally, CountBallots, Certify,
                    ClockTick, vars, ImportCreate
<1>9. QED
  BY <1>4, <1>5, <1>6, <1>7, <1>8 DEF Next

(* The invariant is inductive, so every reachable state satisfies it. *)
LEMMA Invariance == Spec => []IInv
<1>1. Init => IInv
  BY InitInv
<1>2. IInv /\ [Next]_vars => IInv'
  BY TypeStep, FrozenStep, BoxStep DEF IInv, BoxInv
<1>3. QED
  BY <1>1, <1>2, PTL DEF Spec

-----------------------------------------------------------------------------
(* Every variable keeps its type; no authorization outlives the election and *)
(* no token ever yields two ballots (casting.py, issue and cast).            *)
THEOREM TypeCorrect == Spec => []TypeOK
  BY Invariance, PTL DEF IInv

(* issue_authorization and _cast: one usable token per voter, and a cast in  *)
(* progress holds one that nobody else is casting or has revoked.            *)
THEOREM LiveTokens == Spec => []OneLiveToken
<1>1. IInv => OneLiveToken
  BY DEF IInv, OneLiveToken, OneIssued, CastsHold, CastsApart
<1>2. QED
  BY Invariance, <1>1, PTL

(* Whatever officials may edit, no ballot is there without the consumption   *)
(* of its token, and no consumed token without its ballot.                   *)
THEOREM BoxCovered == Spec => []BoxCoversRegister
  BY Invariance, PTL DEF IInv

(* With the roll frozen the box and the register of participation agree.     *)
THEOREM BoxMatches ==
  ASSUME RollFrozen
  PROVE  Spec => []BoxMatchesRegister
<1>1. IInv => BoxMatchesRegister
  BY DEF IInv, TypeOK, BoxCoversRegister, Frozen, BoxMatchesRegister
<1>2. QED
  BY Invariance, <1>1, PTL

(* With the roll frozen nobody has two ballots in the box, even when the     *)
(* VOTED status was overwritten by an official or a sign-in that raced the   *)
(* cast: the partial unique index stands behind the status check.            *)
THEOREM OneBallot ==
  ASSUME RollFrozen
  PROVE  Spec => []OneBallotPerVoter
<1>1. IInv => OneBallotPerVoter
  BY DEF IInv, OneConsumed, BoxCoversRegister, Frozen, OneBallotPerVoter
<1>2. QED
  BY Invariance, <1>1, PTL

(* Only CastCommit adds a ballot.                                            *)
LEMMA OnlyCastsAdd ==
  ASSUME [Next]_vars, \A r \in Requests : ~CastCommit(r)
  PROVE  ballots' = ballots
  BY DEF Next, vars, Starts, Continues, Election, CastLock, IssueStart, OtpVerify, SetStatusCheck,
         ResetCheck, ImportRead, RemoveCheck, ClearAuthorizations, IssueCommit, OtpSave,
         SetStatusSave, SetStatusRevoke, ResetCommit, ImportSave, RemoveAuthorizations, RemoveRow,
         ClearRows, Abandon, ResendCode, ImportCreate, ExpireAuthorizations, Pause, Resume, Close,
         Tick, StartTally, CountBallots, Certify, ClockTick

(* _cast: no ballot of a voter whose suspension is committed enters the box, *)
(* even from a cast that was under way or with a token drawn before.         *)
THEOREM BarredVoters == Spec => NoBallotFromBarredVoter
<1> DEFINE Step == \A t \in Tokens : ballots'[t] # ballots[t] =>
                     roll[auth[t].voter].status \notin Barred \cup {"REMOVED"}
<1>1. IInv /\ [Next]_vars => [Step]_vars
  <2> SUFFICES ASSUME IInv, [Next]_vars, NEW t \in Tokens, ballots'[t] # ballots[t]
               PROVE  roll[auth[t].voter].status \notin Barred \cup {"REMOVED"}
    OBVIOUS
  <2>1. PICK r \in Requests : CastCommit(r)
    BY OnlyCastsAdd
  <2>2. t = req[r].token /\ req[r].voter = auth[t].voter
    BY <2>1 DEF CastCommit, IInv, TypeOK, CastsHold
  <2>3. QED
    BY <2>1, <2>2 DEF CastCommit, MayVote, CanVote, Barred
<1>2. QED
  BY Invariance, <1>1, PTL DEF Spec, NoBallotFromBarredVoter

(* Casting implements OneVote: under a frozen roll every step adds one       *)
(* person and one ballot together, or nothing.                               *)
THEOREM Refinement ==
  ASSUME RollFrozen
  PROVE  Spec => ImplementsOneVote
<1>1. Init => OV!Init
  BY DEF Init, OV!Init, VotedPeople, Box
<1>2. IInv /\ [Next]_vars => [OV!Next]_(OV!vars)
  <2> SUFFICES ASSUME IInv, [Next]_vars PROVE [OV!Next]_(OV!vars)
    OBVIOUS
  <2>1. \A t \in Tokens : ballots[t] > 0 <=> auth[t].status = "CONSUMED"
    BY DEF IInv, TypeOK, BoxCoversRegister, Frozen
  <2>2. ASSUME NEW r \in Requests, CastCommit(r) PROVE OV!Next
    <3> DEFINE t == req[r].token
               v == auth[t].voter
    <3>1. t \in Tokens /\ auth[t].status = "ISSUED" /\ req[r].voter = v /\ v \in Voters
      BY <2>2 DEF CastCommit, IInv, CastsHold, Owned
    <3>2. /\ ballots' = [ballots EXCEPT ![t] = @ + 1] /\ ballots[t] = 0
          /\ auth' = [auth EXCEPT ![t].status = "CONSUMED"]
      BY <2>1, <2>2, <3>1 DEF CastCommit, IInv, TypeOK
    <3>3. \A u \in Tokens : auth'[u].voter = auth[u].voter
      BY <3>1, <3>2, Consuming DEF IInv
    <3>4. \A u \in Tokens : ballots'[u] > 0 <=> (ballots[u] > 0 \/ u = t)
      BY <3>1, <3>2 DEF IInv, TypeOK
    <3>5. v \notin VotedPeople
      BY <2>1, <2>2, <3>1 DEF VotedPeople, CastCommit, NoneConsumed, HeldBy
    <3>6. t \notin Box /\ Box' = Box \cup {t}
      BY <3>1, <3>2, <3>4 DEF Box
    <3>7. VotedPeople' = VotedPeople \cup {v}
      BY <3>1, <3>3, <3>4 DEF VotedPeople
    <3>8. OV!Vote(v, t)
      BY <3>5, <3>6, <3>7 DEF OV!Vote
    <3>9. QED
      BY <3>1, <3>8 DEF OV!Next
  <2>3. ASSUME \A r \in Requests : ~CastCommit(r) PROVE UNCHANGED OV!vars
    <3>1. ballots' = ballots
      BY <2>3, OnlyCastsAdd
    <3>2. \A t \in Tokens : ballots[t] > 0 => auth'[t].voter = auth[t].voter
      <4> SUFFICES ASSUME NEW t \in Tokens, ballots[t] > 0 PROVE auth'[t].voter = auth[t].voter
        OBVIOUS
      <4>1. auth[t].status = "CONSUMED"
        BY <2>1
      <4>2. TypeOK
        BY DEF IInv
      <4>3. CASE UNCHANGED auth
        BY <4>3
      <4>4. ASSUME NEW v, auth' = Revoked(v) PROVE auth'[t].voter = auth[t].voter
        BY <4>2, <4>4, Revoking
      <4>5. ASSUME NEW r \in Requests, IssueCommit(r) PROVE auth'[t].voter = auth[t].voter
        BY <4>1, <4>2, <4>5, Revoking DEF IssueCommit, TypeOK
      <4>6. ASSUME NEW D, NEW s,
                   auth' = [u \in Tokens |-> IF u \in D THEN [auth[u] EXCEPT !.status = s]
                                                        ELSE auth[u]]
            PROVE  auth'[t].voter = auth[t].voter
        BY <4>2, <4>6 DEF TypeOK, Authorization
      <4>7. CASE \E r \in Requests : Starts(r)
        <5>1. ASSUME NEW r \in Requests, ClearAuthorizations(r)
              PROVE  auth'[t].voter = auth[t].voter
          BY <4>6, <5>1 DEF ClearAuthorizations
        <5>2. QED
          BY <4>3, <4>7, <5>1 DEF Starts, CastLock, IssueStart, OtpVerify, SetStatusCheck,
                ResetCheck, ImportRead, RemoveCheck
      <4>8. CASE \E r \in Requests : Continues(r)
        <5>1. ASSUME NEW r \in Requests, RemoveAuthorizations(r)
              PROVE  auth'[t].voter = auth[t].voter
          BY <4>6, <5>1 DEF RemoveAuthorizations
        <5>2. ASSUME NEW r \in Requests, SetStatusRevoke(r) \/ ResetCommit(r)
              PROVE  auth'[t].voter = auth[t].voter
          BY <4>4, <5>2 DEF SetStatusRevoke, ResetCommit
        <5>3. QED
          BY <2>3, <4>3, <4>5, <4>8, <5>1, <5>2 DEF Continues, OtpSave, SetStatusSave,
                ImportSave, RemoveRow, ClearRows, Abandon
      <4>9. CASE \E v \in Voters : ResendCode(v) \/ ImportCreate(v)
        BY <4>3, <4>4, <4>9 DEF ResendCode, ImportCreate
      <4>10. CASE ExpireAuthorizations
        BY <4>6, <4>10 DEF ExpireAuthorizations
      <4>11. CASE Election \/ ClockTick \/ UNCHANGED vars
        BY <4>3, <4>11 DEF Election, Pause, Resume, Close, Tick, StartTally, CountBallots,
              Certify, ClockTick, vars
      <4>12. QED
        BY <4>7, <4>8, <4>9, <4>10, <4>11 DEF Next
    <3>3. Box' = Box
      BY <3>1 DEF Box
    <3>4. VotedPeople' = VotedPeople
      BY <3>1, <3>2 DEF VotedPeople
    <3>5. QED
      BY <3>3, <3>4 DEF OV!vars
  <2>4. QED
    BY <2>2, <2>3
<1>3. QED
  BY Invariance, <1>1, <1>2, PTL DEF Spec, ImplementsOneVote, OV!Spec

-----------------------------------------------------------------------------
(* Roll: the tree of units.                                                  *)

KnownIn(t) == {u \in Units : t[u] # NoUnit}

(* A path leads from the top to the unit over its parents: each unit on it   *)
(* has the path so far.                                                      *)
Leads(t, u) ==
    LET s == t[u].path IN
    /\ Len(s) > 0 /\ s[Len(s)] = u
    /\ t[u].parent = IF Len(s) = 1 THEN None ELSE s[Len(s) - 1]
    /\ \A i \in 1..Len(s) : /\ s[i] \in KnownIn(t) /\ Len(t[s[i]].path) = i
                            /\ \A j \in 1..i : t[s[i]].path[j] = s[j]
TreeHolds(t) == t \in [Units -> UnitRow] /\ \A u \in KnownIn(t) : Leads(t, u)

LEMMA PrefixIs ==
  ASSUME NEW S, NEW s \in Seq(S), NEW t \in Seq(S)
  PROVE  IsPrefix(s, t) <=> Len(s) <= Len(t) /\ \A i \in 1..Len(s) : s[i] = t[i]
<1>1. Len(s) \in Nat /\ Len(t) \in Nat
  OBVIOUS
<1>2. CASE Len(s) <= Len(t)
  <2>1. SubSeq(s, 1, Len(s)) = [i \in 1..Len(s) |-> s[i]]
    BY <1>1
  <2>2. SubSeq(t, 1, Len(s)) = [i \in 1..Len(s) |-> t[i]]
    BY <1>1, <1>2
  <2> QED
    BY <1>2, <2>1, <2>2 DEF IsPrefix
<1>3. CASE ~(Len(s) <= Len(t))
  BY <1>3 DEF IsPrefix
<1> QED
  BY <1>2, <1>3

(* Within: one unit is on the other's path. *)
LEMMA OnPath ==
  ASSUME NEW t, TreeHolds(t), NEW u \in KnownIn(t), NEW v \in KnownIn(t)
  PROVE  /\ IsPrefix(t[v].path, t[u].path)
              <=> Len(t[v].path) <= Len(t[u].path) /\ t[u].path[Len(t[v].path)] = v
         /\ IsPrefix(t[v].path, t[u].path) <=> \E i \in 1..Len(t[u].path) : t[u].path[i] = v
<1>1. /\ t[u].path \in Seq(Units) /\ t[v].path \in Seq(Units)
      /\ Len(t[u].path) \in Nat /\ Len(t[v].path) \in Nat
  BY DEF TreeHolds, UnitRow, KnownIn
<1>2. Leads(t, u) /\ Leads(t, v)
  BY DEF TreeHolds
<1>3. ASSUME IsPrefix(t[v].path, t[u].path)
      PROVE  Len(t[v].path) <= Len(t[u].path) /\ t[u].path[Len(t[v].path)] = v
  BY <1>1, <1>2, <1>3, PrefixIs DEF Leads
<1>4. ASSUME NEW i \in 1..Len(t[u].path), t[u].path[i] = v
      PROVE  IsPrefix(t[v].path, t[u].path) /\ i = Len(t[v].path)
  <2>1. Len(t[v].path) = i /\ \A j \in 1..i : t[v].path[j] = t[u].path[j]
    BY <1>2, <1>4 DEF Leads
  <2>2. PICK s \in Seq(Units), r \in Seq(Units) : s = t[v].path /\ r = t[u].path
    BY <1>1
  <2>3. Len(s) = i /\ Len(s) <= Len(r) /\ \A j \in 1..Len(s) : s[j] = r[j]
    <3>1. i <= Len(r)
      BY <1>1, <2>2
    <3> QED
      BY <2>1, <2>2, <3>1
  <2>4. IsPrefix(s, r)
    BY <2>3, PrefixIs
  <2> QED
    BY <2>1, <2>2, <2>4
<1>5. Len(t[v].path) > 0
  BY <1>2, ZenonT(20) DEF Leads
<1> QED
  BY <1>1, <1>3, <1>4, <1>5

(* A unit on the way to another is under whatever it is under.               *)
LEMMA WayUp ==
  ASSUME NEW t, TreeHolds(t), NEW w \in KnownIn(t), NEW i \in 1..Len(t[w].path), NEW u \in KnownIn(t),
         IsPrefix(t[u].path, t[t[w].path[i]].path)
  PROVE  IsPrefix(t[u].path, t[w].path)
<1>0. Len(t[w].path) \in Nat /\ Len(t[u].path) \in Nat
  BY DEF TreeHolds, UnitRow, KnownIn
<1>1. PICK x \in KnownIn(t) : x = t[w].path[i]
  BY DEF TreeHolds, Leads
<1>2. Len(t[x].path) = i /\ \A j \in 1..i : t[x].path[j] = t[w].path[j]
  <2>1. Leads(t, w)
    BY DEF TreeHolds
  <2> QED
    BY <1>1, <2>1 DEF Leads
<1>3. Len(t[u].path) <= i /\ t[x].path[Len(t[u].path)] = u
  <2>1. IsPrefix(t[u].path, t[x].path)
    BY <1>1
  <2>2. Len(t[u].path) <= Len(t[x].path) /\ t[x].path[Len(t[u].path)] = u
    BY <2>1, OnPath
  <2> QED
    BY <1>2, <2>2
<1>4. Len(t[u].path) > 0
  BY DEF TreeHolds, Leads
<1>5. Len(t[u].path) \in 1..i
  BY <1>0, <1>3, <1>4
<1>6. t[w].path[Len(t[u].path)] = u
  BY <1>2, <1>3, <1>5
<1>7. Len(t[u].path) \in 1..Len(t[w].path)
  BY <1>0, <1>5
<1> QED
  BY <1>6, <1>7, OnPath

LEMMA Handed ==
  ASSUME NEW S, NEW s \in Seq(S), NEW p \in Seq(S), NEW n \in Nat, n <= Len(s),
         NEW r, r = p \o SubSeq(s, n + 1, Len(s))
  PROVE  /\ r \in Seq(S) /\ Len(r) = Len(p) + (Len(s) - n)
         /\ \A i \in 1..Len(p) : r[i] = p[i]
         /\ \A i \in Len(p) + 1..Len(r) : r[i] = s[n + i - Len(p)]
<1> DEFINE q == SubSeq(s, n + 1, Len(s))
<1>1. q \in Seq(S) /\ Len(q) = Len(s) - n /\ \A i \in 1..Len(q) : q[i] = s[n + i]
  OBVIOUS
<1> HIDE DEF q
<1>3. Len(p) \in Nat /\ Len(q) \in Nat /\ Len(s) \in Nat
  BY <1>1
<1>2. /\ p \o q \in Seq(S) /\ Len(p \o q) = Len(p) + Len(q)
      /\ \A i \in 1..Len(p) + Len(q) : (p \o q)[i] = IF i <= Len(p) THEN p[i] ELSE q[i - Len(p)]
  <2>1. q \in Seq(S)
    BY <1>1
  <2> QED
    BY <2>1, ConcatProperties
<1>4. \A i \in 1..Len(p) : (p \o q)[i] = p[i]
  BY <1>2, <1>3
<1>5. ASSUME NEW i \in Len(p) + 1..Len(p \o q) PROVE (p \o q)[i] = s[n + i - Len(p)]
  <2>1. i \in 1..Len(p) + Len(q) /\ ~(i <= Len(p)) /\ i - Len(p) \in 1..Len(q)
    BY <1>2, <1>3, <1>5
  <2>2. (p \o q)[i] = q[i - Len(p)] /\ q[i - Len(p)] = s[n + (i - Len(p))]
    BY <1>1, <1>2, <2>1
  <2>3. n + (i - Len(p)) = n + i - Len(p)
    BY <1>3
  <2> QED
    BY <2>2, <2>3
<1> QED
  BY <1>1, <1>2, <1>4, <1>5 DEF q

(* The same path over the same units is a way in another tree, too. *)
LEMMA SameWay ==
  ASSUME NEW t, NEW s, NEW u, Leads(t, u), s[u] = t[u], Len(t[u].path) \in Nat,
         \A i \in 1..Len(t[u].path) : t[u].path[i] \in KnownIn(s) /\ s[t[u].path[i]] = t[t[u].path[i]]
  PROVE  Leads(s, u)
  BY DEF Leads

(* What a path must be to lead to its unit. *)
Way(t, u, way) ==
    /\ Len(way) > 0 /\ way[Len(way)] = u
    /\ t[u].parent = IF Len(way) = 1 THEN None ELSE way[Len(way) - 1]
    /\ \A i \in 1..Len(way) : /\ way[i] \in KnownIn(t) /\ Len(t[way[i]].path) = i
                              /\ \A j \in 1..i : t[way[i]].path[j] = way[j]

LEMMA WayTo ==
  ASSUME NEW t, NEW u
  PROVE  Leads(t, u) <=> Way(t, u, t[u].path)
  BY DEF Leads, Way

(* A unit below the parent is led to when the parent is. *)
LEMMA OneFurther ==
  ASSUME NEW t, NEW u, NEW parent, NEW base \in Seq(Units),
         u \in KnownIn(t), t[u].parent = parent, t[u].path = Append(base, u), Len(t[u].path) = Len(base) + 1,
         parent = None => base = <<>>,
         parent # None => Leads(t, parent) /\ t[parent].path = base
  PROVE  Leads(t, u)
<1>1. Len(base) \in Nat /\ u \in Units
  BY DEF KnownIn
<1> DEFINE np == t[u].path
<1>2. np[Len(base) + 1] = u /\ \A i \in 1..Len(base) : np[i] = base[i]
  BY <1>1
<1>3. Len(np) = Len(base) + 1
  OBVIOUS
<1>4. parent = IF Len(np) = 1 THEN None ELSE np[Len(np) - 1]
  <2>1. CASE parent = None
    BY <1>3, <2>1
  <2>2. CASE parent # None
    <3>1. Len(base) > 0 /\ base[Len(base)] = parent
      BY <2>2 DEF Leads
    <3>2. Len(np) - 1 = Len(base) /\ Len(base) \in 1..Len(base) /\ Len(np) # 1
      BY <1>1, <1>3, <3>1
    <3> QED
      BY <1>2, <3>1, <3>2
  <2> QED
    BY <2>1, <2>2
<1>5. ASSUME NEW i \in 1..Len(np)
      PROVE  /\ np[i] \in KnownIn(t) /\ Len(t[np[i]].path) = i
             /\ \A j \in 1..i : t[np[i]].path[j] = np[j]
  <2>1. CASE i = Len(base) + 1
    BY <1>1, <1>2, <1>3, <2>1
  <2>2. CASE i # Len(base) + 1
    <3>1. i \in 1..Len(base) /\ parent # None
      BY <1>1, <1>3, <2>2
    <3>2. base[i] \in KnownIn(t) /\ Len(t[base[i]].path) = i /\ \A j \in 1..i : t[base[i]].path[j] = base[j]
      BY <3>1 DEF Leads
    <3>3. np[i] = base[i] /\ \A j \in 1..i : np[j] = base[j]
      BY <1>1, <1>2, <3>1
    <3> QED
      BY <3>2, <3>3
  <2> QED
    BY <2>1, <2>2
<1>6. Len(np) > 0 /\ np[Len(np)] = u
  BY <1>1, <1>2, <1>3
<1>7. t[u].path = np /\ t[u].parent = IF Len(np) = 1 THEN None ELSE np[Len(np) - 1]
  BY <1>4
<1> HIDE DEF np
<1>8. Way(t, u, np)
  <2>1. \A i \in 1..Len(np) : /\ np[i] \in KnownIn(t) /\ Len(t[np[i]].path) = i
                             /\ \A j \in 1..i : t[np[i]].path[j] = np[j]
    BY <1>5
  <2> QED
    BY <1>6, <1>7, <2>1, Zenon DEF Way
<1> QED
  BY <1>7, <1>8, WayTo

LEMMA UnitAdded ==
  ASSUME TreeHolds(tree), NEW u \in Units, NEW parent, AddUnit(u, parent)
  PROVE  TreeHolds(tree') /\ KnownIn(tree) \subseteq KnownIn(tree')
<1>0. Known = KnownIn(tree) /\ u \notin Known /\ parent \in Known \cup {None}
  BY DEF AddUnit, Known, KnownIn
<1> DEFINE base == IF parent = None THEN <<>> ELSE Path(parent)
<1>1. /\ base \in Seq(Units) /\ Len(base) \in Nat
      /\ parent = None => base = <<>>
      /\ parent # None => base = tree[parent].path /\ parent \in KnownIn(tree) /\ Leads(tree, parent)
  BY <1>0, RollAssumption DEF RollAssumption, TreeHolds, UnitRow, KnownIn, Path
<1> DEFINE row == [parent |-> parent, path |-> Append(base, u)]
<1>2. tree' = [tree EXCEPT ![u] = row]
  BY DEF AddUnit, PathUnder
<1>3. /\ row.path \in Seq(Units) /\ Len(row.path) = Len(base) + 1 /\ row.path[Len(base) + 1] = u
      /\ \A i \in 1..Len(base) : row.path[i] = base[i]
      /\ row.parent = parent
  BY <1>1
<1>4. row \in UnitRow /\ row # NoUnit
  <2>1. row.path # <<>>
    BY <1>1, <1>3
  <2> QED
    BY <1>0, <1>3, <2>1 DEF UnitRow, NoUnit, Known
<1> HIDE DEF row, base
<1>5. tree' \in [Units -> UnitRow] /\ tree'[u] = row /\ \A w \in Units : w # u => tree'[w] = tree[w]
  BY <1>2, <1>4 DEF TreeHolds
<1>6. KnownIn(tree') = KnownIn(tree) \cup {u}
  BY <1>4, <1>5 DEF KnownIn
<1>7. ASSUME NEW w \in KnownIn(tree) PROVE Leads(tree', w)
  <2>1. w # u /\ tree'[w] = tree[w] /\ Leads(tree, w)
    BY <1>0, <1>5 DEF TreeHolds, KnownIn
  <2>2. ASSUME NEW i \in 1..Len(tree[w].path)
        PROVE  tree[w].path[i] \in KnownIn(tree) /\ tree'[tree[w].path[i]] = tree[tree[w].path[i]]
    BY <1>0, <1>5, <2>1 DEF Leads, KnownIn
  <2>3. Len(tree[w].path) \in Nat
    BY DEF TreeHolds, UnitRow, KnownIn
  <2>4. \A i \in 1..Len(tree[w].path) :
           tree[w].path[i] \in KnownIn(tree') /\ tree'[tree[w].path[i]] = tree[tree[w].path[i]]
    BY <1>6, <2>2
  <2> QED
    BY <2>1, <2>3, <2>4, SameWay
<1>8. Leads(tree', u)
  <2>1. u \in KnownIn(tree') /\ tree'[u].parent = parent /\ tree'[u].path = Append(base, u)
        /\ Len(tree'[u].path) = Len(base) + 1
    BY <1>3, <1>5, <1>6 DEF row
  <2>2. ASSUME parent # None PROVE Leads(tree', parent) /\ tree'[parent].path = base
    <3>1. parent \in KnownIn(tree) /\ parent # u /\ parent \in Units
      BY <1>0, <1>1, <2>2 DEF KnownIn
    <3> QED
      BY <1>1, <1>5, <1>7, <2>2, <3>1
  <2> QED
    BY <1>1, <2>1, <2>2, OneFurther
<1> QED
  BY <1>5, <1>6, <1>7, <1>8 DEF TreeHolds

LEMMA UnitDeleted ==
  ASSUME TreeHolds(tree), NEW u \in Units, DeleteUnit(u)
  PROVE  TreeHolds(tree') /\ KnownIn(tree') = Known \ Below(u)
<1>0. Known = KnownIn(tree) /\ u \in Known /\ Below(u) \subseteq Known
  BY DEF DeleteUnit, Known, KnownIn, Below
<1>1. tree' = [w \in Units |-> IF w \in Below(u) THEN NoUnit ELSE tree[w]]
  BY DEF DeleteUnit
<1>2. tree' \in [Units -> UnitRow] /\ KnownIn(tree') = Known \ Below(u)
  <2>1. NoUnit \in UnitRow
    BY DEF NoUnit, UnitRow
  <2> QED
    BY <1>0, <1>1, <2>1 DEF TreeHolds, KnownIn, Known
<1>3. ASSUME NEW w \in KnownIn(tree') PROVE Leads(tree', w)
  <2>1. w \in KnownIn(tree) /\ w \notin Below(u) /\ tree'[w] = tree[w] /\ Leads(tree, w)
    BY <1>0, <1>1, <1>2 DEF TreeHolds, KnownIn
  <2>2. ASSUME NEW i \in 1..Len(tree[w].path)
        PROVE  tree[w].path[i] \in KnownIn(tree') /\ tree'[tree[w].path[i]] = tree[tree[w].path[i]]
    <3>1. PICK x \in KnownIn(tree) : x = tree[w].path[i]
      BY <2>1 DEF Leads
    <3>2. x \notin Below(u)
      <4>1. SUFFICES ASSUME x \in Below(u) PROVE FALSE
        OBVIOUS
      <4>2. IsPrefix(tree[u].path, tree[x].path)
        BY <4>1 DEF Below, Within, Path
      <4>3. IsPrefix(tree[u].path, tree[w].path)
        BY <1>0, <2>1, <3>1, <4>2, WayUp
      <4> QED
        BY <1>0, <2>1, <4>3 DEF Below, Within, Path
    <3> QED
      BY <1>0, <1>1, <1>2, <3>1, <3>2 DEF KnownIn
  <2>3. Len(tree[w].path) \in Nat
    BY <2>1 DEF TreeHolds, UnitRow, KnownIn
  <2> QED
    BY <2>1, <2>2, <2>3, SameWay
<1> QED
  BY <1>2, <1>3 DEF TreeHolds

LEMMA UnitMoved ==
  ASSUME TreeHolds(tree), NEW u \in Units, NEW parent, MoveUnit(u, parent)
  PROVE  TreeHolds(tree') /\ KnownIn(tree') = Known
<1>0. /\ Known = KnownIn(tree) /\ u \in KnownIn(tree) /\ parent \in KnownIn(tree) \cup {None}
      /\ parent # None => ~Within(parent, u)
  BY DEF MoveUnit, Known, KnownIn
<1>a. None \notin Units
  BY RollAssumption DEF RollAssumption
<1> DEFINE base == IF parent = None THEN <<>> ELSE Path(parent)
           np == Append(base, u)
           n == Len(tree[u].path)
           Down == {w \in KnownIn(tree) : IsPrefix(tree[u].path, tree[w].path)}
           under == [w \in Units |-> np \o SubSeq(tree[w].path, n + 1, Len(tree[w].path))]
<1>b. ASSUME NEW w \in Units
      PROVE  tree[w].path \in Seq(Units) /\ Len(tree[w].path) \in Nat /\ tree[w] \in UnitRow
  BY DEF TreeHolds, UnitRow
<1>1. /\ \A w \in Units : tree[w].path \in Seq(Units)
      /\ \A w \in Units : Len(tree[w].path) \in Nat
      /\ \A w \in Units : tree[w] \in UnitRow
  BY <1>b
<1>2. base \in Seq(Units) /\ Len(base) \in Nat
  BY <1>0, <1>1 DEF Path, KnownIn
<1>3. /\ np \in Seq(Units) /\ Len(np) = Len(base) + 1 /\ Len(np) \in Nat /\ Len(np) > 0 /\ np # <<>>
      /\ np[Len(np)] = u
  BY <1>2
<1>4. n \in Nat /\ n > 0
  BY <1>0, <1>1 DEF TreeHolds, Leads, KnownIn
<1>5. PICK handed : handed = HandedDown(u, np)
  OBVIOUS
<1>6. handed = [w \in Units |-> IF w \in Down THEN [tree[w] EXCEPT !.path = under[w]] ELSE tree[w]]
  BY <1>0, <1>5 DEF HandedDown, Within, Path
<1>7. tree' = [handed EXCEPT ![u].parent = parent]
  BY <1>5 DEF MoveUnit, PathUnder
<1>8. ASSUME NEW w \in Down
      PROVE  /\ n <= Len(tree[w].path) /\ tree[w].path[n] = u
             /\ under[w] \in Seq(Units) /\ Len(under[w]) = Len(np) + (Len(tree[w].path) - n)
             /\ \A i \in 1..Len(np) : under[w][i] = np[i]
             /\ \A i \in Len(np) + 1..Len(under[w]) : under[w][i] = tree[w].path[n + i - Len(np)]
  <2>0. w \in KnownIn(tree) /\ w \in Units /\ IsPrefix(tree[u].path, tree[w].path)
    BY DEF KnownIn, Down
  <2>1. n <= Len(tree[w].path) /\ tree[w].path[n] = u
    BY <1>0, <2>0, OnPath
  <2>2. PICK s \in Seq(Units) : s = tree[w].path
    BY <1>1, <2>0
  <2>3. PICK p \in Seq(Units) : p = np
    BY <1>3
  <2>4. PICK k \in Nat : k = n
    BY <1>4
  <2>5. PICK r : r = under[w]
    OBVIOUS
  <2>6. k <= Len(s) /\ r = p \o SubSeq(s, k + 1, Len(s))
    BY <2>0, <2>1, <2>2, <2>3, <2>4, <2>5
  <2> HIDE DEF np, n, under
  <2>7. /\ r \in Seq(Units) /\ Len(r) = Len(p) + (Len(s) - k)
        /\ \A i \in 1..Len(p) : r[i] = p[i]
        /\ \A i \in Len(p) + 1..Len(r) : r[i] = s[k + i - Len(p)]
    BY <2>6, Handed
  <2> QED
    BY <2>1, <2>2, <2>3, <2>4, <2>5, <2>7
<1>9. u \in Down
  BY <1>0, <1>1, PrefixIs DEF KnownIn
<1>10. Len(under[u]) = Len(np) /\ under[u] = np
  <2>1. Len(under[u]) = Len(np)
    <3>1. Len(under[u]) = Len(np) + (Len(tree[u].path) - n) /\ Len(tree[u].path) = n
      BY <1>8, <1>9
    <3>2. PICK k \in Nat, l \in Nat : k = n /\ l = Len(np)
      BY <1>3, <1>4
    <3>3. Len(under[u]) = l + (k - k)
      BY <3>1, <3>2
    <3> QED
      BY <3>2, <3>3
  <2>2. under[u] \in Seq(Units) /\ \A i \in 1..Len(np) : under[u][i] = np[i]
    BY <1>8, <1>9
  <2> HIDE DEF np, under
  <2> QED
    BY <1>3, <2>1, <2>2, SeqEqual
<1> HIDE DEF np, under, base, n, Down
<1>11. ASSUME NEW w \in Down, w # u
       PROVE  tree'[w] = [parent |-> tree[w].parent, path |-> under[w]] /\ tree'[w] \in UnitRow
  <2>0. w \in Units
    BY DEF Down, KnownIn
  <2>1. tree'[w] = [tree[w] EXCEPT !.path = under[w]]
    BY <1>6, <1>7, <1>11, <2>0
  <2> QED
    BY <1>1, <1>8, <2>0, <2>1 DEF UnitRow
<1>19. ASSUME NEW w \in Down, w # u PROVE tree'[w].path = under[w]
  <2>1. tree'[w] = [parent |-> tree[w].parent, path |-> under[w]]
    BY <1>11, <1>19
  <2> QED
    BY <2>1
<1>20. ASSUME NEW w \in Down, w # u PROVE tree'[w].parent = tree[w].parent
  <2>1. tree'[w] = [parent |-> tree[w].parent, path |-> under[w]]
    BY <1>11, <1>20
  <2> QED
    BY <2>1
<1>12. tree'[u] = [parent |-> parent, path |-> np] /\ tree'[u] \in UnitRow
  <2>1. handed[u] = [tree[u] EXCEPT !.path = under[u]] /\ tree'[u] = [handed[u] EXCEPT !.parent = parent]
    BY <1>0, <1>6, <1>7, <1>9 DEF KnownIn
  <2>2. tree[u] \in UnitRow /\ parent \in Units \cup {None}
    BY <1>0, <1>1 DEF KnownIn
  <2> QED
    BY <1>3, <1>10, <2>1, <2>2 DEF UnitRow
<1>13. ASSUME NEW w \in Units, w \notin Down PROVE tree'[w] = tree[w]
  BY <1>6, <1>7, <1>9, <1>13
<1>14. tree' \in [Units -> UnitRow]
  <2>1. DOMAIN tree' = Units /\ tree' = [w \in Units |-> tree'[w]]
    BY <1>6, <1>7
  <2>2. \A w \in Units : tree'[w] \in UnitRow
    BY <1>1, <1>11, <1>12, <1>13
  <2> QED
    BY <2>1, <2>2
<1>15. KnownIn(tree') = KnownIn(tree)
  <2>1. ASSUME NEW w \in Units PROVE w \in KnownIn(tree') <=> w \in KnownIn(tree)
    <3>1. CASE w \notin Down
      BY <1>13, <3>1 DEF KnownIn
    <3>2. CASE w \in Down
      <4>1. tree'[w].path # <<>>
        <5>1. CASE w = u
          BY <1>3, <1>12, <5>1
        <5>2. CASE w # u
          <6>1. Len(under[w]) = Len(np) + (Len(tree[w].path) - n) /\ n <= Len(tree[w].path)
            BY <1>8, <3>2
          <6>2. Len(tree[w].path) \in Nat
            BY <1>1
          <6>3. Len(np) \in Nat /\ Len(np) > 0 /\ n \in Nat
            BY <1>3, <1>4
          <6>4. Len(under[w]) > 0
            BY <6>1, <6>2, <6>3
          <6>5. tree'[w].path = under[w]
            BY <1>19, <3>2, <5>2
          <6> QED
            BY <6>4, <6>5
        <5> QED
          BY <5>1, <5>2
      <4> QED
        BY <3>2, <4>1 DEF KnownIn, NoUnit, Down
    <3> QED
      BY <3>1, <3>2
  <2> QED
    BY <2>1 DEF KnownIn
<1>16. ASSUME NEW w \in KnownIn(tree), w \notin Down PROVE Leads(tree', w)
  <2>1. Leads(tree, w) /\ w \in Units
    BY DEF TreeHolds, KnownIn
  <2>2. ASSUME NEW i \in 1..Len(tree[w].path)
        PROVE  tree[w].path[i] \in KnownIn(tree') /\ tree'[tree[w].path[i]] = tree[tree[w].path[i]]
    <3>1. PICK x \in KnownIn(tree) : x = tree[w].path[i]
      BY <2>1 DEF Leads
    <3>2. x \notin Down
      BY <1>0, <1>16, <3>1, WayUp DEF Down
    <3>3. x \in Units
      BY DEF KnownIn
    <3> QED
      BY <1>13, <1>15, <3>1, <3>2, <3>3
  <2>3. tree'[w] = tree[w] /\ Len(tree[w].path) \in Nat
    BY <1>1, <1>13, <1>16, <2>1
  <2> QED
    BY <2>1, <2>2, <2>3, SameWay
<1>17. Leads(tree', u)
  <2>1. u \in KnownIn(tree') /\ tree'[u].parent = parent /\ tree'[u].path = Append(base, u)
        /\ Len(tree'[u].path) = Len(base) + 1
    BY <1>0, <1>3, <1>12, <1>15 DEF np
  <2>2. parent = None => base = <<>>
    BY DEF base
  <2>3. ASSUME parent # None PROVE Leads(tree', parent) /\ tree'[parent].path = base
    <3>1. parent \in KnownIn(tree) /\ parent \notin Down /\ parent \in Units
      BY <1>0, <2>3 DEF Within, Path, KnownIn, Down
    <3>2. Leads(tree', parent) /\ tree'[parent] = tree[parent]
      BY <1>13, <1>16, <3>1
    <3> QED
      BY <2>3, <3>2 DEF base, Path
  <2> QED
    BY <1>2, <2>1, <2>2, <2>3, OneFurther
<1>18. ASSUME NEW w \in Down, w # u PROVE Leads(tree', w)
  <2> DEFINE s == tree[w].path
             m == Len(np)
             r == tree'[w].path
  <2>0. w \in Units /\ w \in KnownIn(tree) /\ Leads(tree, w)
    BY DEF TreeHolds, KnownIn, Down
  <2>1. r = under[w] /\ tree'[w].parent = tree[w].parent
    BY <1>18, <1>19, <1>20
  <2>2. /\ n <= Len(s) /\ s[n] = u /\ Len(r) = m + (Len(s) - n)
        /\ \A i \in 1..m : r[i] = np[i]
        /\ \A i \in m + 1..Len(r) : r[i] = s[n + i - m]
    BY <1>8, <1>18, <2>1
  <2>3. n < Len(s)
    BY <1>1, <1>4, <1>18, <2>0, <2>2 DEF Leads
  <2>a. Len(s) \in Nat /\ m \in Nat /\ m > 0 /\ n \in Nat
    BY <1>1, <1>3, <1>4, <2>0
  <2>b. Len(r) \in Nat /\ Len(r) > m
    <3> HIDE DEF s, m, r
    <3> QED
      BY <2>2, <2>3, <2>a
  <2>4. m \in Nat /\ m > 0 /\ n \in Nat /\ Len(s) \in Nat /\ Len(r) \in Nat /\ Len(r) > m
    BY <2>a, <2>b
  <2> HIDE DEF s, m, r
  <2>5. Len(r) > 0 /\ r[Len(r)] = w
    <3>1. Len(r) \in m + 1..Len(r) /\ n + Len(r) - m = Len(s)
      BY <2>2, <2>4
    <3>2. s[Len(s)] = w
      BY <2>0 DEF Leads, s
    <3>3. r[Len(r)] = s[n + Len(r) - m]
      BY <2>2, <3>1
    <3> QED
      BY <2>4, <3>1, <3>2, <3>3
  <2>6. tree'[w].parent = IF Len(r) = 1 THEN None ELSE r[Len(r) - 1]
    <3>0. Len(r) # 1 /\ tree[w].parent = s[Len(s) - 1]
      <4>0. Len(r) # 1
        <5>1. SUFFICES ASSUME Len(r) = 1 PROVE FALSE
          OBVIOUS
        <5>2. 1 > m /\ m > 0 /\ m \in Nat
          BY <2>4, <5>1
        <5> QED
          BY <5>2
      <4>1. Len(s) # 1
        <5>1. SUFFICES ASSUME Len(s) = 1 PROVE FALSE
          OBVIOUS
        <5>2. n < 1 /\ n > 0 /\ n \in Nat
          BY <1>4, <2>3, <5>1
        <5> QED
          BY <5>2
      <4>2. tree[w].parent = IF Len(s) = 1 THEN None ELSE s[Len(s) - 1]
        BY <2>0 DEF Leads, s
      <4> QED
        BY <4>0, <4>1, <4>2
    <3>1. CASE Len(r) - 1 = m
      <4>1. Len(s) - 1 = n /\ m \in 1..m
        BY <2>2, <2>4, <3>1
      <4>2. r[m] = np[m] /\ np[m] = u
        BY <1>3, <2>2, <4>1 DEF m
      <4> QED
        BY <2>1, <2>2, <3>0, <3>1, <4>1, <4>2
    <3>2. CASE Len(r) - 1 # m
      <4>1. Len(r) = m + (Len(s) - n)
        BY <2>2
      <4>2. Len(r) - 1 \in m + 1..Len(r) /\ n + (Len(r) - 1) - m = Len(s) - 1
        BY <2>4, <3>2, <4>1
      <4>3. r[Len(r) - 1] = s[n + (Len(r) - 1) - m]
        BY <2>2, <4>2
      <4> QED
        BY <2>1, <3>0, <4>2, <4>3
    <3> QED
      BY <3>1, <3>2
  <2>7. ASSUME NEW i \in 1..Len(r)
        PROVE  /\ r[i] \in KnownIn(tree') /\ Len(tree'[r[i]].path) = i
               /\ \A j \in 1..i : tree'[r[i]].path[j] = r[j]
    <3>1. CASE i <= m
      <4>1. i \in 1..m
        BY <2>4, <3>1
      <4>2. tree'[u].path = np
        BY <1>12
      <4>3. np[i] \in KnownIn(tree') /\ Len(tree'[np[i]].path) = i /\ \A j \in 1..i : tree'[np[i]].path[j] = np[j]
        BY <1>17, <4>1, <4>2 DEF Leads, m
      <4>4. r[i] = np[i] /\ \A j \in 1..i : r[j] = np[j]
        BY <2>2, <2>4, <4>1
      <4> QED
        BY <4>3, <4>4
    <3>2. CASE ~(i <= m)
      <4>1. PICK k : k = n + i - m
        OBVIOUS
      <4>2. k \in 1..Len(s) /\ k > n /\ i \in m + 1..Len(r)
        BY <2>2, <2>4, <3>2, <4>1
      <4>3. PICK x : x = s[k]
        OBVIOUS
      <4>4. r[i] = x
        BY <2>2, <4>1, <4>2, <4>3
      <4>5. x \in KnownIn(tree) /\ Len(tree[x].path) = k /\ \A j \in 1..k : tree[x].path[j] = s[j]
        BY <2>0, <4>2, <4>3 DEF Leads, s
      <4>6. n \in 1..k /\ tree[x].path[n] = u
        BY <1>4, <2>2, <2>4, <4>2, <4>5 DEF n
      <4>7. x \in Down /\ x # u /\ x \in Units
        <5>1. n <= Len(tree[x].path)
          BY <2>4, <4>2, <4>5
        <5>2. IsPrefix(tree[u].path, tree[x].path)
          BY <1>0, <4>5, <4>6, <5>1, OnPath DEF n
        <5>3. x # u
          BY <2>4, <4>2, <4>5 DEF n
        <5> QED
          BY <4>5, <5>2, <5>3 DEF KnownIn, Down
      <4>8. tree'[x].path = under[x]
        BY <1>19, <4>7
      <4>9. /\ Len(under[x]) = m + (k - n)
            /\ \A j \in 1..m : under[x][j] = np[j]
            /\ \A j \in m + 1..Len(under[x]) : under[x][j] = tree[x].path[n + j - m]
        BY <1>8, <4>5, <4>7 DEF m, n
      <4>10. Len(under[x]) = i
        BY <2>4, <4>1, <4>2, <4>9
      <4>11. ASSUME NEW j \in 1..i PROVE under[x][j] = r[j]
        <5>1. CASE j <= m
          BY <2>2, <2>4, <4>9, <5>1
        <5>2. CASE ~(j <= m)
          <6>1. j \in m + 1..i /\ j \in m + 1..Len(r) /\ n + j - m \in 1..k
            BY <2>4, <4>1, <4>2, <5>2
          <6> QED
            BY <2>2, <4>5, <4>9, <4>10, <6>1
        <5> QED
          BY <5>1, <5>2
      <4> QED
        BY <1>15, <4>4, <4>5, <4>8, <4>10, <4>11
    <3> QED
      BY <3>1, <3>2
  <2> QED
    BY <2>5, <2>6, <2>7 DEF Leads, r
<1> QED
  BY <1>14, <1>15, <1>16, <1>17, <1>18, <1>0 DEF TreeHolds

LEMMA LeastOf ==
  ASSUME NEW S, S \subseteq Nat, S # {}
  PROVE  \E x \in S : \A y \in S : x <= y
<1>1. IsWellFoundedOn(OpToRel(<, Nat), Nat)
  BY NatLessThanWellFounded
<1>2. PICK x \in S : \A y \in S : <<y, x>> \notin OpToRel(<, Nat)
  BY <1>1, WFMin
<1>3. ASSUME NEW y \in S PROVE x <= y
  <2>1. x \in Nat /\ y \in Nat
    BY <1>2
  <2>2. ~(y < x)
    BY <1>2, <2>1 DEF OpToRel
  <2> QED
    BY <2>1, <2>2
<1> QED
  BY <1>2, <1>3

(* What a path says is what the parents say: the units of a path are the     *)
(* smallest set with the unit and the parents of its members.                *)
LEMMA ChainIsPath ==
  ASSUME TreeHolds(tree), NEW u \in Known, NEW v \in Known
  PROVE  Within(u, v) <=> v \in Chain(u)
<1>0. u \in KnownIn(tree) /\ v \in KnownIn(tree) /\ Known = KnownIn(tree) /\ None \notin Units
  BY RollAssumption DEF Known, KnownIn, RollAssumption
<1>1. Leads(tree, u)
  BY <1>0 DEF TreeHolds
<1>2. PICK s \in Seq(Units) : s = tree[u].path
  BY <1>0 DEF TreeHolds, UnitRow, KnownIn
<1>3. Within(u, v) <=> \E i \in 1..Len(s) : s[i] = v
  BY <1>0, <1>2, OnPath DEF Within, Path
<1>4. Len(s) \in Nat /\ Len(s) > 0 /\ s[Len(s)] = u
  BY <1>1, <1>2 DEF Leads
(* the parent of a unit on the path is the one before it *)
<1>5. ASSUME NEW i \in 1..Len(s)
      PROVE  s[i] \in Known /\ tree[s[i]].parent = IF i = 1 THEN None ELSE s[i - 1]
  <2>1. s[i] \in KnownIn(tree) /\ Len(tree[s[i]].path) = i /\ \A j \in 1..i : tree[s[i]].path[j] = s[j]
    BY <1>1, <1>2 DEF Leads
  <2>2. PICK x \in KnownIn(tree) : x = s[i]
    BY <2>1
  <2>3. tree[x].parent = IF Len(tree[x].path) = 1 THEN None ELSE tree[x].path[Len(tree[x].path) - 1]
    BY DEF TreeHolds, Leads
  <2>4. tree[x].parent = IF i = 1 THEN None ELSE tree[x].path[i - 1]
    BY <2>1, <2>2, <2>3
  <2>5. i # 1 => tree[x].path[i - 1] = s[i - 1]
    <3>1. i # 1 => i - 1 \in 1..i
      BY <1>4
    <3> QED
      BY <2>1, <2>2, <3>1
  <2> QED
    BY <1>0, <2>1, <2>2, <2>4, <2>5
<1>6. ASSUME Within(u, v), NEW S \in SUBSET Known, u \in S, \A w \in S : tree[w].parent \in S \cup {None}
      PROVE  v \in S
  <2>1. PICK k \in 1..Len(s) : s[k] = v
    BY <1>3, <1>6
  <2> DEFINE Out == {d \in Nat : d < Len(s) /\ s[Len(s) - d] \notin S}
  <2>2. SUFFICES ASSUME v \notin S PROVE FALSE
    OBVIOUS
  <2>3. Out # {}
    <3>1. Len(s) - k \in Nat /\ Len(s) - k < Len(s) /\ Len(s) - (Len(s) - k) = k
      BY <1>4
    <3>2. s[Len(s) - (Len(s) - k)] \notin S
      BY <2>1, <2>2, <3>1
    <3> QED
      BY <3>1, <3>2
  <2>4. PICK d \in Out : \A e \in Out : d <= e
    <3>1. Out \subseteq Nat
      OBVIOUS
    <3> HIDE DEF Out
    <3> QED
      BY <2>3, <3>1, LeastOf
  <2>5. d \in Nat /\ d < Len(s) /\ s[Len(s) - d] \notin S
    BY <2>4
  <2>6. d # 0
    BY <1>4, <1>6, <2>5
  <2>a. Len(s) - d + 1 \in 1..Len(s)
    <3>1. PICK l \in Nat : l = Len(s)
      BY <1>4
    <3> HIDE DEF Out
    <3>2. d \in Nat /\ d < l /\ d # 0
      BY <2>5, <2>6, <3>1
    <3>3. l - d + 1 \in 1..l
      BY <3>2
    <3> QED
      BY <3>1, <3>3
  <2>7. PICK i \in 1..Len(s) : i = Len(s) - d + 1
    BY <2>a
  <2>8. s[i] \in S
    <3>1. d - 1 \in Nat /\ ~(d <= d - 1) /\ d - 1 < Len(s) /\ Len(s) - (d - 1) = i
      BY <1>4, <2>5, <2>6, <2>7
    <3>2. d - 1 \notin Out
      BY <2>4, <3>1
    <3> QED
      BY <3>1, <3>2
  <2>9. i # 1 /\ i - 1 = Len(s) - d /\ i - 1 \in 1..Len(s)
    BY <1>4, <2>5, <2>6, <2>7
  <2>10. tree[s[i]].parent = s[i - 1] /\ s[i - 1] \in Units
    <3>1. tree[s[i]].parent = s[i - 1]
      BY <1>5, <2>9
    <3>2. s[i - 1] \in Known
      BY <1>5, <2>9
    <3> QED
      BY <3>1, <3>2 DEF Known
  <2>11. tree[s[i]].parent \in S \cup {None}
    BY <1>6, <2>8
  <2> QED
    BY <1>0, <2>5, <2>9, <2>10, <2>11
<1>7. ASSUME v \in Chain(u) PROVE Within(u, v)
  <2> DEFINE S == {w \in Known : \E i \in 1..Len(s) : s[i] = w}
  <2>1. S \in SUBSET Known /\ u \in S
    BY <1>4
  <2>2. ASSUME NEW w \in S PROVE tree[w].parent \in S \cup {None}
    <3>1. PICK i \in 1..Len(s) : s[i] = w
      OBVIOUS
    <3>2. CASE i = 1
      BY <1>5, <3>1, <3>2
    <3>3. CASE i # 1
      <4>1. i - 1 \in 1..Len(s)
        BY <1>4, <3>3
      <4>2. tree[w].parent = s[i - 1]
        BY <1>5, <3>1, <3>3
      <4>3. s[i - 1] \in Known
        BY <1>5, <4>1
      <4> QED
        BY <4>1, <4>2, <4>3
    <3> QED
      BY <3>2, <3>3
  <2>3. v \in S
    <3> HIDE DEF S
    <3> QED
      BY <1>7, <2>1, <2>2 DEF Chain
  <2> QED
    BY <1>3, <2>3
<1> QED
  BY <1>6, <1>7 DEF Chain

LEMMA ParentsKnown ==
  ASSUME TreeHolds(tree), NEW u \in Known
  PROVE  tree[u].parent \in Known \cup {None}
<1>1. Leads(tree, u) /\ Known = KnownIn(tree) /\ tree[u].path \in Seq(Units)
  BY DEF TreeHolds, Known, KnownIn, UnitRow
<1>2. PICK s \in Seq(Units) : s = tree[u].path
  BY <1>1
<1>3. Len(s) \in Nat
  BY <1>2
<1>4. tree[u].parent = IF Len(s) = 1 THEN None ELSE s[Len(s) - 1]
  BY <1>1, <1>2 DEF Leads
<1>5. Len(s) # 1 => s[Len(s) - 1] \in Known
  <2>1. Len(s) > 0
    BY <1>1, <1>2 DEF Leads
  <2>a. PICK l \in Nat : l = Len(s)
    BY <1>3
  <2>b. l > 0 /\ (l # 1 => l - 1 \in 1..l)
    BY <2>1, <2>a
  <2>2. Len(s) # 1 => Len(s) - 1 \in 1..Len(s)
    BY <2>a, <2>b
  <2> QED
    BY <1>1, <1>2, <2>2 DEF Leads
<1> QED
  BY <1>4, <1>5

-----------------------------------------------------------------------------
(* Roll: rows and who is on it.                                              *)

OnRoll(r) == {p \in Persons : r[p] # NoPerson}
VotesIn(r) == {p \in OnRoll(r) : r[p].status = "VOTED"}
Rows(r) == r \in [Persons -> {NoPerson} \cup PersonRow]
Once(r) ==
    \A p, q \in OnRoll(r) :
        r[p].email # None /\ r[p].email = r[q].email /\ r[p].id = None /\ r[q].id = None => p = q

LEMMA NotAPerson == NoPerson \notin PersonRow /\ NoPerson.unit = None /\ NoPerson.status # "VOTED" /\ NoPerson.id = None
  BY DEF NoPerson, PersonRow, VoterStates

LEMMA RowOf == ASSUME NEW r, Rows(r), NEW p \in OnRoll(r) PROVE r[p] \in PersonRow /\ p \in Persons
  BY DEF Rows, OnRoll

LEMMA PersonsFinite == Persons \subseteq Nat /\ IsFiniteSet(Persons)
<1>1. MaxPersons \in Nat
  BY RollAssumption DEF RollAssumption
<1>2. IsFiniteSet(1..MaxPersons)
  BY <1>1, FS_Interval
<1> QED
  BY <1>1, <1>2 DEF Persons

LEMMA FirstOne == ASSUME NEW S, S \subseteq Persons, S # {} PROVE First(S) \in S
<1>1. \E x \in S : \A y \in S : x <= y
  BY PersonsFinite, LeastOf
<1> QED
  BY <1>1 DEF First

(* Rows that are changed, but for ID, address and presence.                  *)
LEMMA Altered ==
  ASSUME NEW r, NEW s, OnRoll(s) = OnRoll(r),
         \A p \in OnRoll(r) : s[p].email = r[p].email /\ s[p].id = r[p].id, Once(r)
  PROVE  Once(s)
  BY DEF Once

LEMMA Thinned ==
  ASSUME NEW r, NEW s, Rows(r), s \in [Persons -> {NoPerson} \cup PersonRow], \A p \in Persons : s[p] = r[p] \/ s[p] = NoPerson,
         \A p \in VotesIn(r) : s[p] = r[p]
  PROVE  /\ Once(r) => Once(s)
         /\ OnRoll(s) \subseteq OnRoll(r) /\ Cardinality(OnRoll(s)) <= Cardinality(OnRoll(r))
         /\ VotesIn(s) = VotesIn(r)
<1>1. OnRoll(s) \subseteq OnRoll(r) /\ \A p \in OnRoll(s) : s[p] = r[p]
  BY DEF OnRoll
<1>2. IsFiniteSet(OnRoll(r))
  BY PersonsFinite, FS_Subset DEF OnRoll
<1>3. Cardinality(OnRoll(s)) <= Cardinality(OnRoll(r))
  BY <1>1, <1>2, FS_Subset
<1>4. VotesIn(s) = VotesIn(r)
  BY <1>1, NotAPerson DEF VotesIn, OnRoll
<1>5. Once(r) => Once(s)
  BY <1>1 DEF Once
<1> QED
  BY <1>1, <1>3, <1>4, <1>5

GoesOn(r, s, n, row) ==
    /\ Rows(s) /\ OnRoll(s) = OnRoll(r) \cup {n} /\ n \notin OnRoll(r)
    /\ Cardinality(OnRoll(s)) = Cardinality(OnRoll(r)) + 1 /\ Cardinality(OnRoll(r)) \in Nat
    /\ VotesIn(s) = VotesIn(r)
    /\ Once(r) /\ (row.id = None /\ row.email # None => \A p \in OnRoll(r) : r[p].email # row.email) => Once(s)

LEMMA Added ==
  ASSUME NEW r, Rows(r), NEW n \in Vacant(r), NEW row \in PersonRow, row.status # "VOTED",
         NEW s, s = [r EXCEPT ![n] = row]
  PROVE  GoesOn(r, s, n, row)
<1>1. n \in Persons /\ r[n] = NoPerson /\ s[n] = row /\ \A p \in Persons : p # n => s[p] = r[p]
  BY DEF Vacant, Rows
<1>2. Rows(s)
  BY DEF Rows
<1>3. OnRoll(s) = OnRoll(r) \cup {n} /\ n \notin OnRoll(r)
  BY <1>1, NotAPerson DEF OnRoll
<1>4. IsFiniteSet(OnRoll(r))
  BY PersonsFinite, FS_Subset DEF OnRoll
<1>5. Cardinality(OnRoll(s)) = Cardinality(OnRoll(r)) + 1 /\ Cardinality(OnRoll(r)) \in Nat
  BY <1>3, <1>4, FS_AddElement, FS_CardinalityType
<1>6. VotesIn(s) = VotesIn(r)
  BY <1>1, <1>3 DEF VotesIn, OnRoll
<1>7. ASSUME Once(r), row.id = None /\ row.email # None => \A p \in OnRoll(r) : r[p].email # row.email
      PROVE  Once(s)
  <2>1. \A p \in OnRoll(r) : s[p] = r[p]
    BY <1>1, <1>3 DEF OnRoll
  <2> QED
    BY <1>1, <1>3, <1>7, <2>1 DEF Once
<1> QED
  BY <1>2, <1>3, <1>5, <1>6, <1>7 DEF GoesOn

-----------------------------------------------------------------------------
(* Roll: the rows of an import, one after the other.                         *)

Stage == [people : [Persons -> {NoPerson} \cup PersonRow], issued : Nat, seen : Loaded]

LEMMA LoadedRow ==
  ASSUME NEW seen \in Loaded
  PROVE  DOMAIN seen \subseteq Persons /\ \A p \in DOMAIN seen : seen[p] \in PersonRow
  BY DEF Loaded

LEMMA IsLoaded ==
  ASSUME NEW D \in SUBSET Persons, NEW f, f = [p \in D |-> f[p]], \A p \in D : f[p] \in PersonRow
  PROVE  f \in Loaded
<1>1. f \in [D -> PersonRow]
  OBVIOUS
<1> QED
  BY <1>1 DEF Loaded

LEMMA GivenIs ==
  ASSUME NEW row \in FileRow, NEW units \in [Units -> Units \cup {None}], NEW old \in PersonRow,
         NEW g, g = Given(row, units, old)
  PROVE  /\ g \in PersonRow /\ g.id = old.id /\ g.status = old.status
         /\ g.email = IF row.email = None THEN old.email ELSE row.email
<1>1. g = [old EXCEPT !.email = IF row.email = None THEN old.email ELSE row.email,
                      !.unit = IF row.unit = None THEN old.unit ELSE units[row.unit]]
  BY DEF Given
<1>2. /\ (IF row.email = None THEN old.email ELSE row.email) \in Mails \cup {None}
      /\ (IF row.unit = None THEN old.unit ELSE units[row.unit]) \in Units \cup {None}
  BY DEF FileRow, PersonRow
<1> QED
  BY <1>1, <1>2 DEF PersonRow

Rewritten(made, p, g) ==
    [people |-> [made.people EXCEPT ![p] = g], issued |-> made.issued,
     seen |-> [q \in DOMAIN made.seen |-> IF q = p THEN g ELSE made.seen[q]]]
Inserted(made, n, g, seen) ==
    [people |-> [made.people EXCEPT ![n] = g],
     issued |-> IF poll.codes THEN made.issued + 1 ELSE made.issued, seen |-> seen]

RowSaved(row, made, next) ==
    \E p \in Persons, old \in PersonRow, g \in PersonRow :
       /\ g.id = old.id /\ g.status = old.status /\ old.status # "VOTED"
       /\ \/ row.id # None /\ p \in DOMAIN made.seen /\ made.seen[p] = old /\ old.id # None
          \/ row.id = None /\ made.people[p] = old /\ g.email = old.email
       /\ next = Rewritten(made, p, g)
RowAdded(row, made, next) ==
    \E n \in Vacant(made.people), g \in PersonRow :
       /\ g.id = row.id /\ g.status = "ELIGIBLE"
       /\ row.id = None => /\ \A p \in OnRoll(made.people) : made.people[p].email # g.email
                           /\ next = Inserted(made, n, g, made.seen)
       /\ row.id # None =>
             next = Inserted(made, n, g, [q \in DOMAIN made.seen \cup {n} |-> IF q = n THEN g ELSE made.seen[q]])

(* What a row does: nothing, a row saved over one that was loaded or found,  *)
(* or a new one.                                                             *)
LEMMA RowDoes ==
  ASSUME NEW row \in FileRow, NEW units \in [Units -> Units \cup {None}], NEW made \in Stage,
         NEW next, next = ImportRow(row, units, made)
  PROVE  next = made \/ RowSaved(row, made, next) \/ RowAdded(row, made, next)
<1> DEFINE same == SamePerson(row, made)
           p == First(same)
           old == IF row.id # None THEN made.seen[p] ELSE made.people[p]
           n == First(Vacant(made.people))
           blank == [id |-> row.id, email |-> None, unit |-> None, status |-> "ELIGIBLE",
                     code |-> IF poll.codes THEN made.issued + 1 ELSE 0]
<1>0. /\ made.people \in [Persons -> {NoPerson} \cup PersonRow] /\ made.issued \in Nat
      /\ made.seen \in Loaded
  BY DEF Stage
<1>1. CASE Erroneous(row, units)
  BY <1>1 DEF ImportRow
<1>2. CASE ~Erroneous(row, units) /\ same # {}
  <2>1. same \subseteq Persons
    BY <1>0, LoadedRow DEF SamePerson
  <2>2. p \in same /\ p \in Persons
    <3> HIDE DEF same
    <3> QED
      BY <1>2, <2>1, FirstOne
  <2>3. row.id # None => p \in DOMAIN made.seen /\ made.seen[p].id = row.id
    BY <2>2 DEF SamePerson
  <2>4. row.id = None => made.people[p] # NoPerson /\ made.people[p].email = row.email /\ row.email # None
    BY <1>2, <2>2 DEF SamePerson, Erroneous
  <2>5. old \in PersonRow
    BY <1>0, <2>2, <2>3, <2>4, LoadedRow
  <2>6. next = IF old.status = "VOTED" THEN made
               ELSE [made EXCEPT !.people[p] = Given(row, units, old),
                                 !.seen = [q \in DOMAIN @ |-> IF q = p THEN Given(row, units, old) ELSE @[q]]]
    BY <1>2 DEF ImportRow
  <2>7. PICK g : g = Given(row, units, old)
    OBVIOUS
  <2>8. PICK o \in PersonRow : o = old
    BY <2>5
  <2>9. PICK k \in Persons : k = p
    BY <2>2
  <2>10. /\ g \in PersonRow /\ g.id = o.id /\ g.status = o.status
         /\ g.email = IF row.email = None THEN o.email ELSE row.email
    BY <2>7, <2>8, GivenIs
  <2>11. /\ row.id # None => k \in DOMAIN made.seen /\ made.seen[k] = o /\ o.id # None
         /\ row.id = None => made.people[k] = o /\ o.email = row.email /\ row.email # None
    BY <2>3, <2>4, <2>8, <2>9
  <2>12. next = IF o.status = "VOTED" THEN made
                ELSE [made EXCEPT !.people[k] = g, !.seen = [q \in DOMAIN @ |-> IF q = k THEN g ELSE @[q]]]
    BY <2>6, <2>7, <2>8, <2>9
  <2> HIDE DEF p, old, same, n, blank
  <2>13. CASE o.status = "VOTED"
    BY <2>12, <2>13
  <2>14. CASE o.status # "VOTED"
    <3>1. next = Rewritten(made, k, g)
      BY <2>12, <2>14 DEF Rewritten, Stage
    <3> QED
      BY <2>10, <2>11, <2>14, <3>1 DEF RowSaved
  <2> QED
    BY <2>13, <2>14
<1>3. CASE ~Erroneous(row, units) /\ same = {}
  <2>1. next = IF Vacant(made.people) = {} \/ \E q \in Persons : row.id # None /\ made.people[q].id = row.id
               THEN made
               ELSE [people |-> [made.people EXCEPT ![n] = Given(row, units, blank)],
                     issued |-> IF poll.codes THEN made.issued + 1 ELSE made.issued,
                     seen |-> IF row.id = None THEN made.seen
                              ELSE [q \in DOMAIN made.seen \cup {n} |->
                                       IF q = n THEN Given(row, units, blank) ELSE made.seen[q]]]
    BY <1>3 DEF ImportRow
  <2>2. CASE Vacant(made.people) = {} \/ \E q \in Persons : row.id # None /\ made.people[q].id = row.id
    BY <2>1, <2>2
  <2>3. CASE ~(Vacant(made.people) = {} \/ \E q \in Persons : row.id # None /\ made.people[q].id = row.id)
    <3>1. n \in Vacant(made.people)
      <4>1. Vacant(made.people) \subseteq Persons
        BY DEF Vacant
      <4> QED
        BY <2>3, <4>1, FirstOne
    <3>2. blank \in PersonRow
      BY <1>0 DEF PersonRow, FileRow, VoterStates
    <3>3. PICK b \in PersonRow : b = blank
      BY <3>2
    <3>4. PICK g : g = Given(row, units, b)
      OBVIOUS
    <3>5. PICK k \in Vacant(made.people) : k = n
      BY <3>1
    <3>6. /\ g \in PersonRow /\ g.id = b.id /\ g.status = b.status
          /\ g.email = IF row.email = None THEN b.email ELSE row.email
      BY <3>4, GivenIs
    <3>7. b.id = row.id /\ b.status = "ELIGIBLE"
      BY <3>3
    <3>8. next = Inserted(made, k, g, IF row.id = None THEN made.seen
                                      ELSE [q \in DOMAIN made.seen \cup {k} |-> IF q = k THEN g ELSE made.seen[q]])
      <4> HIDE DEF n, blank
      <4> QED
        BY <2>1, <2>3, <3>3, <3>4, <3>5 DEF Inserted
    <3>9. row.id = None => \A x \in OnRoll(made.people) : made.people[x].email # g.email
      BY <1>3, <3>6 DEF SamePerson, OnRoll, Erroneous
    <3> HIDE DEF n, blank, same, p, old
    <3> QED
      BY <3>6, <3>7, <3>8, <3>9 DEF RowAdded
  <2> QED
    BY <2>2, <2>3
<1> QED
  BY <1>1, <1>2, <1>3

LEMMA StageKept ==
  ASSUME NEW row \in FileRow, NEW units \in [Units -> Units \cup {None}], NEW made \in Stage,
         NEW next, next = ImportRow(row, units, made)
  PROVE  next \in Stage
<1>0. /\ made.people \in [Persons -> {NoPerson} \cup PersonRow] /\ made.issued \in Nat
      /\ made.seen \in Loaded
  BY DEF Stage
<1>1. ASSUME NEW p \in Persons, NEW g \in PersonRow, next = Rewritten(made, p, g) PROVE next \in Stage
  <2>1. [q \in DOMAIN made.seen |-> IF q = p THEN g ELSE made.seen[q]] \in Loaded
    <3>1. DOMAIN made.seen \in SUBSET Persons /\ \A q \in DOMAIN made.seen : made.seen[q] \in PersonRow
      BY <1>0, LoadedRow
    <3>2. PICK f : f = [q \in DOMAIN made.seen |-> IF q = p THEN g ELSE made.seen[q]]
      OBVIOUS
    <3>3. f = [q \in DOMAIN made.seen |-> f[q]] /\ \A q \in DOMAIN made.seen : f[q] \in PersonRow
      BY <3>1, <3>2
    <3> QED
      BY <3>1, <3>2, <3>3, IsLoaded
  <2> QED
    BY <1>0, <1>1, <2>1 DEF Rewritten, Stage
<1>2. ASSUME NEW n \in Vacant(made.people), NEW g \in PersonRow, NEW seen \in Loaded,
             next = Inserted(made, n, g, seen)
      PROVE  next \in Stage
  BY <1>0, <1>2 DEF Inserted, Stage, Vacant
<1>3. ASSUME NEW n \in Vacant(made.people), NEW g \in PersonRow
      PROVE  [q \in DOMAIN made.seen \cup {n} |-> IF q = n THEN g ELSE made.seen[q]] \in Loaded
  <2>1. DOMAIN made.seen \cup {n} \in SUBSET Persons /\ \A q \in DOMAIN made.seen : made.seen[q] \in PersonRow
    BY <1>0, LoadedRow DEF Vacant
  <2>2. PICK f : f = [q \in DOMAIN made.seen \cup {n} |-> IF q = n THEN g ELSE made.seen[q]]
    OBVIOUS
  <2>3. f = [q \in DOMAIN made.seen \cup {n} |-> f[q]] /\ \A q \in DOMAIN made.seen \cup {n} : f[q] \in PersonRow
    BY <2>1, <2>2
  <2> QED
    BY <2>1, <2>2, <2>3, IsLoaded
<1>4. CASE next = made
  BY <1>4
<1>5. CASE RowSaved(row, made, next)
  BY <1>1, <1>5 DEF RowSaved
<1>6. CASE RowAdded(row, made, next)
  <2>1. PICK n \in Vacant(made.people), g \in PersonRow :
          /\ row.id = None => next = Inserted(made, n, g, made.seen)
          /\ row.id # None => next = Inserted(made, n, g, [q \in DOMAIN made.seen \cup {n} |->
                                                             IF q = n THEN g ELSE made.seen[q]])
    BY <1>6 DEF RowAdded
  <2>2. PICK seen : seen = [q \in DOMAIN made.seen \cup {n} |-> IF q = n THEN g ELSE made.seen[q]]
    OBVIOUS
  <2>3. seen \in Loaded
    BY <1>3, <2>2
  <2> QED
    BY <1>0, <1>2, <2>1, <2>2, <2>3
<1> QED
  BY <1>4, <1>5, <1>6, RowDoes

LEMMA Saved ==
  ASSUME NEW r, Rows(r), NEW p \in OnRoll(r), NEW g \in PersonRow, g.id = r[p].id,
         g.status # "VOTED", r[p].status # "VOTED", g.id = None => g.email = r[p].email,
         NEW s, s = [r EXCEPT ![p] = g]
  PROVE  /\ Rows(s) /\ OnRoll(s) = OnRoll(r) /\ VotesIn(s) = VotesIn(r)
         /\ Once(r) => Once(s)
<1>1. p \in Persons /\ s[p] = g /\ \A q \in Persons : q # p => s[q] = r[q]
  BY DEF OnRoll, Rows
<1>2. Rows(s)
  BY DEF Rows
<1>3. OnRoll(s) = OnRoll(r)
  BY <1>1, NotAPerson DEF OnRoll
<1>4. VotesIn(s) = VotesIn(r)
  BY <1>1, <1>3 DEF VotesIn, OnRoll
<1>5. ASSUME Once(r) PROVE Once(s)
  <2>1. \A q \in OnRoll(r) : q # p => s[q] = r[q]
    BY <1>1 DEF OnRoll
  <2> QED
    BY <1>1, <1>3, <1>5, <2>1 DEF Once
<1> QED
  BY <1>2, <1>3, <1>4, <1>5

(* With nobody else at work: what was loaded is what there is, whoever voted *)
(* stays so, and each row adds one person at most.                           *)
Sound(made, votes, most) ==
    /\ \A p \in DOMAIN made.seen : made.seen[p] = made.people[p] /\ made.seen[p].id # None
    /\ Once(made.people) /\ VotesIn(made.people) = votes
    /\ Cardinality(OnRoll(made.people)) <= most

LEMMA StageSound ==
  ASSUME NEW row \in FileRow, NEW units \in [Units -> Units \cup {None}], NEW made \in Stage,
         NEW votes, NEW most \in Nat, Sound(made, votes, most),
         NEW next, next = ImportRow(row, units, made)
  PROVE  Sound(next, votes, most + 1)
<1>0. PICK r, seen : /\ r = made.people /\ seen = made.seen
                     /\ Rows(r) /\ seen \in Loaded
  BY DEF Stage, Rows
<1>1. /\ \A q \in DOMAIN seen : seen[q] = r[q]
      /\ \A q \in DOMAIN seen : seen[q].id # None
      /\ Once(r) /\ VotesIn(r) = votes /\ Cardinality(OnRoll(r)) <= most
  BY <1>0 DEF Sound
<1>2. DOMAIN seen \subseteq Persons
  BY <1>0, LoadedRow
<1>3. Cardinality(OnRoll(r)) \in Nat
  <2>1. IsFiniteSet(OnRoll(r))
    BY PersonsFinite, FS_Subset DEF OnRoll
  <2> QED
    BY <2>1, FS_CardinalityType
<1>4. CASE next = made
  BY <1>0, <1>1, <1>3, <1>4 DEF Sound
<1>5. CASE RowSaved(row, made, next)
  <2>1. PICK p \in Persons, old \in PersonRow, g \in PersonRow :
          /\ g.id = old.id /\ g.status = old.status /\ old.status # "VOTED"
          /\ \/ row.id # None /\ p \in DOMAIN made.seen /\ made.seen[p] = old /\ old.id # None
             \/ row.id = None /\ made.people[p] = old /\ g.email = old.email
          /\ next = Rewritten(made, p, g)
    BY <1>5 DEF RowSaved
  <2>2. r[p] = old
    BY <1>0, <1>1, <2>1
  <2>3. p \in OnRoll(r)
    BY <2>2, NotAPerson DEF OnRoll
  <2>4. g.id = None => g.email = r[p].email
    BY <2>1, <2>2
  <2>5. PICK s : s = [r EXCEPT ![p] = g]
    OBVIOUS
  <2>6. /\ Rows(s) /\ OnRoll(s) = OnRoll(r) /\ VotesIn(s) = VotesIn(r)
        /\ Once(r) => Once(s)
    BY <1>0, <2>1, <2>2, <2>3, <2>4, <2>5, Saved
  <2>7. PICK l : l = [q \in DOMAIN seen |-> IF q = p THEN g ELSE seen[q]]
    OBVIOUS
  <2>8. next.people = s /\ next.seen = l
    BY <1>0, <2>1, <2>5, <2>7 DEF Rewritten
  <2>9. ASSUME NEW q \in DOMAIN l PROVE l[q] = s[q] /\ l[q].id # None
    <3>1. q \in DOMAIN seen /\ q \in Persons /\ seen[q] = r[q] /\ seen[q].id # None
      BY <1>1, <1>2, <2>7
    <3>2. CASE q = p
      <4>1. l[q] = g /\ s[q] = g
        BY <1>0, <2>5, <2>7, <3>1, <3>2 DEF Rows
      <4>2. g.id # None
        BY <2>1, <2>2, <3>1, <3>2
      <4> QED
        BY <4>1, <4>2
    <3>3. CASE q # p
      BY <1>0, <2>5, <2>7, <3>1, <3>3 DEF Rows
    <3> QED
      BY <3>2, <3>3
  <2> QED
    BY <1>1, <1>3, <2>6, <2>8, <2>9 DEF Sound
<1>6. CASE RowAdded(row, made, next)
  <2>1. PICK n \in Vacant(r), g \in PersonRow :
          /\ g.id = row.id /\ g.status = "ELIGIBLE"
          /\ row.id = None => /\ \A p \in OnRoll(r) : r[p].email # g.email
                              /\ next = Inserted(made, n, g, seen)
          /\ row.id # None => next = Inserted(made, n, g, [q \in DOMAIN seen \cup {n} |->
                                                             IF q = n THEN g ELSE seen[q]])
    BY <1>0, <1>6 DEF RowAdded
  <2>2. PICK s : s = [r EXCEPT ![n] = g]
    OBVIOUS
  <2>3. g.status # "VOTED" /\ (g.id = None /\ g.email # None => \A p \in OnRoll(r) : r[p].email # g.email)
    BY <2>1
  <2>4. /\ Rows(s) /\ OnRoll(s) = OnRoll(r) \cup {n} /\ n \notin OnRoll(r)
        /\ Cardinality(OnRoll(s)) = Cardinality(OnRoll(r)) + 1
        /\ VotesIn(s) = VotesIn(r) /\ Once(s)
    <3>1. GoesOn(r, s, n, g)
      BY <1>0, <2>2, <2>3, Added
    <3> QED
      BY <1>1, <2>3, <3>1 DEF GoesOn
  <2>5. next.people = s
    BY <1>0, <2>1, <2>2 DEF Inserted
  <2>6. n \in Persons /\ s[n] = g /\ n \notin DOMAIN seen
    <3>1. n \in Persons /\ r[n] = NoPerson
      BY DEF Vacant
    <3>2. n \notin DOMAIN seen
      BY <1>1, <3>1, NotAPerson
    <3> QED
      BY <1>0, <2>2, <3>1, <3>2 DEF Rows
  <2>7. \A q \in DOMAIN seen : s[q] = r[q]
    BY <1>0, <1>2, <2>2, <2>6 DEF Rows
  <2>8. ASSUME NEW q \in DOMAIN next.seen
        PROVE  next.seen[q] = s[q] /\ next.seen[q].id # None
    <3>1. CASE row.id = None
      <4>1. next.seen = seen
        BY <2>1, <3>1 DEF Inserted
      <4> QED
        BY <1>1, <2>7, <4>1
    <3>2. CASE row.id # None
      <4>1. PICK l : l = [x \in DOMAIN seen \cup {n} |-> IF x = n THEN g ELSE seen[x]]
        OBVIOUS
      <4>2. next.seen = l
        BY <2>1, <3>2, <4>1 DEF Inserted
      <4>3. CASE q = n
        <5>1. l[q] = g
          BY <4>1, <4>3
        <5> QED
          BY <2>1, <2>6, <3>2, <4>2, <4>3, <5>1
      <4>4. CASE q # n
        <5>1. q \in DOMAIN seen /\ l[q] = seen[q]
          BY <4>1, <4>2, <4>4
        <5> QED
          BY <1>1, <2>7, <4>2, <5>1
      <4> QED
        BY <4>3, <4>4
    <3> QED
      BY <3>1, <3>2
  <2>9. Cardinality(OnRoll(s)) <= most + 1
    BY <1>1, <1>3, <2>4
  <2>10. Once(next.people) /\ VotesIn(next.people) = votes /\ Cardinality(OnRoll(next.people)) <= most + 1
    BY <1>1, <2>4, <2>5, <2>9
  <2>11. \A q \in DOMAIN next.seen : next.seen[q] = next.people[q] /\ next.seen[q].id # None
    BY <2>5, <2>8
  <2> QED
    BY <2>10, <2>11 DEF Sound
<1> QED
  BY <1>4, <1>5, <1>6, RowDoes

(* The loop over the rows is defined for every number of rows. *)
Loop(rows, units, start, n, f) ==
    f = [i \in 0..n |-> IF i = 0 THEN start ELSE ImportRow(rows[i], units, f[i - 1])]

LEMMA SomeLoop ==
  ASSUME NEW rows, NEW units, NEW start, NEW n \in Nat
  PROVE  \E f : Loop(rows, units, start, n, f)
<1> DEFINE Bad == {k \in Nat : ~\E f : Loop(rows, units, start, k, f)}
<1>1. SUFFICES ASSUME Bad # {} PROVE FALSE
  OBVIOUS
<1>2. PICK k \in Bad : \A j \in Bad : k <= j
  <2>1. Bad \subseteq Nat
    OBVIOUS
  <2> HIDE DEF Bad
  <2> QED
    BY <1>1, <2>1, LeastOf
<1>3. k \in Nat /\ ~\E f : Loop(rows, units, start, k, f)
  OBVIOUS
<1>4. CASE k = 0
  <2>1. PICK f : f = [i \in 0..0 |-> start]
    OBVIOUS
  <2>2. f = [i \in 0..0 |-> IF i = 0 THEN start ELSE ImportRow(rows[i], units, f[i - 1])]
    BY <2>1
  <2> QED
    BY <1>3, <1>4, <2>2 DEF Loop
<1>5. CASE k # 0
  <2>1. PICK j \in Nat : k = j + 1
    <3>1. k - 1 \in Nat /\ k = (k - 1) + 1
      BY <1>3, <1>5
    <3> QED
      BY <3>1
  <2>2. PICK e : Loop(rows, units, start, j, e)
    BY <1>2, <2>1
  <2>3. PICK f : f = [i \in 0..k |-> IF i = k THEN ImportRow(rows[k], units, e[j]) ELSE e[i]]
    OBVIOUS
  <2>4. \A i \in 0..j : e[i] = IF i = 0 THEN start ELSE ImportRow(rows[i], units, e[i - 1])
    BY <2>2 DEF Loop
  <2>5. ASSUME NEW i \in 0..k
        PROVE  f[i] = IF i = 0 THEN start ELSE ImportRow(rows[i], units, f[i - 1])
    <3>1. CASE i = k
      <4>1. i # 0 /\ i - 1 = j /\ j \in 0..k /\ j # k
        BY <2>1, <3>1
      <4>2. f[i - 1] = e[j] /\ f[i] = ImportRow(rows[i], units, e[j])
        BY <2>3, <3>1, <4>1
      <4> QED
        BY <4>1, <4>2
    <3>2. CASE i # k
      <4>1. i \in 0..j /\ (i # 0 => i - 1 \in 0..k /\ i - 1 # k)
        BY <2>1, <3>2
      <4>2. f[i] = e[i] /\ (i # 0 => f[i - 1] = e[i - 1])
        BY <2>3, <3>2, <4>1
      <4> QED
        BY <2>4, <4>1, <4>2
    <3> QED
      BY <3>1, <3>2
  <2>6. f = [i \in 0..k |-> IF i = 0 THEN start ELSE ImportRow(rows[i], units, f[i - 1])]
    BY <2>3, <2>5
  <2> QED
    BY <1>3, <2>6 DEF Loop
<1> QED
  BY <1>4, <1>5

LEMMA ImportedIs ==
  ASSUME NEW rows, NEW units, NEW start, Len(rows) \in Nat
  PROVE  \E f : Loop(rows, units, start, Len(rows), f) /\ Imported(rows, units, start) = f[Len(rows)]
<1>1. \E f : Loop(rows, units, start, Len(rows), f)
  BY SomeLoop
<1> DEFINE c == CHOOSE f : f = [i \in 0..Len(rows) |-> IF i = 0 THEN start ELSE ImportRow(rows[i], units, f[i - 1])]
<1>2. Loop(rows, units, start, Len(rows), c)
  BY <1>1 DEF Loop
<1>3. Imported(rows, units, start) = c[Len(rows)]
  BY DEF Imported
<1> QED
  BY <1>2, <1>3

LEMMA ImportKept ==
  ASSUME NEW rows \in Seq(FileRow), NEW units \in [Units -> Units \cup {None}], NEW start \in Stage
  PROVE  /\ Imported(rows, units, start) \in Stage
         /\ \A votes : \A most \in Nat : Sound(start, votes, most)
                                       => Sound(Imported(rows, units, start), votes, most + Len(rows))
<1>0. Len(rows) \in Nat /\ \A i \in 1..Len(rows) : rows[i] \in FileRow
  OBVIOUS
<1>1. PICK f : Loop(rows, units, start, Len(rows), f) /\ Imported(rows, units, start) = f[Len(rows)]
  BY <1>0, ImportedIs
<1>2. f[0] = start /\ \A i \in 1..Len(rows) : f[i] = ImportRow(rows[i], units, f[i - 1])
  BY <1>0, <1>1 DEF Loop
<1>3. \A i \in 0..Len(rows) : f[i] \in Stage
  <2> DEFINE Bad == {i \in 0..Len(rows) : f[i] \notin Stage}
  <2>1. SUFFICES ASSUME Bad # {} PROVE FALSE
    OBVIOUS
  <2>2. PICK k \in Bad : \A j \in Bad : k <= j
    <3>1. Bad \subseteq Nat
      BY <1>0
    <3> HIDE DEF Bad
    <3> QED
      BY <2>1, <3>1, LeastOf
  <2>3. k \in 0..Len(rows) /\ f[k] \notin Stage /\ k # 0
    BY <1>2, <2>2
  <2>4. k \in 1..Len(rows) /\ k - 1 \in 0..Len(rows) /\ ~(k <= k - 1)
    BY <1>0, <2>3
  <2>5. f[k - 1] \in Stage
    BY <2>2, <2>4
  <2>6. rows[k] \in FileRow /\ f[k] = ImportRow(rows[k], units, f[k - 1])
    BY <1>0, <1>2, <2>4
  <2> HIDE DEF Bad
  <2> QED
    BY <2>3, <2>5, <2>6, StageKept
<1>4. ASSUME NEW votes, NEW most \in Nat, Sound(start, votes, most)
      PROVE  Sound(f[Len(rows)], votes, most + Len(rows))
  <2> DEFINE Bad == {i \in 0..Len(rows) : ~Sound(f[i], votes, most + i)}
  <2>1. SUFFICES ASSUME Bad # {} PROVE FALSE
    BY <1>0
  <2>2. PICK k \in Bad : \A j \in Bad : k <= j
    <3>1. Bad \subseteq Nat
      BY <1>0
    <3> HIDE DEF Bad
    <3> QED
      BY <2>1, <3>1, LeastOf
  <2>a. most + 0 = most
    OBVIOUS
  <2>3. k \in 0..Len(rows) /\ ~Sound(f[k], votes, most + k) /\ k # 0
    BY <1>2, <1>4, <2>2, <2>a
  <2>4. k \in 1..Len(rows) /\ k - 1 \in 0..Len(rows) /\ ~(k <= k - 1) /\ most + (k - 1) \in Nat
        /\ most + (k - 1) + 1 = most + k
    BY <1>0, <2>3
  <2>5. Sound(f[k - 1], votes, most + (k - 1))
    BY <2>2, <2>4
  <2>6. rows[k] \in FileRow /\ f[k] = ImportRow(rows[k], units, f[k - 1]) /\ f[k - 1] \in Stage
    BY <1>0, <1>2, <1>3, <2>4
  <2> HIDE DEF Bad
  <2>7. Sound(f[k], votes, most + (k - 1) + 1)
    BY <2>4, <2>5, <2>6, StageSound
  <2> QED
    BY <2>3, <2>4, <2>7
<1>5. Imported(rows, units, start) \in Stage
  BY <1>0, <1>1, <1>3
<1> QED
  BY <1>1, <1>4, <1>5

-----------------------------------------------------------------------------
(* Roll: the inductive invariant. Of handlers that do not overlap it says    *)
(* that at most one is at work and that what it read is still so.            *)

RefsHold ==
    /\ bound.position \in Known \cup {None} /\ bound.rule \in Known \cup {None}
    /\ \A p \in Persons : people[p].unit \in Known \cup {None}
InvitesSome == \A h \in Clerks : clerk[h].op = "invite" => DOMAIN clerk[h].left # {}
OneAtWork == \A g, h \in Clerks : clerk[g] # Free /\ clerk[h] # Free => g = h
Fresh(work) ==
    /\ work.op = "import" =>
          /\ \A p \in DOMAIN work.seen : work.seen[p] = people[p] /\ work.seen[p].id # None
          /\ Cardinality(OnRoll(people)) + Len(work.rows) <= PlanLimit
    /\ work.op = "register" =>
          ~Registered(work.id, work.email) /\ Cardinality(OnRoll(people)) + 1 <= PlanLimit
    /\ work.op = "invite" => \A p \in DOMAIN work.left : work.left[p] = people[p]
RollKept ==
    Once(people) /\ voted = VotesIn(people) /\ ~dead /\ Cardinality(OnRoll(people)) <= PlanLimit
SerialHolds == OneAtWork /\ RollKept /\ \A h \in Clerks : Fresh(clerk[h])

RollInv == RollTypeOK /\ TreeHolds(tree) /\ RefsHold /\ InvitesSome /\ (queued => SerialHolds)

LEMMA EnrolledIs == Enrolled = OnRoll(people)
  BY DEF Enrolled, OnRoll

LEMMA NothingToDo ==
  /\ Free.op = "none" /\ Free \in Work /\ Fresh(Free)
  /\ \A work \in Work : work.op # "none" => work # Free
  BY DEF Free, Work, Fresh

LEMMA AllIdle ==
  ASSUME queued, Alone PROVE \A h \in Clerks : clerk[h] = Free
  BY DEF Alone

(* An operation of one step, when nobody else is in the middle of theirs. *)
LEMMA AloneStep ==
  ASSUME RollInv, Alone, UNCHANGED <<queued, clerk>>,
         poll' \in [codes : BOOLEAN, register : BOOLEAN, editable : BOOLEAN],
         TreeHolds(tree'), bound' \in [position : Units \cup {None}, rule : Units \cup {None}],
         bound'.position \in Known' \cup {None}, bound'.rule \in Known' \cup {None},
         Rows(people'), issued' \in Nat, steps' \in Nat, dead' = dead, voted' \subseteq Persons,
         \A p \in Persons : people'[p].unit \in Known' \cup {None},
         queued => Once(people') /\ voted' = VotesIn(people') /\ Cardinality(OnRoll(people')) <= PlanLimit
  PROVE  RollInv'
<1>1. RollTypeOK'
  BY DEF RollInv, RollTypeOK, TreeHolds, Rows
<1>2. RefsHold'
  BY DEF RefsHold
<1>3. InvitesSome'
  BY DEF RollInv, InvitesSome
<1>4. ASSUME queued' PROVE SerialHolds'
  <2>1. queued
    BY <1>4
  <2>2. \A h \in Clerks : clerk'[h] = Free
    BY <2>1, AllIdle
  <2>3. OneAtWork'
    BY <2>2 DEF OneAtWork
  <2>4. RollKept'
    BY <2>1 DEF RollInv, SerialHolds, RollKept
  <2>5. \A h \in Clerks : Fresh(clerk[h])'
    BY <2>2 DEF Fresh, Free
  <2> QED
    BY <2>3, <2>4, <2>5 DEF SerialHolds
<1> QED
  BY <1>1, <1>2, <1>3, <1>4 DEF RollInv

LEMMA LoadStep ==
  ASSUME RollInv, NEW h \in Clerks, Alone, NEW work \in Work, clerk' = [clerk EXCEPT ![h] = work],
         UNCHANGED <<queued, poll, tree, bound, people, issued, dead, voted>>, steps' \in Nat,
         work.op = "invite" => DOMAIN work.left # {}, queued => Fresh(work)
  PROVE  RollInv'
<1>0. clerk' \in [Clerks -> Work] /\ clerk'[h] = work /\ \A g \in Clerks : g # h => clerk'[g] = clerk[g]
  BY DEF RollInv, RollTypeOK
<1>1. RollTypeOK'
  BY <1>0 DEF RollInv, RollTypeOK
<1>2. RefsHold'
  BY DEF RollInv, RefsHold, Known
<1>3. InvitesSome'
  BY <1>0 DEF RollInv, InvitesSome
<1>4. ASSUME queued' PROVE SerialHolds'
  <2>1. queued
    BY <1>4
  <2>2. \A g \in Clerks : g # h => clerk'[g] = Free
    BY <1>0, <2>1, AllIdle
  <2>3. OneAtWork'
    BY <2>2 DEF OneAtWork
  <2>4. RollKept'
    BY <2>1 DEF RollInv, SerialHolds, RollKept
  <2>5. ASSUME NEW g \in Clerks PROVE Fresh(clerk[g])'
    <3>1. CASE g = h
      BY <1>0, <2>1, <3>1 DEF Fresh, Registered, Enrolled
    <3>2. CASE g # h
      BY <2>2, <3>2 DEF Fresh, Free
    <3> QED
      BY <3>1, <3>2
  <2> QED
    BY <2>3, <2>4, <2>5 DEF SerialHolds
<1>5. TreeHolds(tree')
  BY DEF RollInv
<1> QED
  BY <1>1, <1>2, <1>3, <1>4, <1>5 DEF RollInv

LEMMA SaveStep ==
  ASSUME RollInv, NEW h \in Clerks, clerk[h] # Free, clerk' = [clerk EXCEPT ![h] = Free],
         UNCHANGED <<queued, poll, tree, bound, dead, voted, steps>>,
         Rows(people'), issued' \in Nat, \A p \in Persons : people'[p].unit \in Known \cup {None},
         queued => Once(people') /\ VotesIn(people') = VotesIn(people) /\ Cardinality(OnRoll(people')) <= PlanLimit
  PROVE  RollInv'
<1>0. clerk' \in [Clerks -> Work] /\ clerk'[h] = Free /\ \A g \in Clerks : g # h => clerk'[g] = clerk[g]
  BY NothingToDo DEF RollInv, RollTypeOK
<1>1. RollTypeOK'
  BY <1>0 DEF RollInv, RollTypeOK, Rows
<1>2. RefsHold'
  BY DEF RollInv, RefsHold, Known
<1>3. InvitesSome'
  BY <1>0, NothingToDo DEF RollInv, InvitesSome
<1>4. ASSUME queued' PROVE SerialHolds'
  <2>1. queued
    BY <1>4
  <2>2. \A g \in Clerks : clerk'[g] = Free
    BY <1>0, <2>1 DEF RollInv, SerialHolds, OneAtWork
  <2>3. OneAtWork'
    BY <2>2 DEF OneAtWork
  <2>4. RollKept'
    BY <2>1 DEF RollInv, SerialHolds, RollKept
  <2>5. \A g \in Clerks : Fresh(clerk[g])'
    BY <2>2 DEF Fresh, Free
  <2> QED
    BY <2>3, <2>4, <2>5 DEF SerialHolds
<1>5. TreeHolds(tree')
  BY DEF RollInv
<1> QED
  BY <1>1, <1>2, <1>3, <1>4, <1>5 DEF RollInv

LEMMA InitRoll == RollInit => RollInv
<1> SUFFICES ASSUME RollInit PROVE RollInv
  OBVIOUS
<1>1. NoUnit \in UnitRow
  BY DEF NoUnit, UnitRow
<1>2. RollTypeOK
  BY <1>1, NothingToDo DEF RollInit, RollTypeOK
<1>3. TreeHolds(tree)
  BY <1>1 DEF RollInit, TreeHolds, KnownIn
<1>4. RefsHold
  BY NotAPerson DEF RollInit, RefsHold
<1>5. InvitesSome
  BY NothingToDo DEF RollInit, InvitesSome
<1>6. SerialHolds
  <2>1. OnRoll(people) = {} /\ VotesIn(people) = {}
    BY DEF RollInit, OnRoll, VotesIn
  <2>2. Cardinality(OnRoll(people)) <= PlanLimit
    BY <2>1, FS_EmptySet, RollAssumption DEF RollAssumption
  <2>3. RollKept
    BY <2>1, <2>2 DEF RollInit, RollKept, Once
  <2>4. OneAtWork
    BY DEF RollInit, OneAtWork
  <2>5. \A h \in Clerks : Fresh(clerk[h])
    BY NothingToDo DEF RollInit
  <2> QED
    BY <2>3, <2>4, <2>5 DEF SerialHolds
<1> QED
  BY <1>2, <1>3, <1>4, <1>5, <1>6 DEF RollInv

(* What the invariant says of the present, without the invariant's layers. *)
LEMMA Now ==
  ASSUME RollInv
  PROVE  /\ poll \in [codes : BOOLEAN, register : BOOLEAN, editable : BOOLEAN]
         /\ tree \in [Units -> UnitRow] /\ TreeHolds(tree)
         /\ bound \in [position : Units \cup {None}, rule : Units \cup {None}]
         /\ bound.position \in Known \cup {None} /\ bound.rule \in Known \cup {None}
         /\ Rows(people) /\ issued \in Nat /\ steps \in Nat /\ steps + 1 \in Nat /\ voted \subseteq Persons
         /\ \A p \in Persons : people[p].unit \in Known \cup {None}
         /\ clerk \in [Clerks -> Work]
         /\ queued => Once(people) /\ voted = VotesIn(people) /\ ~dead /\ Cardinality(OnRoll(people)) <= PlanLimit
  BY DEF RollInv, RollTypeOK, RefsHold, Rows, SerialHolds, RollKept

LEMMA UnitsKept ==
  ASSUME RollInv, NEW u \in Units, NEW parent, AddUnit(u, parent) \/ MoveUnit(u, parent)
  PROVE  RollInv'
<1>1. TreeHolds(tree') /\ Known \subseteq Known'
  <2>1. CASE AddUnit(u, parent)
    BY <2>1, Now, UnitAdded DEF Known, KnownIn
  <2>2. CASE MoveUnit(u, parent)
    BY <2>2, Now, UnitMoved DEF Known, KnownIn
  <2> QED
    BY <2>1, <2>2
<1>2. /\ Alone /\ UNCHANGED <<queued, poll, people, issued, dead, voted, clerk, bound>> /\ steps' = steps + 1
  BY DEF AddUnit, MoveUnit, UnitsOnly, Counted
<1>3. /\ bound'.position \in Known' \cup {None} /\ bound'.rule \in Known' \cup {None}
      /\ \A p \in Persons : people'[p].unit \in Known' \cup {None}
  BY <1>1, <1>2, Now
<1>4. /\ poll' \in [codes : BOOLEAN, register : BOOLEAN, editable : BOOLEAN]
      /\ bound' \in [position : Units \cup {None}, rule : Units \cup {None}]
      /\ Rows(people') /\ issued' \in Nat /\ steps' \in Nat /\ dead' = dead /\ voted' \subseteq Persons
      /\ UNCHANGED <<queued, clerk>>
  BY <1>2, Now
<1>5. queued => Once(people') /\ voted' = VotesIn(people') /\ Cardinality(OnRoll(people')) <= PlanLimit
  BY <1>2, Now
<1> QED
  BY <1>1, <1>2, <1>3, <1>4, <1>5, AloneStep

LEMMA RestrictKept ==
  ASSUME RollInv, NEW u \in Units \cup {None}, RestrictTo("position", u) \/ RestrictTo("rule", u)
  PROVE  RollInv'
<1>1. /\ Alone /\ UNCHANGED <<queued, poll, people, issued, dead, voted, clerk, tree>> /\ steps' = steps + 1
      /\ u \in Known \cup {None}
  BY DEF RestrictTo, UnitsOnly, Counted
<1>2. bound' = [bound EXCEPT !.position = u] \/ bound' = [bound EXCEPT !.rule = u]
  BY DEF RestrictTo
<1>3. Known' = Known
  BY <1>1 DEF Known
<1>4. /\ bound'.position \in Known' \cup {None} /\ bound'.rule \in Known' \cup {None}
      /\ bound' \in [position : Units \cup {None}, rule : Units \cup {None}]
  BY <1>1, <1>2, <1>3, Now
<1>5. /\ \A p \in Persons : people'[p].unit \in Known' \cup {None}
      /\ poll' \in [codes : BOOLEAN, register : BOOLEAN, editable : BOOLEAN] /\ TreeHolds(tree')
      /\ Rows(people') /\ issued' \in Nat /\ steps' \in Nat /\ dead' = dead /\ voted' \subseteq Persons
      /\ UNCHANGED <<queued, clerk>>
  BY <1>1, <1>3, Now
<1>6. queued => Once(people') /\ voted' = VotesIn(people') /\ Cardinality(OnRoll(people')) <= PlanLimit
  BY <1>1, Now
<1> QED
  BY <1>1, <1>4, <1>5, <1>6, AloneStep

LEMMA DeleteKept ==
  ASSUME RollInv, NEW u \in Units, DeleteUnit(u)
  PROVE  RollInv'
<1>1. /\ Alone /\ UNCHANGED <<queued, poll, issued, dead, voted, clerk>> /\ steps' = steps + 1
  BY DEF DeleteUnit, Counted
<1>2. TreeHolds(tree') /\ Known' = Known \ Below(u)
  BY Now, UnitDeleted DEF Known, KnownIn
<1>3. None \notin Units /\ Below(u) \subseteq Known /\ Known \subseteq Units
  BY RollAssumption DEF RollAssumption, Below, Known
<1> DEFINE Unless(v) == IF v \in Below(u) THEN None ELSE v
<1>4. \A v \in Known \cup {None} : Unless(v) \in Known' \cup {None} /\ Unless(v) \in Units \cup {None}
  BY <1>2, <1>3
<1>5. bound' = [position |-> Unless(bound.position), rule |-> Unless(bound.rule)]
  BY DEF DeleteUnit
<1>6. people' = [p \in Persons |-> [people[p] EXCEPT !.unit = Unless(people[p].unit)]]
  BY DEF DeleteUnit
<1> HIDE DEF Unless
<1>7. /\ bound'.position \in Known' \cup {None} /\ bound'.rule \in Known' \cup {None}
      /\ bound' \in [position : Units \cup {None}, rule : Units \cup {None}]
  BY <1>4, <1>5, Now
<1>8. ASSUME NEW p \in Persons
      PROVE  /\ people'[p].unit \in Known' \cup {None}
             /\ people[p] = NoPerson => people'[p] = NoPerson
             /\ people[p] # NoPerson => people'[p] \in PersonRow
             /\ people'[p].email = people[p].email /\ people'[p].id = people[p].id
             /\ people'[p].status = people[p].status
  <2>1. people[p] \in {NoPerson} \cup PersonRow /\ people[p].unit \in Known \cup {None}
    BY Now DEF Rows
  <2>2. PICK v : v = Unless(people[p].unit)
    OBVIOUS
  <2>3. v \in Known' \cup {None} /\ v \in Units \cup {None}
    BY <1>4, <2>1, <2>2
  <2>4. people'[p] = [people[p] EXCEPT !.unit = v]
    BY <1>6, <2>2
  <2>5. CASE people[p] = NoPerson
    <3>1. v = None
      BY <1>3, <2>2, <2>5, NotAPerson DEF Unless
    <3>2. people'[p] = [NoPerson EXCEPT !.unit = None]
      BY <2>4, <2>5, <3>1
    <3>3. people'[p] = NoPerson
      BY <3>2 DEF NoPerson
    <3> QED
      BY <2>5, <3>3, NotAPerson
  <2>6. CASE people[p] # NoPerson
    <3>1. PICK row \in PersonRow : row = people[p]
      BY <2>1, <2>6
    <3> QED
      BY <2>3, <2>4, <2>6, <3>1 DEF PersonRow
  <2> QED
    BY <2>5, <2>6
<1>9. Rows(people')
  BY <1>6, <1>8 DEF Rows
<1>10. OnRoll(people') = OnRoll(people)
  BY <1>8, NotAPerson DEF OnRoll
<1>11. VotesIn(people') = VotesIn(people)
  BY <1>8, <1>10 DEF VotesIn, OnRoll
<1>12. queued => Once(people') /\ voted' = VotesIn(people') /\ Cardinality(OnRoll(people')) <= PlanLimit
  <2>1. \A p \in OnRoll(people) : people'[p].email = people[p].email /\ people'[p].id = people[p].id
    BY <1>8 DEF OnRoll
  <2>2. Once(people) => Once(people')
    BY <1>10, <2>1, Altered
  <2> QED
    BY <1>1, <1>10, <1>11, <2>2, Now
<1>13. /\ poll' \in [codes : BOOLEAN, register : BOOLEAN, editable : BOOLEAN]
       /\ issued' \in Nat /\ steps' \in Nat /\ dead' = dead /\ voted' \subseteq Persons
       /\ UNCHANGED <<queued, clerk>>
  BY <1>1, Now
<1>14. \A p \in Persons : people'[p].unit \in Known' \cup {None}
  BY <1>8
<1> QED
  BY <1>1, <1>2, <1>7, <1>9, <1>12, <1>13, <1>14, AloneStep

LEMMA FreezeKept ==
  ASSUME RollInv, FreezeRoll
  PROVE  RollInv'
<1>1. /\ Alone /\ UNCHANGED <<queued, tree, bound, people, issued, dead, voted, clerk>> /\ steps' = steps + 1
      /\ poll' = [poll EXCEPT !.editable = ~@]
  BY DEF FreezeRoll, Counted
<1>2. poll' \in [codes : BOOLEAN, register : BOOLEAN, editable : BOOLEAN]
  BY <1>1, Now
<1>3. Known' = Known
  BY <1>1 DEF Known
<1>4. /\ TreeHolds(tree') /\ bound' \in [position : Units \cup {None}, rule : Units \cup {None}]
      /\ bound'.position \in Known' \cup {None} /\ bound'.rule \in Known' \cup {None}
      /\ \A p \in Persons : people'[p].unit \in Known' \cup {None}
      /\ Rows(people') /\ issued' \in Nat /\ steps' \in Nat /\ dead' = dead /\ voted' \subseteq Persons
      /\ UNCHANGED <<queued, clerk>>
  BY <1>1, <1>3, Now
<1>5. queued => Once(people') /\ voted' = VotesIn(people') /\ Cardinality(OnRoll(people')) <= PlanLimit
  BY <1>1, Now
<1> QED
  BY <1>1, <1>2, <1>4, <1>5, AloneStep

(* Operations on the roll alone. *)
LEMMA RollStep ==
  ASSUME RollInv, Alone, Counted, RollOnly, Rows(people'), issued' \in Nat, dead' = dead, voted' \subseteq Persons,
         \A p \in Persons : people'[p].unit \in Known \cup {None},
         queued => Once(people') /\ voted' = VotesIn(people') /\ Cardinality(OnRoll(people')) <= PlanLimit
  PROVE  RollInv'
<1>1. UNCHANGED <<queued, poll, tree, bound, clerk>> /\ steps' = steps + 1
  BY DEF RollOnly, Counted
<1>2. Known' = Known
  BY <1>1 DEF Known
<1>3. /\ TreeHolds(tree') /\ bound' \in [position : Units \cup {None}, rule : Units \cup {None}]
      /\ bound'.position \in Known' \cup {None} /\ bound'.rule \in Known' \cup {None}
      /\ \A p \in Persons : people'[p].unit \in Known' \cup {None}
      /\ poll' \in [codes : BOOLEAN, register : BOOLEAN, editable : BOOLEAN] /\ steps' \in Nat
      /\ UNCHANGED <<queued, clerk>>
  BY <1>1, <1>2, Now
<1> QED
  BY <1>3, AloneStep

(* One row is replaced: reset, re-sent, set to another status. *)
LEMMA OneSaved ==
  ASSUME RollInv, Alone, Counted, RollOnly, issued' \in Nat, UNCHANGED <<dead, voted>>,
         NEW p \in Enrolled, people[p].status # "VOTED", NEW row \in PersonRow, row.status # "VOTED",
         row.id = people[p].id, row.email = people[p].email, row.unit = people[p].unit,
         people' = [people EXCEPT ![p] = row]
  PROVE  RollInv'
<1>1. Rows(people) /\ p \in OnRoll(people) /\ p \in Persons
  BY Now, EnrolledIs DEF Enrolled
<1>2. PICK r : r = people /\ Rows(r) /\ p \in OnRoll(r)
  BY <1>1
<1>3. PICK s : s = people'
  OBVIOUS
<1>4. /\ Rows(s) /\ OnRoll(s) = OnRoll(r) /\ VotesIn(s) = VotesIn(r)
      /\ Once(r) => Once(s)
  BY <1>2, <1>3, Saved
<1>5. \A q \in Persons : people'[q].unit \in Known \cup {None}
  BY <1>1, Now DEF Rows
<1>6. queued => Once(people') /\ voted' = VotesIn(people') /\ Cardinality(OnRoll(people')) <= PlanLimit
  BY <1>2, <1>3, <1>4, Now
<1>7. voted' \subseteq Persons /\ Rows(people')
  BY <1>3, <1>4, Now
<1> QED
  BY <1>5, <1>6, <1>7, RollStep

LEMMA RewriteKept ==
  ASSUME RollInv, NEW p \in Persons,
         Reset(p) \/ Resend(p) \/ \E answer \in VoterStates \ {"VOTED"} : SetStatus(p, answer)
  PROVE  RollInv'
<1>1. /\ Alone /\ Counted /\ RollOnly /\ UNCHANGED <<dead, voted>>
      /\ p \in Enrolled /\ people[p].status # "VOTED"
  BY DEF Reset, Resend, SetStatus
<1>2. PICK row \in PersonRow : row = people[p]
  BY <1>1, Now, EnrolledIs, RowOf
<1>3. row.unit \in Known \cup {None} /\ issued \in Nat /\ issued + 1 \in Nat
  BY <1>2, Now
<1>4. CASE Reset(p) \/ Resend(p)
  <2>1. people' = [people EXCEPT ![p].code = issued + 1] /\ issued' = issued + 1
    BY <1>4 DEF Reset, Resend, NewCode
  <2>2. PICK new : new = [row EXCEPT !.code = issued + 1]
    OBVIOUS
  <2>3. new \in PersonRow /\ new.id = row.id /\ new.email = row.email /\ new.unit = row.unit /\ new.status = row.status
    BY <1>3, <2>2 DEF PersonRow
  <2>4. people' = [people EXCEPT ![p] = new]
    BY <1>2, <2>1, <2>2
  <2>5. issued' \in Nat /\ new.status # "VOTED"
    BY <1>1, <1>2, <1>3, <2>1, <2>3
  <2> QED
    BY <1>1, <1>2, <2>3, <2>4, <2>5, OneSaved
<1>5. ASSUME NEW answer \in VoterStates \ {"VOTED"}, SetStatus(p, answer) PROVE RollInv'
  <2>1. people' = [people EXCEPT ![p].status = answer] /\ issued' = issued
    BY <1>5 DEF SetStatus
  <2>2. PICK new : new = [row EXCEPT !.status = answer]
    OBVIOUS
  <2>3. new \in PersonRow /\ new.id = row.id /\ new.email = row.email /\ new.unit = row.unit /\ new.status = answer
    BY <2>2 DEF PersonRow
  <2>4. people' = [people EXCEPT ![p] = new]
    BY <1>2, <2>1, <2>2
  <2> QED
    BY <1>1, <1>2, <1>3, <2>1, <2>3, <2>4, OneSaved
<1> QED
  BY <1>4, <1>5

LEMMA ThinKept ==
  ASSUME RollInv, Clear \/ \E p \in Persons : RemoveVoter(p)
  PROVE  RollInv'
<1>1. Alone /\ Counted /\ RollOnly /\ UNCHANGED <<issued, dead, voted>>
  BY DEF Clear, RemoveVoter
<1>2. PICK r : r = people /\ Rows(r)
  BY Now
<1>3. PICK s : s = people'
  OBVIOUS
<1>4. /\ s \in [Persons -> {NoPerson} \cup PersonRow]
      /\ \A p \in Persons : s[p] = r[p] \/ s[p] = NoPerson
      /\ \A p \in VotesIn(r) : s[p] = r[p]
  <2>1. CASE Clear
    BY <1>2, <1>3, <2>1 DEF Clear, Rows, VotesIn, OnRoll
  <2>2. ASSUME NEW p \in Persons, RemoveVoter(p)
        PROVE  /\ s \in [Persons -> {NoPerson} \cup PersonRow]
               /\ \A q \in Persons : s[q] = r[q] \/ s[q] = NoPerson
               /\ \A q \in VotesIn(r) : s[q] = r[q]
    BY <1>2, <1>3, <2>2 DEF RemoveVoter, Rows, VotesIn, OnRoll
  <2> QED
    BY <2>1, <2>2
<1>5. /\ Once(r) => Once(s)
      /\ Cardinality(OnRoll(s)) <= Cardinality(OnRoll(r))
      /\ VotesIn(s) = VotesIn(r)
  BY <1>2, <1>4, Thinned
<1>6. \A p \in Persons : people'[p].unit \in Known \cup {None}
  BY <1>2, <1>3, <1>4, Now, NotAPerson
<1>7. IsFiniteSet(OnRoll(r)) /\ IsFiniteSet(OnRoll(s))
  BY PersonsFinite, FS_Subset DEF OnRoll
<1>8. Cardinality(OnRoll(r)) \in Nat /\ Cardinality(OnRoll(s)) \in Nat /\ PlanLimit \in Nat
  BY <1>7, FS_CardinalityType, RollAssumption DEF RollAssumption
<1>9. queued => Once(people') /\ voted' = VotesIn(people') /\ Cardinality(OnRoll(people')) <= PlanLimit
  <2>1. ASSUME queued PROVE Cardinality(OnRoll(s)) <= PlanLimit
    <3>1. Cardinality(OnRoll(r)) <= PlanLimit
      BY <1>2, <2>1, Now
    <3> QED
      BY <1>5, <1>8, <3>1
  <2> QED
    BY <1>1, <1>2, <1>3, <1>5, <2>1, Now
<1>10. Rows(people') /\ issued' \in Nat /\ dead' = dead /\ voted' \subseteq Persons
  BY <1>1, <1>3, <1>4, Now DEF Rows
<1> QED
  BY <1>1, <1>6, <1>9, <1>10, RollStep

LEMMA ResetAllKept ==
  ASSUME RollInv, ResetAll
  PROVE  RollInv'
<1>1. Alone /\ Counted /\ RollOnly /\ UNCHANGED <<dead, voted>>
  BY DEF ResetAll
<1> DEFINE holders == {p \in Enrolled : people[p].status # "VOTED" /\ people[p].code # 0}
           Nth(p) == issued + Cardinality({q \in holders : q <= p})
<1>2. /\ people' = [p \in Persons |-> IF p \in holders THEN [people[p] EXCEPT !.code = Nth(p)] ELSE people[p]]
      /\ issued' = issued + Cardinality(holders)
  BY DEF ResetAll
<1>3. holders \subseteq Enrolled /\ Enrolled \subseteq Persons
  BY DEF Enrolled
<1> HIDE DEF holders
<1>4. \A S \in SUBSET holders : Cardinality(S) \in Nat
  <2>1. \A S \in SUBSET holders : IsFiniteSet(S)
    BY <1>3, PersonsFinite, FS_Subset
  <2> QED
    BY <2>1, FS_CardinalityType
<1>5. ASSUME NEW p \in Persons PROVE Nth(p) \in Nat
  <2>1. {q \in holders : q <= p} \in SUBSET holders
    OBVIOUS
  <2> QED
    BY <1>4, <2>1, Now
<1>6. issued' \in Nat
  BY <1>2, <1>4, Now
<1> HIDE DEF Nth
<1>7. ASSUME NEW p \in Persons
      PROVE  /\ people[p] = NoPerson => people'[p] = NoPerson
             /\ people[p] # NoPerson => people'[p] \in PersonRow
             /\ people'[p].email = people[p].email /\ people'[p].id = people[p].id
             /\ people'[p].status = people[p].status /\ people'[p].unit = people[p].unit
  <2>1. CASE p \in holders
    <3>1. people[p] \in PersonRow /\ people[p] # NoPerson
      BY <1>3, <2>1, Now, EnrolledIs, RowOf DEF Enrolled
    <3>2. PICK row \in PersonRow : row = people[p]
      BY <3>1
    <3>3. PICK n \in Nat : n = Nth(p)
      BY <1>5
    <3>4. people'[p] = [row EXCEPT !.code = n]
      BY <1>2, <2>1, <3>2, <3>3
    <3> QED
      BY <3>1, <3>2, <3>4 DEF PersonRow
  <2>2. CASE p \notin holders
    BY <1>2, <2>2, Now DEF Rows
  <2> QED
    BY <2>1, <2>2
<1>8. Rows(people')
  BY <1>2, <1>7 DEF Rows
<1>9. OnRoll(people') = OnRoll(people)
  BY <1>7, NotAPerson DEF OnRoll
<1>10. VotesIn(people') = VotesIn(people)
  BY <1>7, <1>9 DEF VotesIn, OnRoll
<1>11. queued => Once(people') /\ voted' = VotesIn(people') /\ Cardinality(OnRoll(people')) <= PlanLimit
  <2>1. \A p \in OnRoll(people) : people'[p].email = people[p].email /\ people'[p].id = people[p].id
    BY <1>7 DEF OnRoll
  <2>2. Once(people) => Once(people')
    BY <1>9, <2>1, Altered
  <2> QED
    BY <1>1, <1>9, <1>10, <2>2, Now
<1>12. \A p \in Persons : people'[p].unit \in Known \cup {None}
  BY <1>7, Now
<1>13. dead' = dead /\ voted' \subseteq Persons
  BY <1>1, Now
<1> QED
  BY <1>1, <1>6, <1>8, <1>11, <1>12, <1>13, RollStep

(* A cast: the row is VOTED, and the voter one of those who voted. *)
LEMMA CastKept ==
  ASSUME RollInv, NEW p \in Persons, Cast(p)
  PROVE  RollInv'
<1>1. /\ Alone /\ Counted /\ RollOnly /\ UNCHANGED <<issued, dead>> /\ voted' = voted \cup {p}
      /\ people' = [people EXCEPT ![p].status = "VOTED", ![p].code = 0]
      /\ p \in Enrolled
  BY DEF Cast
<1>2. PICK r : r = people /\ Rows(r) /\ p \in OnRoll(r)
  BY <1>1, Now, EnrolledIs
<1>3. PICK row \in PersonRow : row = r[p]
  BY <1>2, RowOf
<1>4. PICK new : new = [row EXCEPT !.status = "VOTED", !.code = 0]
  OBVIOUS
<1>5. new \in PersonRow /\ new.id = row.id /\ new.email = row.email /\ new.unit = row.unit /\ new.status = "VOTED"
  BY <1>4 DEF PersonRow, VoterStates
<1>6. PICK s : s = people'
  OBVIOUS
<1>7. s = [r EXCEPT ![p] = new]
  BY <1>1, <1>2, <1>3, <1>4, <1>6 DEF Rows
<1>8. s[p] = new /\ \A q \in Persons : q # p => s[q] = r[q]
  BY <1>7, <1>2 DEF Rows
<1>9. Rows(s)
  BY <1>2, <1>5, <1>7 DEF Rows
<1>10. OnRoll(s) = OnRoll(r)
  BY <1>2, <1>5, <1>8, NotAPerson DEF OnRoll
<1>11. VotesIn(s) = VotesIn(r) \cup {p}
  BY <1>2, <1>5, <1>8, <1>10 DEF VotesIn, OnRoll
<1>12. Once(r) => Once(s)
  <2>1. \A q \in OnRoll(r) : s[q].email = r[q].email /\ s[q].id = r[q].id
    BY <1>3, <1>5, <1>8 DEF OnRoll
  <2> QED
    BY <1>10, <2>1, Altered
<1>13. queued => Once(people') /\ voted' = VotesIn(people') /\ Cardinality(OnRoll(people')) <= PlanLimit
  BY <1>1, <1>2, <1>6, <1>10, <1>11, <1>12, Now
<1>14. \A q \in Persons : people'[q].unit \in Known \cup {None}
  BY <1>2, <1>3, <1>5, <1>6, <1>8, Now
<1>15. Rows(people') /\ issued' \in Nat /\ dead' = dead /\ voted' \subseteq Persons
  BY <1>1, <1>6, <1>9, Now
<1> QED
  BY <1>1, <1>13, <1>14, <1>15, RollStep

(* What Insert does to the roll. *)
LEMMA InsertDoes ==
  ASSUME Rows(people), issued \in Nat, NEW row, NEW coded, Insert(row, coded),
         row.id \in Ids \cup {None}, row.email \in Mails \cup {None}, row.unit = None,
         row.status \in VoterStates \ {"VOTED"}, row = [NoPerson EXCEPT !.id = row.id, !.email = row.email, !.status = row.status]
  PROVE  /\ Rows(people') /\ issued' \in Nat
         /\ Cardinality(OnRoll(people')) = Cardinality(OnRoll(people)) + 1
         /\ VotesIn(people') = VotesIn(people)
         /\ \A p \in Persons : people'[p].unit = people[p].unit \/ people'[p].unit = None
         /\ Once(people) /\ (row.id = None /\ row.email # None => \A p \in OnRoll(people) : people[p].email # row.email)
               => Once(people')
<1>1. PICK n : n = First(Vacant(people))
  OBVIOUS
<1>2. n \in Vacant(people) /\ n \in Persons
  <2>1. Vacant(people) \subseteq Persons /\ Vacant(people) # {}
    BY DEF Vacant, Insert
  <2> QED
    BY <1>1, <2>1, FirstOne
<1>3. PICK new : new = [row EXCEPT !.code = IF coded THEN issued + 1 ELSE 0]
  OBVIOUS
<1>4. PICK c \in Nat : c = IF coded THEN issued + 1 ELSE 0
  OBVIOUS
<1>5. new = [id |-> row.id, email |-> row.email, unit |-> None, status |-> row.status, code |-> c]
  BY <1>3, <1>4 DEF NoPerson
<1>6. new \in PersonRow /\ new.id = row.id /\ new.email = row.email /\ new.unit = None /\ new.status = row.status
  BY <1>5 DEF PersonRow
<1>7. PICK r, s : r = people /\ s = people' /\ Rows(r) /\ n \in Vacant(r)
  BY <1>2
<1>8. s = [r EXCEPT ![n] = new]
  BY <1>1, <1>3, <1>7 DEF Insert
<1>9. new.status # "VOTED"
  BY <1>6
<1>a. PICK g \in PersonRow : g = new
  BY <1>6
<1>b. g.status # "VOTED" /\ s = [r EXCEPT ![n] = g]
  BY <1>8, <1>9, <1>a
<1>f. Rows(r)
  BY <1>7
<1>g. n \in Vacant(r)
  BY <1>7
<1>h. g.status # "VOTED"
  BY <1>b
<1>i. s = [r EXCEPT ![n] = g]
  BY <1>b
<1>j. GoesOn(r, s, n, g)
  BY <1>f, <1>g, <1>h, <1>i, Added
<1>10. /\ Rows(s)
       /\ Cardinality(OnRoll(s)) = Cardinality(OnRoll(r)) + 1
       /\ VotesIn(s) = VotesIn(r)
       /\ Once(r) /\ (new.id = None /\ new.email # None => \A p \in OnRoll(r) : r[p].email # new.email) => Once(s)
  BY <1>a, <1>j DEF GoesOn
<1>11. \A p \in Persons : s[p].unit = r[p].unit \/ s[p].unit = None
  BY <1>6, <1>7, <1>8 DEF Rows
<1>12. issued' \in Nat
  BY DEF Insert
<1> QED
  BY <1>6, <1>7, <1>10, <1>11, <1>12

LEMMA GenerateKept ==
  ASSUME RollInv, GenerateCode
  PROVE  RollInv'
<1>1. Alone /\ Counted /\ RollOnly /\ UNCHANGED <<dead, voted>> /\ WithinPlan(1)
  BY DEF GenerateCode
<1>2. PICK row : row = [NoPerson EXCEPT !.status = "ELIGIBLE"]
  OBVIOUS
<1>3. Insert(row, TRUE)
  BY <1>2 DEF GenerateCode
<1>4. /\ row.id = None /\ row.email = None /\ row.unit = None /\ row.status = "ELIGIBLE"
      /\ row = [NoPerson EXCEPT !.id = row.id, !.email = row.email, !.status = row.status]
  BY <1>2 DEF NoPerson
<1>5. /\ row.id \in Ids \cup {None} /\ row.email \in Mails \cup {None} /\ row.status \in VoterStates \ {"VOTED"}
      /\ ~(row.id = None /\ row.email # None)
  BY <1>4 DEF VoterStates
<1>6. Rows(people) /\ issued \in Nat
  BY Now
<1>7. /\ Rows(people') /\ issued' \in Nat
      /\ Cardinality(OnRoll(people')) = Cardinality(OnRoll(people)) + 1
      /\ VotesIn(people') = VotesIn(people)
      /\ \A p \in Persons : people'[p].unit = people[p].unit \/ people'[p].unit = None
      /\ Once(people) => Once(people')
  BY <1>3, <1>4, <1>5, <1>6, InsertDoes
<1>8. \A p \in Persons : people'[p].unit \in Known \cup {None}
  BY <1>7, Now
<1>9. queued => Once(people') /\ voted' = VotesIn(people') /\ Cardinality(OnRoll(people')) <= PlanLimit
  BY <1>1, <1>7, Now, EnrolledIs DEF WithinPlan
<1>10. dead' = dead /\ voted' \subseteq Persons
  BY <1>1, Now
<1> QED
  BY <1>1, <1>7, <1>8, <1>9, <1>10, RollStep

-----------------------------------------------------------------------------
(* Roll: units by their label. The paths are ordered, so of the units that   *)
(* answer to a label one is the last.                                        *)

LEMMA SmallestOf ==
  ASSUME NEW S, IsFiniteSet(S), NEW Bad, Bad \subseteq SUBSET S, Bad # {}
  PROVE  \E T \in Bad : IsFiniteSet(T) /\ \A U \in SUBSET T : U # T => U \notin Bad
<1>1. \A T \in SUBSET S : IsFiniteSet(T) /\ Cardinality(T) \in Nat
  BY FS_Subset, FS_CardinalityType
<1> DEFINE Sizes == {Cardinality(T) : T \in Bad}
<1>2. Sizes \subseteq Nat /\ Sizes # {}
  BY <1>1
<1>3. PICK k \in Sizes : \A j \in Sizes : k <= j
  <2> HIDE DEF Sizes
  <2> QED
    BY <1>2, LeastOf
<1>4. PICK T \in Bad : Cardinality(T) = k
  BY <1>3
<1>5. ASSUME NEW U \in SUBSET T, U # T, U \in Bad PROVE FALSE
  <2>1. IsFiniteSet(T) /\ Cardinality(U) < Cardinality(T)
    BY <1>1, <1>5, FS_Subset
  <2>2. Cardinality(T) <= Cardinality(U)
    BY <1>3, <1>4, <1>5
  <2>3. Cardinality(T) \in Nat /\ Cardinality(U) \in Nat
    BY <1>1, <1>4, <1>5
  <2> QED
    BY <2>1, <2>2, <2>3
<1> QED
  BY <1>1, <1>4, <1>5

Shorter(s, t) == Len(s) < Len(t) /\ \A j \in 1..Len(s) : s[j] = t[j]
Smaller(s, t) ==
    \E i \in DOMAIN s \cap DOMAIN t : s[i] < t[i] /\ \A j \in 1..(i - 1) : s[j] = t[j]
Ahead(s, t) == Shorter(s, t) \/ Smaller(s, t)

LEMMA BeforeBoth ==
  ASSUME NEW i \in Nat, i >= 1, NEW k \in Nat, i <= k, NEW n \in Nat, k <= n
  PROVE  i \in 1..n /\ (i # k => i \in 1..(k - 1)) /\ \A j \in 1..(i - 1) : j \in 1..(k - 1)
  OBVIOUS

LEMMA AheadIsOrder ==
  ASSUME NEW a \in Seq(Nat), NEW b \in Seq(Nat), NEW c \in Seq(Nat), Ahead(a, b), Ahead(b, c)
  PROVE  Ahead(a, c)
<1>1. /\ Len(a) \in Nat /\ Len(b) \in Nat /\ Len(c) \in Nat
      /\ DOMAIN a = 1..Len(a) /\ DOMAIN b = 1..Len(b) /\ DOMAIN c = 1..Len(c)
      /\ \A i \in 1..Len(a) : a[i] \in Nat
      /\ \A i \in 1..Len(b) : b[i] \in Nat
      /\ \A i \in 1..Len(c) : c[i] \in Nat
  OBVIOUS
<1>2. CASE Shorter(a, b) /\ Shorter(b, c)
  <2>1. Shorter(a, c)
    BY <1>1, <1>2 DEF Shorter
  <2> QED
    BY <2>1 DEF Ahead
<1>3. CASE Shorter(a, b) /\ Smaller(b, c)
  <2>1. PICK i \in 1..Len(b) : i \in 1..Len(c) /\ b[i] < c[i] /\ \A j \in 1..(i - 1) : b[j] = c[j]
    BY <1>1, <1>3 DEF Smaller
  <2>2. Len(a) < Len(b) /\ \A j \in 1..Len(a) : a[j] = b[j]
    BY <1>3 DEF Shorter
  <2>3. CASE i <= Len(a)
    <3>1. i \in 1..Len(a) /\ \A j \in 1..(i - 1) : j \in 1..Len(a)
      BY <1>1, <2>1, <2>3
    <3>2. a[i] < c[i] /\ \A j \in 1..(i - 1) : a[j] = c[j]
      BY <2>1, <2>2, <3>1
    <3> QED
      BY <1>1, <2>1, <3>1, <3>2 DEF Smaller, Ahead
  <2>4. CASE ~(i <= Len(a))
    <3>1. Len(a) < Len(c) /\ \A j \in 1..Len(a) : j \in 1..(i - 1)
      BY <1>1, <2>1, <2>4
    <3>2. \A j \in 1..Len(a) : a[j] = c[j]
      BY <2>1, <2>2, <3>1
    <3> QED
      BY <3>1, <3>2 DEF Shorter, Ahead
  <2> QED
    BY <2>3, <2>4
<1>4. CASE Smaller(a, b) /\ Shorter(b, c)
  <2>1. PICK i \in 1..Len(a) : i \in 1..Len(b) /\ a[i] < b[i] /\ \A j \in 1..(i - 1) : a[j] = b[j]
    BY <1>1, <1>4 DEF Smaller
  <2>2. Len(b) < Len(c) /\ \A j \in 1..Len(b) : b[j] = c[j]
    BY <1>4 DEF Shorter
  <2>3. i \in 1..Len(c) /\ \A j \in 1..(i - 1) : j \in 1..Len(b)
    BY <1>1, <2>1, <2>2
  <2>4. a[i] < c[i] /\ \A j \in 1..(i - 1) : a[j] = c[j]
    BY <2>1, <2>2, <2>3
  <2> QED
    BY <1>1, <2>3, <2>4 DEF Smaller, Ahead
<1>5. CASE Smaller(a, b) /\ Smaller(b, c)
  <2>1. PICK i \in 1..Len(a) : i \in 1..Len(b) /\ a[i] < b[i] /\ \A j \in 1..(i - 1) : a[j] = b[j]
    BY <1>1, <1>5 DEF Smaller
  <2>2. PICK k \in 1..Len(b) : k \in 1..Len(c) /\ b[k] < c[k] /\ \A j \in 1..(k - 1) : b[j] = c[j]
    BY <1>1, <1>5 DEF Smaller
  <2>3. CASE i <= k
    <3>1. i \in 1..Len(c) /\ (i # k => i \in 1..(k - 1)) /\ \A j \in 1..(i - 1) : j \in 1..(k - 1)
      <4>1. PICK n \in Nat : n = Len(c)
        BY <1>1
      <4>2. i \in Nat /\ i >= 1 /\ k \in Nat /\ k <= n
        BY <2>1, <2>2, <4>1
      <4>3. i \in 1..n /\ (i # k => i \in 1..(k - 1)) /\ \A j \in 1..(i - 1) : j \in 1..(k - 1)
        BY <2>3, <4>1, <4>2, BeforeBoth
      <4> QED
        BY <4>1, <4>3
    <3>2. a[i] \in Nat /\ b[i] \in Nat /\ c[i] \in Nat
      BY <1>1, <2>1, <3>1
    <3>3. b[i] < c[i] \/ b[i] = c[i]
      <4>1. CASE i = k
        BY <2>2, <4>1
      <4>2. CASE i # k
        <5>1. i \in 1..(k - 1)
          BY <3>1, <4>2
        <5> QED
          BY <2>2, <5>1
      <4> QED
        BY <4>1, <4>2
    <3>4. a[i] < c[i]
      <4>1. PICK x \in Nat, y \in Nat, z \in Nat : x = a[i] /\ y = b[i] /\ z = c[i]
        BY <3>2
      <4>2. x < y /\ (y < z \/ y = z)
        BY <2>1, <3>3, <4>1
      <4>3. x < z
        BY <4>2
      <4> QED
        BY <4>1, <4>3
    <3>5. \A j \in 1..(i - 1) : a[j] = c[j]
      BY <2>1, <2>2, <3>1
    <3> QED
      BY <1>1, <3>1, <3>4, <3>5 DEF Smaller, Ahead
  <2>4. CASE ~(i <= k)
    <3>1. k \in 1..Len(a) /\ k \in 1..(i - 1) /\ \A j \in 1..(k - 1) : j \in 1..(i - 1)
      BY <1>1, <2>1, <2>2, <2>4
    <3>2. a[k] < c[k] /\ \A j \in 1..(k - 1) : a[j] = c[j]
      BY <2>1, <2>2, <3>1
    <3> QED
      BY <1>1, <2>2, <3>1, <3>2 DEF Smaller, Ahead
  <2> QED
    BY <2>3, <2>4
<1> QED
  BY <1>2, <1>3, <1>4, <1>5 DEF Ahead

LEMMA AheadIsTotal ==
  ASSUME NEW a \in Seq(Nat), NEW b \in Seq(Nat), a # b
  PROVE  Ahead(a, b) \/ Ahead(b, a)
<1>1. /\ Len(a) \in Nat /\ Len(b) \in Nat
      /\ DOMAIN a = 1..Len(a) /\ DOMAIN b = 1..Len(b)
      /\ \A i \in 1..Len(a) : a[i] \in Nat
      /\ \A i \in 1..Len(b) : b[i] \in Nat
  OBVIOUS
<1> DEFINE Odd == {i \in Nat : i \in 1..Len(a) /\ i \in 1..Len(b) /\ a[i] # b[i]}
<1>2. CASE Odd = {}
  <2>1. ASSUME NEW i \in 1..Len(a), i \in 1..Len(b) PROVE a[i] = b[i]
    <3>1. i \in Nat /\ i \notin Odd
      BY <1>2
    <3> QED
      BY <2>1, <3>1
  <2>2. CASE Len(a) < Len(b)
    <3>1. \A i \in 1..Len(a) : a[i] = b[i]
      BY <1>1, <2>1, <2>2
    <3> QED
      BY <2>2, <3>1 DEF Ahead, Shorter
  <2>3. CASE Len(b) < Len(a)
    <3>1. \A i \in 1..Len(b) : b[i] = a[i]
      BY <1>1, <2>1, <2>3
    <3> QED
      BY <2>3, <3>1 DEF Ahead, Shorter
  <2>4. CASE Len(a) = Len(b)
    BY <2>1, <2>4, SeqEqual
  <2> HIDE DEF Odd
  <2>5. Len(a) < Len(b) \/ Len(b) < Len(a) \/ Len(a) = Len(b)
    <3>1. PICK m \in Nat, n \in Nat : m = Len(a) /\ n = Len(b)
      BY <1>1
    <3>2. m < n \/ n < m \/ m = n
      OBVIOUS
    <3> QED
      BY <3>1, <3>2
  <2> QED
    BY <2>2, <2>3, <2>4, <2>5
<1>3. CASE Odd # {}
  <2>1. PICK i \in Odd : \A j \in Odd : i <= j
    <3>1. Odd \subseteq Nat
      OBVIOUS
    <3> HIDE DEF Odd
    <3> QED
      BY <1>3, <3>1, LeastOf
  <2>2. i \in 1..Len(a) /\ i \in 1..Len(b) /\ a[i] # b[i] /\ a[i] \in Nat /\ b[i] \in Nat
    BY <1>1, <2>1
  <2>3. ASSUME NEW j \in 1..(i - 1) PROVE a[j] = b[j]
    <3>1. j \in Nat /\ j \in 1..Len(a) /\ j \in 1..Len(b) /\ ~(i <= j)
      BY <1>1, <2>2
    <3> QED
      BY <2>1, <3>1
  <2>4. i \in DOMAIN a \cap DOMAIN b
    BY <1>1, <2>2
  <2>5. CASE a[i] < b[i]
    BY <2>3, <2>4, <2>5 DEF Ahead, Smaller
  <2>6. CASE b[i] < a[i]
    BY <2>3, <2>4, <2>6 DEF Ahead, Smaller
  <2>7. a[i] < b[i] \/ b[i] < a[i]
    BY <2>2
  <2> QED
    BY <2>5, <2>6, <2>7
<1> QED
  BY <1>2, <1>3

LEMMA BeforeIsAhead ==
  ASSUME TreeHolds(tree), NEW u \in Known, NEW v \in Known
  PROVE  /\ Before(u, v) <=> Ahead(Path(u), Path(v))
         /\ Path(u) \in Seq(Nat)
         /\ u # v => Path(u) # Path(v)
<1>1. /\ Path(u) \in Seq(Units) /\ Path(v) \in Seq(Units) /\ Units \subseteq Nat
      /\ Leads(tree, u) /\ Leads(tree, v)
  BY RollAssumption DEF TreeHolds, UnitRow, Known, KnownIn, Path, RollAssumption
<1>2. PICK s \in Seq(Units), t \in Seq(Units) : s = Path(u) /\ t = Path(v)
  BY <1>1
<1>3. u # v => s # t
  BY <1>1, <1>2 DEF Leads, Path
<1>4. s # t /\ IsPrefix(s, t) <=> Shorter(s, t)
  <2>0. Len(s) \in Nat /\ Len(t) \in Nat
    OBVIOUS
  <2>1. IsPrefix(s, t) <=> Len(s) <= Len(t) /\ \A i \in 1..Len(s) : s[i] = t[i]
    BY PrefixIs
  <2>2. ASSUME s # t, IsPrefix(s, t) PROVE Shorter(s, t)
    <3>1. Len(s) # Len(t)
      BY <2>1, <2>2, SeqEqual
    <3> QED
      BY <2>0, <2>1, <2>2, <3>1 DEF Shorter
  <2>3. ASSUME Shorter(s, t) PROVE s # t /\ IsPrefix(s, t)
    BY <2>0, <2>1, <2>3 DEF Shorter
  <2> QED
    BY <2>2, <2>3
<1>5. Before(u, v) <=> Ahead(s, t)
  BY <1>2, <1>4 DEF Before, Ahead, Smaller
<1>6. s \in Seq(Nat)
  BY <1>1, SeqMonotonic
<1> QED
  BY <1>2, <1>3, <1>5, <1>6

LEMMA LookupIs ==
  ASSUME TreeHolds(tree), NEW label
  PROVE  Lookup(label) \in Known \cup {None}
<1> DEFINE hits == {u \in Known : u = label \/ NameOf[u] = label}
<1>1. CASE hits = {}
  BY <1>1 DEF Lookup
<1>2. CASE hits # {}
  <2> DEFINE LastOf(T) == \E u \in T : \A v \in T \ {u} : Before(v, u)
             Bad == {T \in SUBSET Known : T # {} /\ ~LastOf(T)}
  <2>1. Bad = {}
    <3>1. SUFFICES ASSUME Bad # {} PROVE FALSE
      OBVIOUS
    <3>2. IsFiniteSet(Known) /\ Bad \subseteq SUBSET Known
      BY FS_Subset, RollAssumption DEF RollAssumption, Known
    <3>3. PICK T \in Bad : IsFiniteSet(T) /\ \A U \in SUBSET T : U # T => U \notin Bad
      <4> HIDE DEF Bad
      <4> QED
        BY <3>1, <3>2, SmallestOf
    <3>4. T \subseteq Known /\ T # {} /\ ~LastOf(T)
      OBVIOUS
    <3>5. PICK x \in T : TRUE
      BY <3>4
    <3>6. T \ {x} # {}
      BY <3>4, <3>5
    <3>7. LastOf(T \ {x})
      <4>1. T \ {x} \in SUBSET T /\ T \ {x} # T /\ T \ {x} \in SUBSET Known
        BY <3>4, <3>5
      <4> QED
        BY <3>3, <3>6, <4>1
    <3>8. PICK m \in T \ {x} : \A v \in (T \ {x}) \ {m} : Before(v, m)
      BY <3>7
    <3>9. x \in Known /\ m \in Known /\ x # m
      BY <3>4, <3>5, <3>8
    <3>10. Before(x, m) \/ Before(m, x)
      <4>1. Path(x) \in Seq(Nat) /\ Path(m) \in Seq(Nat) /\ Path(x) # Path(m)
        BY <3>9, BeforeIsAhead
      <4>2. Ahead(Path(x), Path(m)) \/ Ahead(Path(m), Path(x))
        BY <4>1, AheadIsTotal
      <4> QED
        BY <3>9, <4>2, BeforeIsAhead
    <3>11. CASE Before(x, m)
      <4>1. \A v \in T \ {m} : Before(v, m)
        BY <3>8, <3>11
      <4> QED
        BY <3>4, <3>8, <4>1
    <3>12. CASE Before(m, x)
      <4>1. ASSUME NEW v \in T \ {x} PROVE Before(v, x)
        <5>1. CASE v = m
          BY <3>12, <5>1
        <5>2. CASE v # m
          <6>1. v \in Known /\ Before(v, m)
            BY <3>4, <3>8, <5>2
          <6>2. Ahead(Path(v), Path(m)) /\ Ahead(Path(m), Path(x))
            BY <3>9, <3>12, <6>1, BeforeIsAhead
          <6>3. Path(v) \in Seq(Nat) /\ Path(m) \in Seq(Nat) /\ Path(x) \in Seq(Nat)
            BY <3>9, <6>1, BeforeIsAhead
          <6>4. Ahead(Path(v), Path(x))
            BY <6>2, <6>3, AheadIsOrder
          <6> QED
            BY <3>9, <6>1, <6>4, BeforeIsAhead
        <5> QED
          BY <5>1, <5>2
      <4> QED
        BY <3>4, <3>5, <4>1
    <3> QED
      BY <3>10, <3>11, <3>12
  <2>2. \E u \in hits : \A v \in hits \ {u} : Before(v, u)
    <3>1. hits \in SUBSET Known
      OBVIOUS
    <3> QED
      BY <1>2, <2>1, <3>1
  <2>3. Lookup(label) = CHOOSE u \in hits : \A v \in hits \ {u} : Before(v, u)
    BY <1>2 DEF Lookup
  <2>4. Lookup(label) \in hits
    <3> HIDE DEF hits
    <3> QED
      BY <2>2, <2>3
  <2> QED
    BY <2>4
<1> QED
  BY <1>1, <1>2

-----------------------------------------------------------------------------
(* Roll: what handlers load, and what they do with it.                       *)

LEMMA WorkIs ==
  ASSUME NEW work \in Work
  PROVE  /\ work.op = "import" => work \in [op : {"import"}, rows : Seq(FileRow),
                                            units : [Units -> Units \cup {None}], seen : Loaded]
         /\ work.op = "register" => work \in [op : {"register"}, id : Ids \cup {None}, email : Mails]
         /\ work.op = "invite" => work \in [op : {"invite"}, left : Loaded]
  BY DEF Work, Free

LEMMA ImportLoads ==
  ASSUME RollInv, NEW h \in Clerks, NEW file \in Files, ImportLoad(h, file)
  PROVE  RollInv'
<1>1. /\ Alone /\ Counted /\ WithinPlan(Len(file.rows))
      /\ UNCHANGED <<queued, poll, tree, bound, people, issued, dead, voted>>
  BY DEF ImportLoad
<1>2. file \in [header : BOOLEAN, rows : Seq(FileRow)]
  BY RollAssumption DEF RollAssumption
<1>3. PICK f \in Seq(FileRow) : f = file.rows
  BY <1>2
<1>4. Uploaded(file) \in Seq(FileRow) /\ Len(Uploaded(file)) = Len(f)
  <2>1. PICK bare : bare = [i \in DOMAIN f |-> [f[i] EXCEPT !.unit = None]]
    OBVIOUS
  <2>2. Len(f) \in Nat /\ DOMAIN f = 1..Len(f) /\ \A i \in 1..Len(f) : f[i] \in FileRow
    OBVIOUS
  <2>3. \A i \in 1..Len(f) : [f[i] EXCEPT !.unit = None] \in FileRow
    <3>1. ASSUME NEW row \in FileRow PROVE [row EXCEPT !.unit = None] \in FileRow
      BY DEF FileRow
    <3> QED
      BY <2>2, <3>1
  <2>4. bare \in [1..Len(f) -> FileRow]
    BY <2>1, <2>2, <2>3
  <2>5. bare \in Seq(FileRow) /\ Len(bare) = Len(f)
    BY <2>2, <2>4
  <2> QED
    BY <1>3, <2>1, <2>5 DEF Uploaded
<1>5. PICK rows \in Seq(FileRow) : rows = Uploaded(file) /\ Len(rows) = Len(f)
  BY <1>4
<1>6. PICK units : units = [u \in Units |-> Lookup(u)]
  OBVIOUS
<1>7. units \in [Units -> Units \cup {None}]
  <2>1. \A u \in Units : Lookup(u) \in Units \cup {None}
    BY Now, LookupIs DEF Known
  <2> QED
    BY <1>6, <2>1
<1> DEFINE D == {q \in Enrolled : people[q].id # None}
<1>8. PICK seen : seen = [p \in D |-> people[p]]
  OBVIOUS
<1>9. seen \in Loaded
  <2>1. D \in SUBSET Persons /\ \A p \in D : people[p] \in PersonRow
    BY Now, EnrolledIs, RowOf DEF Enrolled
  <2>2. seen = [p \in D |-> seen[p]] /\ \A p \in D : seen[p] \in PersonRow
    BY <1>8, <2>1
  <2> HIDE DEF D
  <2> QED
    BY <2>1, <2>2, IsLoaded
<1>10. PICK work : work = [op |-> "import", rows |-> rows, units |-> units, seen |-> seen]
  OBVIOUS
<1>11. clerk' = [clerk EXCEPT ![h] = work]
  BY <1>5, <1>6, <1>8, <1>10 DEF ImportLoad
<1>12. work \in Work
  BY <1>7, <1>9, <1>10 DEF Work
<1>13. Fresh(work)
  <2>1. \A p \in DOMAIN seen : seen[p] = people[p] /\ seen[p].id # None
    BY <1>8
  <2>2. Cardinality(OnRoll(people)) + Len(rows) <= PlanLimit
    BY <1>1, <1>3, <1>5, EnrolledIs DEF WithinPlan
  <2>3. work.op = "import" /\ work.seen = seen /\ work.rows = rows
    BY <1>10
  <2> HIDE DEF D
  <2> QED
    BY <2>1, <2>2, <2>3 DEF Fresh
<1>14. work.op # "invite" /\ steps' \in Nat
  BY <1>1, <1>10, Now DEF Counted
<1> QED
  BY <1>1, <1>11, <1>12, <1>13, <1>14, LoadStep

LEMMA RegisterChecks ==
  ASSUME RollInv, NEW h \in Clerks, NEW id \in Ids \cup {None}, NEW email \in Mails, RegisterCheck(h, id, email)
  PROVE  RollInv'
<1>1. /\ Alone /\ Counted /\ WithinPlan(1) /\ ~Registered(id, email)
      /\ UNCHANGED <<queued, poll, tree, bound, people, issued, dead, voted>>
  BY DEF RegisterCheck
<1>2. PICK work : work = [op |-> "register", id |-> id, email |-> email]
  OBVIOUS
<1>3. clerk' = [clerk EXCEPT ![h] = work]
  BY <1>2 DEF RegisterCheck
<1>4. work \in Work
  BY <1>2 DEF Work
<1>5. work.op = "register" /\ work.id = id /\ work.email = email
  BY <1>2
<1>6. Fresh(work)
  BY <1>1, <1>5, EnrolledIs DEF Fresh, WithinPlan
<1>7. work.op # "invite" /\ steps' \in Nat
  BY <1>1, <1>5, Now DEF Counted
<1> QED
  BY <1>1, <1>3, <1>4, <1>6, <1>7, LoadStep

LEMMA InviteLoads ==
  ASSUME RollInv, NEW h \in Clerks, NEW some \in SUBSET Enrolled, InviteLoad(h, some)
  PROVE  RollInv'
<1>1. /\ Alone /\ Counted /\ some # {}
      /\ UNCHANGED <<queued, poll, tree, bound, people, issued, dead, voted>>
  BY DEF InviteLoad
<1>2. PICK left : left = [p \in some |-> people[p]]
  OBVIOUS
<1>3. left \in Loaded
  <2>1. some \in SUBSET Persons /\ \A p \in some : people[p] \in PersonRow
    BY Now, EnrolledIs, RowOf DEF Enrolled
  <2>2. left = [p \in some |-> left[p]] /\ \A p \in some : left[p] \in PersonRow
    BY <1>2, <2>1
  <2> QED
    BY <2>1, <2>2, IsLoaded
<1>4. PICK work : work = [op |-> "invite", left |-> left]
  OBVIOUS
<1>5. clerk' = [clerk EXCEPT ![h] = work]
  BY <1>2, <1>4 DEF InviteLoad
<1>6. work \in Work
  BY <1>3, <1>4 DEF Work
<1>7. work.op = "invite" /\ work.left = left /\ DOMAIN left = some /\ \A p \in some : left[p] = people[p]
  BY <1>2, <1>4
<1>8. Fresh(work)
  BY <1>7 DEF Fresh
<1>9. steps' \in Nat
  BY <1>1, Now DEF Counted
<1> QED
  BY <1>1, <1>5, <1>6, <1>7, <1>8, <1>9, LoadStep

LEMMA ImportStores ==
  ASSUME RollInv, NEW h \in Clerks, ImportStore(h)
  PROVE  RollInv'
<1>1. /\ clerk[h].op = "import" /\ clerk' = [clerk EXCEPT ![h] = Free]
      /\ UNCHANGED <<queued, poll, tree, bound, dead, voted, steps>>
  BY DEF ImportStore
<1>2. PICK work \in Work : work = clerk[h]
  BY Now
<1>3. work.rows \in Seq(FileRow) /\ work.units \in [Units -> Units \cup {None}] /\ work.seen \in Loaded
  BY <1>1, <1>2, WorkIs
<1>4. PICK rows \in Seq(FileRow), units \in [Units -> Units \cup {None}], seen \in Loaded :
        rows = work.rows /\ units = work.units /\ seen = work.seen
  BY <1>3
<1>5. PICK start : start = [people |-> people, issued |-> issued, seen |-> seen]
  OBVIOUS
<1>6. start \in Stage
  BY <1>4, <1>5, Now DEF Stage, Rows
<1>7. PICK made : made = Imported(rows, units, start)
  OBVIOUS
<1>8. /\ made \in Stage
      /\ \A votes : \A most \in Nat : Sound(start, votes, most) => Sound(made, votes, most + Len(rows))
  BY <1>6, <1>7, ImportKept
<1>9. IF {made.people[p].unit : p \in Persons} \subseteq Known \cup {None}
      THEN people' = made.people /\ issued' = made.issued
      ELSE UNCHANGED <<people, issued>>
  BY <1>2, <1>4, <1>5, <1>7 DEF ImportStore
<1>10. clerk[h] # Free
  BY <1>1, NothingToDo
<1>11. CASE people' = made.people /\ issued' = made.issued /\ {made.people[p].unit : p \in Persons} \subseteq Known \cup {None}
  <2>1. Rows(people') /\ issued' \in Nat
    BY <1>8, <1>11 DEF Stage, Rows
  <2>2. \A p \in Persons : people'[p].unit \in Known \cup {None}
    BY <1>11
  <2>3. ASSUME queued
        PROVE  Once(people') /\ VotesIn(people') = VotesIn(people) /\ Cardinality(OnRoll(people')) <= PlanLimit
    <3>1. /\ \A p \in DOMAIN seen : seen[p] = people[p] /\ seen[p].id # None
          /\ Cardinality(OnRoll(people)) + Len(rows) <= PlanLimit
      BY <1>1, <1>2, <1>4, <2>3 DEF RollInv, SerialHolds, Fresh
    <3>2. PICK c \in Nat : c = Cardinality(OnRoll(people))
      <4>1. IsFiniteSet(OnRoll(people))
        BY PersonsFinite, FS_Subset DEF OnRoll
      <4> QED
        BY <4>1, FS_CardinalityType
    <3>3. start.people = people /\ start.seen = seen
      BY <1>5
    <3>4. Sound(start, VotesIn(people), c)
      BY <2>3, <3>1, <3>2, <3>3, Now DEF Sound
    <3>5. Sound(made, VotesIn(people), c + Len(rows))
      BY <1>8, <3>4
    <3>6. /\ Once(made.people) /\ VotesIn(made.people) = VotesIn(people)
          /\ Cardinality(OnRoll(made.people)) <= c + Len(rows)
      BY <3>5 DEF Sound
    <3>7. Cardinality(OnRoll(made.people)) <= PlanLimit
      <4>1. IsFiniteSet(OnRoll(made.people))
        BY PersonsFinite, FS_Subset DEF OnRoll
      <4>2. Cardinality(OnRoll(made.people)) \in Nat /\ PlanLimit \in Nat /\ Len(rows) \in Nat
        BY <4>1, FS_CardinalityType, RollAssumption DEF RollAssumption
      <4>3. c + Len(rows) <= PlanLimit
        BY <3>1, <3>2
      <4> QED
        BY <3>6, <4>2, <4>3
    <3> QED
      BY <1>11, <3>6, <3>7
  <2> QED
    BY <1>1, <1>10, <2>1, <2>2, <2>3, SaveStep
<1>12. CASE UNCHANGED <<people, issued>>
  <2>1. /\ Rows(people') /\ issued' \in Nat
        /\ \A p \in Persons : people'[p].unit \in Known \cup {None}
        /\ queued => Once(people') /\ VotesIn(people') = VotesIn(people) /\ Cardinality(OnRoll(people')) <= PlanLimit
    BY <1>12, Now
  <2> QED
    BY <1>1, <1>10, <2>1, SaveStep
<1> QED
  BY <1>9, <1>11, <1>12

LEMMA RegisterSaves ==
  ASSUME RollInv, NEW h \in Clerks, RegisterSave(h)
  PROVE  RollInv'
<1>1. /\ clerk[h].op = "register" /\ clerk' = [clerk EXCEPT ![h] = Free]
      /\ UNCHANGED <<queued, poll, tree, bound, dead, voted, steps>>
  BY DEF RegisterSave
<1>2. PICK work \in Work : work = clerk[h]
  BY Now
<1>3. work.id \in Ids \cup {None} /\ work.email \in Mails
  BY <1>1, <1>2, WorkIs
<1>4. clerk[h] # Free
  BY <1>1, NothingToDo
<1>5. CASE \E p \in Enrolled : work.id # None /\ people[p].id = work.id
  <2>1. UNCHANGED <<people, issued>>
    BY <1>2, <1>5 DEF RegisterSave
  <2>2. /\ Rows(people') /\ issued' \in Nat
        /\ \A p \in Persons : people'[p].unit \in Known \cup {None}
        /\ queued => Once(people') /\ VotesIn(people') = VotesIn(people) /\ Cardinality(OnRoll(people')) <= PlanLimit
    BY <2>1, Now
  <2> QED
    BY <1>1, <1>4, <2>2, SaveStep
<1>6. CASE ~\E p \in Enrolled : work.id # None /\ people[p].id = work.id
  <2>1. PICK row : row = [NoPerson EXCEPT !.id = work.id, !.email = work.email, !.status = "VERIFIED"]
    OBVIOUS
  <2>2. Insert(row, poll.codes)
    BY <1>2, <1>6, <2>1 DEF RegisterSave
  <2>3. /\ row.id = work.id /\ row.email = work.email /\ row.unit = None /\ row.status = "VERIFIED"
        /\ row = [NoPerson EXCEPT !.id = row.id, !.email = row.email, !.status = row.status]
    BY <2>1 DEF NoPerson
  <2>4. row.id \in Ids \cup {None} /\ row.email \in Mails \cup {None} /\ row.status \in VoterStates \ {"VOTED"}
    BY <1>3, <2>3 DEF VoterStates
  <2>5. Rows(people) /\ issued \in Nat
    BY Now
  <2>6. /\ Rows(people') /\ issued' \in Nat
        /\ Cardinality(OnRoll(people')) = Cardinality(OnRoll(people)) + 1
        /\ VotesIn(people') = VotesIn(people)
        /\ \A p \in Persons : people'[p].unit = people[p].unit \/ people'[p].unit = None
        /\ Once(people) /\ (row.id = None /\ row.email # None => \A p \in OnRoll(people) : people[p].email # row.email)
              => Once(people')
    BY <2>2, <2>3, <2>4, <2>5, InsertDoes
  <2>7. \A p \in Persons : people'[p].unit \in Known \cup {None}
    BY <2>6, Now
  <2>8. ASSUME queued PROVE Once(people') /\ Cardinality(OnRoll(people')) <= PlanLimit
    <3>1. ~Registered(work.id, work.email) /\ Cardinality(OnRoll(people)) + 1 <= PlanLimit
      BY <1>1, <1>2, <2>8 DEF RollInv, SerialHolds, Fresh
    <3>2. \A p \in OnRoll(people) : people[p].email # row.email
      BY <2>3, <3>1, EnrolledIs DEF Registered
    <3> QED
      BY <2>6, <2>8, <3>1, <3>2, Now
  <2> QED
    BY <1>1, <1>4, <2>6, <2>7, <2>8, SaveStep
<1> QED
  BY <1>5, <1>6

LEMMA InviteSends ==
  ASSUME RollInv, NEW h \in Clerks, InviteNext(h)
  PROVE  RollInv'
<1>1. clerk[h].op = "invite" /\ UNCHANGED <<queued, poll, tree, bound, people, issued, voted, steps>>
  BY DEF InviteNext
<1>2. PICK work \in Work : work = clerk[h]
  BY Now
<1>3. PICK left \in Loaded : left = work.left /\ work = [op |-> "invite", left |-> left]
  BY <1>1, <1>2, WorkIs
<1>4. /\ DOMAIN left \subseteq Persons /\ DOMAIN left # {}
      /\ \A q \in DOMAIN left : left[q] \in PersonRow
  BY <1>1, <1>2, <1>3, LoadedRow DEF RollInv, InvitesSome
<1>5. PICK p \in DOMAIN left : p = First(DOMAIN left)
  BY <1>4, FirstOne
<1>6. PICK rest : rest = DOMAIN left \ {p}
  OBVIOUS
<1>7. PICK tail : tail = [q \in rest |-> left[q]]
  OBVIOUS
<1>8. tail \in Loaded /\ DOMAIN tail = rest
  <2>1. rest \in SUBSET Persons /\ \A q \in rest : left[q] \in PersonRow
    BY <1>4, <1>6
  <2>2. tail = [q \in rest |-> tail[q]] /\ \A q \in rest : tail[q] \in PersonRow
    BY <1>7, <2>1
  <2> QED
    BY <1>7, <2>1, <2>2, IsLoaded
<1>9. PICK next : next = IF rest = {} THEN Free ELSE [op |-> "invite", left |-> tail]
  OBVIOUS
<1>10. /\ dead' \in BOOLEAN /\ clerk' = [clerk EXCEPT ![h] = next]
       /\ dead' <=> (dead \/ (left[p].email # None /\ ~Fits(left[p], people[p])))
  <2>1. clerk[h].left = left
    BY <1>2, <1>3
  <2>2. dead' = (dead \/ (left[p].email # None /\ ~Fits(left[p], people[p])))
    BY <1>5, <2>1, Zenon DEF InviteNext
  <2>3. clerk' = [clerk EXCEPT ![h] = IF rest = {} THEN Free ELSE [clerk[h] EXCEPT !.left = tail]]
    BY <1>5, <1>6, <1>7, <2>1, Zenon DEF InviteNext
  <2>4. [clerk[h] EXCEPT !.left = tail] = [op |-> "invite", left |-> tail]
    BY <1>2, <1>3
  <2>5. clerk' = [clerk EXCEPT ![h] = next]
    BY <1>9, <2>3, <2>4
  <2>6. dead' \in BOOLEAN
    BY <2>2
  <2>7. dead' <=> (dead \/ (left[p].email # None /\ ~Fits(left[p], people[p])))
    BY <2>2, Zenon
  <2> QED
    BY <2>5, <2>6, <2>7
<1>11. next \in Work /\ (next.op = "invite" => DOMAIN next.left # {})
  <2>1. CASE rest = {}
    BY <1>9, <2>1, NothingToDo
  <2>2. CASE rest # {}
    <3>1. next = [op |-> "invite", left |-> tail]
      BY <1>9, <2>2
    <3>2. next \in [op : {"invite"}, left : Loaded]
      BY <1>8, <3>1
    <3>3. next.left = tail
      BY <3>1
    <3> QED
      BY <1>8, <2>2, <3>2, <3>3 DEF Work
  <2> QED
    BY <2>1, <2>2
<1>12. clerk' \in [Clerks -> Work] /\ clerk'[h] = next /\ \A g \in Clerks : g # h => clerk'[g] = clerk[g]
  BY <1>10, <1>11, Now
<1>13. RollTypeOK'
  BY <1>1, <1>10, <1>12 DEF RollInv, RollTypeOK
<1>14. RefsHold'
  BY <1>1 DEF RollInv, RefsHold, Known
<1>15. InvitesSome'
  BY <1>11, <1>12 DEF RollInv, InvitesSome
<1>16. TreeHolds(tree')
  BY <1>1 DEF RollInv
<1>17. ASSUME queued' PROVE SerialHolds'
  <2>0. SerialHolds
    BY <1>1, <1>17 DEF RollInv
  <2>1. \A g \in Clerks : g # h => clerk'[g] = Free
    <3>1. clerk[h] # Free
      BY <1>1, NothingToDo
    <3> QED
      BY <1>12, <2>0, <3>1 DEF SerialHolds, OneAtWork
  <2>2. \A q \in DOMAIN left : left[q] = people[q]
    BY <1>1, <1>2, <1>3, <2>0 DEF SerialHolds, Fresh
  <2>3. ~dead'
    BY <1>10, <2>0, <2>2 DEF SerialHolds, RollKept, Fits
  <2>4. RollKept'
    BY <1>1, <2>0, <2>3 DEF SerialHolds, RollKept
  <2>5. OneAtWork'
    BY <2>1 DEF OneAtWork
  <2>6. ASSUME NEW g \in Clerks PROVE Fresh(clerk[g])'
    <3>1. CASE g # h
      BY <2>1, <3>1 DEF Fresh, Free
    <3>2. CASE g = h /\ rest = {}
      BY <1>9, <1>12, <3>2 DEF Fresh, Free
    <3>3. CASE g = h /\ rest # {}
      <4>1. clerk'[g] = [op |-> "invite", left |-> tail]
        BY <1>9, <1>12, <3>3
      <4>2. \A q \in DOMAIN tail : tail[q] = people'[q]
        BY <1>1, <1>6, <1>7, <2>2
      <4>3. clerk'[g].op = "invite" /\ clerk'[g].left = tail
        BY <4>1
      <4> QED
        BY <4>2, <4>3 DEF Fresh
    <3> QED
      BY <3>1, <3>2, <3>3
  <2> QED
    BY <2>4, <2>5, <2>6 DEF SerialHolds
<1> QED
  BY <1>13, <1>14, <1>15, <1>16, <1>17 DEF RollInv

LEMMA RollNextKept ==
  ASSUME RollInv, [RollNext]_rollVars
  PROVE  RollInv'
<1>1. CASE UNCHANGED rollVars
  BY <1>1 DEF rollVars, RollInv, RollTypeOK, RefsHold, InvitesSome, SerialHolds, OneAtWork, RollKept,
              Fresh, Known, Registered, Enrolled
<1>2. CASE \E u \in Units : DeleteUnit(u)
  BY <1>2, DeleteKept
<1>3. CASE \E u \in Units, v \in Units \cup {None} : AddUnit(u, v) \/ MoveUnit(u, v)
  BY <1>3, UnitsKept
<1>4. CASE \E u \in Units \cup {None} : RestrictTo("position", u) \/ RestrictTo("rule", u)
  BY <1>4, RestrictKept
<1>5. ASSUME NEW h \in Clerks,
             \/ \E file \in Files : ImportLoad(h, file)
             \/ \E id \in Ids \cup {None}, email \in Mails : RegisterCheck(h, id, email)
             \/ InviteLoad(h, Waiting)
             \/ \E p \in Enrolled : InviteLoad(h, {p})
             \/ ImportStore(h) \/ RegisterSave(h) \/ InviteNext(h)
      PROVE  RollInv'
  <2>1. CASE \E file \in Files : ImportLoad(h, file)
    BY <2>1, ImportLoads
  <2>2. CASE \E id \in Ids \cup {None}, email \in Mails : RegisterCheck(h, id, email)
    BY <2>2, RegisterChecks
  <2>3. CASE InviteLoad(h, Waiting)
    <3>1. Waiting \in SUBSET Enrolled
      BY DEF Waiting
    <3> QED
      BY <2>3, <3>1, InviteLoads
  <2>4. ASSUME NEW p \in Enrolled, InviteLoad(h, {p}) PROVE RollInv'
    <3>1. {p} \in SUBSET Enrolled
      OBVIOUS
    <3> QED
      BY <2>4, <3>1, InviteLoads
  <2> QED
    BY <1>5, <2>1, <2>2, <2>3, <2>4, ImportStores, RegisterSaves, InviteSends
<1>6. CASE GenerateCode \/ Clear \/ FreezeRoll \/ ResetAll
  BY <1>6, GenerateKept, ThinKept, FreezeKept, ResetAllKept
<1>7. ASSUME NEW p \in Persons,
             \/ RemoveVoter(p) \/ Reset(p) \/ Resend(p) \/ Cast(p)
             \/ \E answer \in VoterStates \ {"VOTED"} : SetStatus(p, answer)
      PROVE  RollInv'
  BY <1>7, ThinKept, RewriteKept, CastKept
<1> QED
  BY <1>1, <1>2, <1>3, <1>4, <1>5, <1>6, <1>7 DEF RollNext

-----------------------------------------------------------------------------
(* Roll: turnout by unit. A sum over the cells of a partition counts         *)
(* everything once.                                                          *)

OneOf(s) == CHOOSE x \in s : TRUE
Summing(it, g, S) == it = [s \in SUBSET S |-> IF s = {} THEN 0 ELSE g[OneOf(s)] + it[s \ {OneOf(s)}]]

LEMMA CellsAddUp ==
  ASSUME NEW D, IsFiniteSet(D), NEW V, IsFiniteSet(V), NEW cell \in [V -> D],
         NEW g, \A u \in D : g[u] = Cardinality({p \in V : cell[p] = u})
  PROVE  (CHOOSE it : Summing(it, g, D))[D] = Cardinality(V)
<1> DEFINE Part(s) == {p \in V : cell[p] \in s}
           count == [s \in SUBSET D |-> Cardinality(Part(s))]
<1>1. \A s \in SUBSET D : IsFiniteSet(Part(s)) /\ Cardinality(Part(s)) \in Nat
  <2>1. \A s \in SUBSET D : Part(s) \subseteq V
    OBVIOUS
  <2> QED
    BY <2>1, FS_Subset, FS_CardinalityType
<1>2. ASSUME NEW s \in SUBSET D
      PROVE  count[s] = IF s = {} THEN 0 ELSE g[OneOf(s)] + count[s \ {OneOf(s)}]
  <2>1. CASE s = {}
    <3>1. Part(s) = {}
      BY <2>1
    <3> QED
      BY <2>1, <3>1, FS_EmptySet
  <2>2. CASE s # {}
    <3>1. PICK u \in s : u = OneOf(s)
      BY <2>2 DEF OneOf
    <3>2. PICK t \in SUBSET D : t = s \ {u}
      OBVIOUS
    <3>3. PICK A, B : A = {p \in V : cell[p] = u} /\ B = Part(t)
      OBVIOUS
    <3>4. Part(s) = A \cup B /\ A \cap B = {}
      BY <3>1, <3>2, <3>3
    <3>5. IsFiniteSet(A) /\ IsFiniteSet(B)
      BY <1>1, <3>2, <3>3, FS_Subset
    <3>6. Cardinality(A \cup B) = Cardinality(A) + Cardinality(B) - Cardinality(A \cap B)
      BY <3>5, FS_Union
    <3>7. Cardinality(A \cap B) = 0 /\ Cardinality(A) \in Nat /\ Cardinality(B) \in Nat
      BY <3>4, <3>5, FS_EmptySet, FS_CardinalityType
    <3>8. Cardinality(A \cup B) = Cardinality(A) + Cardinality(B)
      BY <3>6, <3>7
    <3>9. count[s] = Cardinality(A \cup B) /\ count[t] = Cardinality(B) /\ g[u] = Cardinality(A)
      BY <3>1, <3>2, <3>3, <3>4
    <3> QED
      BY <2>2, <3>1, <3>2, <3>8, <3>9
  <2> QED
    BY <2>1, <2>2
<1>3. Summing(count, g, D)
  <2>1. count = [s \in SUBSET D |-> count[s]]
    OBVIOUS
  <2> HIDE DEF count
  <2> QED
    BY <1>2, <2>1 DEF Summing
<1>4. PICK it : it = CHOOSE i : Summing(i, g, D)
  OBVIOUS
<1>5. Summing(it, g, D)
  <2> HIDE DEF count
  <2> QED
    BY <1>3, <1>4
<1>6. it[D] = count[D]
  <2> DEFINE Bad == {s \in SUBSET D : it[s] # count[s]}
  <2>1. SUFFICES ASSUME Bad # {} PROVE FALSE
    OBVIOUS
  <2>2. PICK s \in Bad : \A t \in SUBSET s : t # s => t \notin Bad
    <3>1. Bad \subseteq SUBSET D
      OBVIOUS
    <3> HIDE DEF Bad
    <3> QED
      BY <2>1, <3>1, SmallestOf
  <2> HIDE DEF count
  <2>3. s \in SUBSET D /\ it[s] # count[s]
    BY <2>2
  <2>4. it[s] = IF s = {} THEN 0 ELSE g[OneOf(s)] + it[s \ {OneOf(s)}]
    BY <1>5, <2>3 DEF Summing
  <2>5. s # {}
    BY <1>2, <2>3, <2>4
  <2>6. PICK u \in s : u = OneOf(s)
    BY <2>5 DEF OneOf
  <2>7. it[s \ {u}] = count[s \ {u}]
    BY <2>2, <2>3, <2>6
  <2> QED
    BY <1>2, <2>3, <2>4, <2>5, <2>6, <2>7
<1>7. Part(D) = V
  OBVIOUS
<1> QED
  BY <1>4, <1>6, <1>7

LEMMA TurnoutSum ==
  ASSUME Rows(people), \A p \in Persons : people[p].unit \in Units \cup {None}
  PROVE  /\ Turnout.voted = FoldFunction(LAMBDA a, b : a + b, 0, Turnout.units)
         /\ Turnout.voted <= Turnout.eligible
<1> DEFINE V == VotedIn(Enrolled)
           D == Units \cup {None}
           g == [u \in D |-> Cardinality(VotedIn(InUnit(u)))]
           cell == [p \in V |-> people[p].unit]
<1>1. Turnout.voted = Cardinality(V) /\ Turnout.units = g
  BY DEF Turnout
<1>2. IsFiniteSet(Enrolled) /\ IsFiniteSet(V) /\ V \subseteq Enrolled /\ V \subseteq Persons
  BY PersonsFinite, FS_Subset DEF Enrolled, VotedIn
<1>3. IsFiniteSet(D)
  BY FS_AddElement, RollAssumption DEF RollAssumption
<1>4. cell \in [V -> D]
  BY <1>2
<1>5. \A u \in D : g[u] = Cardinality({p \in V : cell[p] = u})
  <2>1. ASSUME NEW u \in D PROVE VotedIn(InUnit(u)) = {p \in V : cell[p] = u}
    BY DEF VotedIn, InUnit
  <2> QED
    BY <2>1
<1>6. DOMAIN g = D
  OBVIOUS
<1> HIDE DEF g, V, D, cell
<1>7. (CHOOSE it : Summing(it, g, D))[D] = Cardinality(V)
  BY <1>2, <1>3, <1>4, <1>5, CellsAddUp
<1>8. FoldFunction(LAMBDA a, b : a + b, 0, g) = (CHOOSE it : Summing(it, g, D))[D]
  BY <1>6 DEF FoldFunction, FoldFunctionOnSet, MapThenFoldSet, Summing, OneOf
<1>9. Turnout.voted <= Turnout.eligible
  <2> DEFINE E == {p \in Enrolled : people[p].status \notin {"SUSPENDED", "INELIGIBLE"}}
  <2>1. V \subseteq E /\ IsFiniteSet(E)
    BY <1>2, FS_Subset DEF V, VotedIn
  <2>2. Turnout.eligible = Cardinality(E)
    BY DEF Turnout
  <2> HIDE DEF E
  <2> QED
    BY <1>1, <2>1, <2>2, FS_Subset
<1> QED
  BY <1>1, <1>7, <1>8, <1>9

LEMMA RollInvHolds == RollInv => RollHolds
<1> SUFFICES ASSUME RollInv PROVE RollHolds
  OBVIOUS
<1>1. PathsFollowParents
  <2>1. \A u \in Known : tree[u].parent \in Known \cup {None}
    BY Now, ParentsKnown
  <2>2. \A u, v \in Known : Within(u, v) <=> v \in Chain(u)
    BY Now, ChainIsPath
  <2>3. {bound.position, bound.rule} \cup {people[p].unit : p \in Enrolled} \subseteq Known \cup {None}
    BY Now DEF Enrolled
  <2> QED
    BY <2>1, <2>2, <2>3 DEF PathsFollowParents
<1>2. ASSUME queued PROVE OncePerAddress /\ TurnoutAddsUp /\ ~dead /\ Cardinality(Enrolled) <= PlanLimit
  <2>1. OncePerAddress
    BY <1>2, Now, EnrolledIs DEF OncePerAddress, Once
  <2>2. voted = VotedIn(Enrolled)
    BY <1>2, Now, EnrolledIs DEF VotedIn, VotesIn
  <2>3. Rows(people) /\ \A p \in Persons : people[p].unit \in Units \cup {None}
    BY Now DEF Known
  <2>4. TurnoutAddsUp
    BY <2>2, <2>3, TurnoutSum DEF TurnoutAddsUp
  <2> QED
    BY <1>2, <2>1, <2>4, Now, EnrolledIs
<1> QED
  BY <1>1, <1>2 DEF RollHolds

(* The strengthened invariant of the roll: the tree is a tree, every unit    *)
(* named in the roll, the poll or a rule is a unit of the tree, a roll that  *)
(* is worked on through the queue knows each address once and never outgrows *)
(* the plan, and what a clerk's work was loaded with is what the rows say.   *)
THEOREM RollInvariant == RollSpec => []RollInv
  BY InitRoll, RollNextKept, PTL DEF RollSpec

(* The types of the roll's state: no handler stores a row, a path or a piece *)
(* of work of another shape, however many units, addresses and files.        *)
THEOREM RollTyped == RollSpec => []RollTypeOK
<1>1. RollInv => RollTypeOK
  BY DEF RollInv
<1> QED
  BY <1>1, RollInvariant, PTL

(* Paths follow the parents after any reparenting; and while the tasks run   *)
(* one at a time, imports, registrations, corrections, letters and casts     *)
(* leave one row to an address, a turnout by unit that adds up to the votes  *)
(* cast, no letter with a dead code and a roll within the plan's limit.      *)
THEOREM TheRollHolds == RollSpec => []RollHolds
  BY RollInvHolds, RollInvariant, PTL
=============================================================================
