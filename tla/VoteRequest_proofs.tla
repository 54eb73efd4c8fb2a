-------------------------- MODULE VoteRequest_proofs -------------------------
(***************************************************************************)
(* What TLAPS proves about VoteRequest and AuditChain, for any number of   *)
(* voters, handlers, workers, attempts and faults: receipts are true, the  *)
(* audit log tells of every ballot once, and its verification raises an    *)
(* alarm only when an append overtook it.  VoteRequest implements          *)
(* RecordedVotes.                                                          *)
(*                                                                         *)
(* The invariant has three parts, each kept by every step: what handlers   *)
(* hold, what the log holds, and what the confirmations hold.              *)
(***************************************************************************)
EXTENDS VoteRequest, SequenceTheorems, TLAPS

RecordRow == [state : {"NONE", "IN_PROGRESS", "COMPLETED"}, body : Bodies \cup {NoBallot}]
RequestRow == [at : {"idle", "claimed", "casting", "committed", "queued", "receipt"},
               voter : Voters \cup {NoBallot}, body : Bodies \cup {NoBallot}]

Types ==
    /\ setting \in Settings
    /\ record \in [Voters -> RecordRow]
    /\ ballot \in [Voters -> Bodies \cup {NoBallot}]
    /\ request \in [Requests -> RequestRow]

(* A handler between the claim of its key and its answer. *)
Active == {"claimed", "casting", "committed", "queued"}
Voted == {"committed", "queued", "receipt"}

(* It holds the key of its voter, which remembers its selections ... *)
Claims ==
    \A q \in Requests : request[q].at \in Active =>
        /\ request[q].voter \in Voters /\ request[q].body \in Bodies
        /\ record[request[q].voter] = [state |-> "IN_PROGRESS", body |-> request[q].body]

(* ... and nobody else does. *)
ClaimsApart ==
    \A p, q \in Requests :
        request[p].at \in Active /\ request[q].at \in Active /\ request[p].voter = request[q].voter
            => p = q

(* What a handler has done is in the box, and what it has not is not. *)
HandlersKnow ==
    \A q \in Requests :
        /\ request[q].at \in Voted => /\ request[q].voter \in Voters /\ request[q].body \in Bodies
                                      /\ ballot[request[q].voter] = request[q].body
        /\ request[q].at = "casting" => ballot[request[q].voter] = NoBallot

(* A key that is answered remembers the selections that were cast. *)
AnswersKept ==
    \A v \in Voters : record[v].state = "COMPLETED"
        => record[v].body \in Bodies /\ ballot[v] = record[v].body

HandlersInv == Types /\ Claims /\ ClaimsApart /\ HandlersKnow /\ AnswersKept

-----------------------------------------------------------------------------
(* Handlers. *)

LEMMA InitHandlers == Init => HandlersInv
  BY VoteRequestAssumption
  DEF Init, HandlersInv, Types, Claims, ClaimsApart, HandlersKnow, AnswersKept,
      RecordRow, RequestRow, NoRecord, Free, Active, Voted

(* A handler claims a key, or replays an answer. *)
LEMMA BeginStep ==
  ASSUME HandlersInv, NEW q \in Requests, NEW v \in Voters, NEW b \in Bodies,
         Claim(q, v, b) \/ Replay(q, v, b)
  PROVE  HandlersInv'
<1> USE VoteRequestAssumption
<1>1. CASE Claim(q, v, b)
  <2>1. \A p \in Requests : request[p].at \in Active => request[p].voter # v
    <3>1. record[v].state = "NONE"
      BY <1>1 DEF Claim, NoRecord
    <3>2. ASSUME NEW p \in Requests, request[p].at \in Active
          PROVE  record[request[p].voter].state = "IN_PROGRESS"
      <4>1. record[request[p].voter] = [state |-> "IN_PROGRESS", body |-> request[p].body]
        BY <3>2 DEF HandlersInv, Claims
      <4>2. QED
        BY <4>1
    <3>3. QED
      BY <3>1, <3>2
  <2>2. /\ request' = [request EXCEPT ![q] = [at |-> "claimed", voter |-> v, body |-> b]]
        /\ record' = [record EXCEPT ![v] = [state |-> "IN_PROGRESS", body |-> b]]
        /\ UNCHANGED <<setting, ballot>>
    BY <1>1 DEF Claim
  <2>3. Types' /\ Claims'
    BY <2>1, <2>2 DEF HandlersInv, Types, Claims, RecordRow, RequestRow, Active
  <2>4. ClaimsApart'
    BY <2>1, <2>2 DEF HandlersInv, Types, ClaimsApart, RequestRow
  <2>5. HandlersKnow' /\ AnswersKept'
    BY <2>2 DEF HandlersInv, Types, HandlersKnow, AnswersKept, RecordRow, RequestRow, Voted
  <2>6. QED
    BY <2>3, <2>4, <2>5 DEF HandlersInv
<1>2. CASE Replay(q, v, b)
  <2>1. /\ request' = [request EXCEPT ![q] = [at |-> "receipt", voter |-> v, body |-> b]]
        /\ UNCHANGED <<setting, record, ballot>>
        /\ ballot[v] = b
    BY <1>2 DEF Replay, SameRequest, HandlersInv, AnswersKept
  <2>2. Types' /\ Claims'
    BY <2>1 DEF HandlersInv, Types, Claims, RequestRow, Active
  <2>3. ClaimsApart' /\ AnswersKept'
    BY <2>1 DEF HandlersInv, Types, ClaimsApart, AnswersKept, RequestRow, Active
  <2>4. HandlersKnow'
    BY <2>1 DEF HandlersInv, Types, HandlersKnow, RequestRow, Voted
  <2>5. QED
    BY <2>2, <2>3, <2>4 DEF HandlersInv
<1>3. QED
  BY <1>1, <1>2

(* A handler ends, and releases its key or leaves it claimed. *)
LEMMA EndStep ==
  ASSUME HandlersInv, NEW q \in Requests, Ends(q), UNCHANGED <<setting, ballot>>,
         \/ request[q].at \in Active /\ record' = Released(request[q].voter)
         \/ UNCHANGED record
  PROVE  HandlersInv'
<1> USE VoteRequestAssumption
<1>1. request' = [request EXCEPT ![q] = Free]
  BY DEF Ends
<1>2. Types'
  BY <1>1 DEF HandlersInv, Types, Free, RequestRow, RecordRow, Released, NoRecord
<1>3. \A v \in Voters : record'[v] # record[v] => request[q].at \in Active /\ v = request[q].voter /\ record'[v] = NoRecord
  BY DEF Released, HandlersInv, Types
<1>4. Claims'
  BY <1>1, <1>3 DEF HandlersInv, Types, Claims, ClaimsApart, Free, Active, RequestRow
<1>5. ClaimsApart' /\ HandlersKnow'
  BY <1>1 DEF HandlersInv, Types, ClaimsApart, HandlersKnow, Free, Active, Voted, RequestRow
<1>6. AnswersKept'
  BY <1>3 DEF HandlersInv, AnswersKept, NoRecord
<1>7. QED
  BY <1>2, <1>4, <1>5, <1>6 DEF HandlersInv

(* A handler goes on. *)
LEMMA GoOnStep ==
  ASSUME HandlersInv, NEW q \in Requests,
         Cast(q) \/ Commit(q) \/ AfterCast(q) \/ Complete(q)
  PROVE  HandlersInv'
<1> USE VoteRequestAssumption
<1> DEFINE v == request[q].voter
<1>1. /\ request[q].at \in Active /\ v \in Voters /\ request[q].body \in Bodies
      /\ record[v] = [state |-> "IN_PROGRESS", body |-> request[q].body]
  BY DEF Cast, Commit, AfterCast, Complete, HandlersInv, Claims, Active
<1>2. \A p \in Requests : p # q /\ request[p].at \in Active => request[p].voter # v
  BY <1>1 DEF HandlersInv, ClaimsApart
<1>3. CASE Cast(q)
  <2>1. request' = [request EXCEPT ![q].at = "casting"] /\ ballot[v] = NoBallot
        /\ UNCHANGED <<setting, record, ballot>>
    BY <1>3 DEF Cast, GoesTo
  <2>2. QED
    BY <1>1, <2>1
    DEF HandlersInv, Types, Claims, ClaimsApart, HandlersKnow, AnswersKept, RequestRow, Active, Voted
<1>4. CASE Commit(q)
  <2>1. /\ request' = [request EXCEPT ![q].at = "committed"]
        /\ ballot' = [ballot EXCEPT ![v] = request[q].body]
        /\ UNCHANGED <<setting, record>>
        /\ request[q].at = "casting"
    BY <1>4 DEF Commit, GoesTo
  <2>2. Types' /\ Claims' /\ ClaimsApart'
    BY <1>1, <2>1 DEF HandlersInv, Types, Claims, ClaimsApart, RequestRow, Active
  <2>3. HandlersKnow'
    <3>1. ballot[v] = NoBallot /\ NoBallot \notin Bodies
      BY <2>1 DEF HandlersInv, HandlersKnow
    <3>2. \A p \in Requests : p # q /\ request[p].at \in Voted \cup {"casting"} => request[p].voter # v
      BY <1>2, <3>1 DEF HandlersInv, HandlersKnow, Active, Voted
    <3>3. QED
      BY <1>1, <2>1, <3>2 DEF HandlersInv, Types, HandlersKnow, RequestRow, Voted
  <2>4. AnswersKept'
    BY <1>1, <2>1 DEF HandlersInv, Types, AnswersKept
  <2>5. QED
    BY <2>2, <2>3, <2>4 DEF HandlersInv
<1>5. CASE AfterCast(q)
  <2>1. request' = [request EXCEPT ![q].at = "queued"] /\ UNCHANGED <<setting, record, ballot>>
        /\ request[q].at = "committed"
    BY <1>5 DEF AfterCast, GoesTo
  <2>2. QED
    BY <1>1, <2>1
    DEF HandlersInv, Types, Claims, ClaimsApart, HandlersKnow, AnswersKept, RequestRow, Active, Voted
<1>6. CASE Complete(q)
  <2>1. /\ request' = [request EXCEPT ![q].at = "receipt"]
        /\ record' = [record EXCEPT ![v].state = "COMPLETED"]
        /\ UNCHANGED <<setting, ballot>>
        /\ request[q].at = "queued"
    BY <1>6 DEF Complete, GoesTo
  <2>2. Types' /\ Claims' /\ ClaimsApart'
    BY <1>1, <1>2, <2>1 DEF HandlersInv, Types, Claims, ClaimsApart, RequestRow, RecordRow, Active
  <2>3. HandlersKnow' /\ AnswersKept'
    BY <1>1, <2>1 DEF HandlersInv, Types, HandlersKnow, AnswersKept, RequestRow, RecordRow, Voted
  <2>4. QED
    BY <2>2, <2>3 DEF HandlersInv
<1>7. QED
  BY <1>3, <1>4, <1>5, <1>6

LEMMA ExpireStep ==
  ASSUME HandlersInv, NEW v \in Voters, Expire(v)
  PROVE  HandlersInv'
<1>1. record' = [record EXCEPT ![v] = NoRecord] /\ UNCHANGED <<setting, ballot, request>>
      /\ \A q \in Requests : request[q].voter # v
  BY DEF Expire, InProgress
<1>2. QED
  BY <1>1, VoteRequestAssumption
  DEF HandlersInv, Types, Claims, ClaimsApart, HandlersKnow, AnswersKept, RecordRow, NoRecord

-----------------------------------------------------------------------------
(* The audit log. *)

(* Handlers write to it: a handler in the middle of its casting transaction  *)
(* has inserted an entry and holds the lock of the head; no other has.       *)
OneWriter ==
    /\ pending = [q \in Requests |-> pending[q]]
    /\ \A q \in Requests :
         pending[q] = IF request[q].at = "casting" THEN <<Linked(request[q].voter)>> ELSE NoEntry
    /\ \A p, q \in Requests :
         request[p].at = "casting" /\ request[q].at = "casting" => p = q

PreviousHash(i) == IF i = 1 THEN Genesis ELSE entries[i - 1].hash

(* The log is a chain, and the head is its end. *)
ChainInv ==
    /\ \E S : entries \in Seq(S)
    /\ head = [seq |-> Len(entries), last |-> LastHash]
    /\ \A i \in DOMAIN entries : LinkedTo(PreviousHash(i), i)

(* What verify_chain read was intact, and is what there is unless the log    *)
(* has grown.                                                                *)
CheckInv ==
    /\ check = [step |-> check.step, count |-> check.count, last |-> check.last, ok |-> check.ok]
    /\ check.step = "entries" =>
         /\ check.ok /\ check.count \in Nat /\ check.count <= Len(entries)
         /\ check.count = Len(entries) => check.last = LastHash
    /\ check.step = "verdict" /\ ~check.ok => check.count \in Nat /\ Len(entries) > check.count

LogInv == OneWriter /\ ChainInv /\ CheckInv /\ AuditTellsEveryBallot

LEMMA InitLog == Init => LogInv
<1> SUFFICES ASSUME Init PROVE LogInv
  OBVIOUS
<1>1. entries = <<>> /\ head = [seq |-> 0, last |-> Genesis]
      /\ pending = [q \in Requests |-> NoEntry] /\ check = NotChecking
  BY VoteRequestAssumption DEF Init, AuditInit
<1>2. entries \in Seq({}) /\ Len(entries) = 0 /\ DOMAIN entries = {}
  BY <1>1
<1>3. OneWriter
  BY <1>1 DEF Init, OneWriter, Free
<1>4. ChainInv
  BY <1>1, <1>2 DEF ChainInv, LastHash
<1>5. CheckInv
  BY <1>1 DEF CheckInv, NotChecking
<1>6. AuditTellsEveryBallot
  BY <1>1, <1>2 DEF Init, AuditTellsEveryBallot
<1>7. QED
  BY <1>3, <1>4, <1>5, <1>6 DEF LogInv

(* A step that leaves the log alone, and nobody's transaction open or shut.  *)
LEMMA LogUntouched ==
  ASSUME HandlersInv, LogInv, UNCHANGED <<auditVars, ballot>>,
         \A q \in Requests : request'[q].at = "casting" <=> request[q].at = "casting",
         \A q \in Requests : request[q].at = "casting" => request'[q].voter = request[q].voter
  PROVE  LogInv'
<1>1. UNCHANGED <<entries, head, pending, check>>
  BY DEF auditVars
<1>2. OneWriter'
  BY <1>1 DEF LogInv, OneWriter, Linked
<1>3. ChainInv' /\ CheckInv' /\ AuditTellsEveryBallot'
  BY <1>1 DEF LogInv, ChainInv, CheckInv, AuditTellsEveryBallot, LinkedTo, PreviousHash, LastHash
<1>4. QED
  BY <1>2, <1>3 DEF LogInv

(* An entry is inserted, under the lock. *)
LEMMA AppendStep ==
  ASSUME HandlersInv, LogInv, NEW q \in Requests, Cast(q)
  PROVE  LogInv'
<1>1. /\ UNCHANGED <<entries, head, check, ballot>>
      /\ request' = [request EXCEPT ![q].at = "casting"]
      /\ pending' = [pending EXCEPT ![q] = <<Linked(request[q].voter)>>]
      /\ \A p \in Requests : pending[p] = NoEntry
  BY VoteRequestAssumption DEF Cast, AppendEntry, GoesTo, HeadFree
<1>2. \A p \in Requests : request[p].at # "casting"
  <2>1. \A e : <<e>> # <<>>
    OBVIOUS
  <2>2. QED
    BY <1>1, <2>1 DEF LogInv, OneWriter, NoEntry
<1>3. OneWriter'
  BY <1>1, <1>2 DEF LogInv, OneWriter, HandlersInv, Types, RequestRow, Linked
<1>4. ChainInv' /\ CheckInv' /\ AuditTellsEveryBallot'
  BY <1>1 DEF LogInv, ChainInv, CheckInv, AuditTellsEveryBallot, LinkedTo, PreviousHash, LastHash
<1>5. QED
  BY <1>3, <1>4 DEF LogInv

(* The transaction is rolled back, by an error or with its handler. *)
LEMMA DropStep ==
  ASSUME HandlersInv, LogInv, NEW q \in Requests, request[q].at = "casting",
         DropEntry(q), Ends(q), UNCHANGED ballot
  PROVE  LogInv'
<1>1. /\ UNCHANGED <<entries, head, check, ballot>>
      /\ request' = [request EXCEPT ![q] = Free]
      /\ pending' = [pending EXCEPT ![q] = NoEntry]
  BY DEF DropEntry, Ends
<1>2. OneWriter'
  BY <1>1 DEF LogInv, OneWriter, HandlersInv, Types, RequestRow, Linked, Free
<1>3. ChainInv' /\ CheckInv' /\ AuditTellsEveryBallot'
  BY <1>1 DEF LogInv, ChainInv, CheckInv, AuditTellsEveryBallot, LinkedTo, PreviousHash, LastHash
<1>4. QED
  BY <1>2, <1>3 DEF LogInv

(* What an append does to the log: one more entry, linked to the last.       *)
LEMMA Appended ==
  ASSUME ChainInv, NEW c, entries' = Append(entries, Linked(c)), head' = HeadAfter(Linked(c))
  PROVE  /\ ChainInv'
         /\ Len(entries) \in Nat /\ Len(entries') = Len(entries) + 1
         /\ DOMAIN entries = 1..Len(entries) /\ DOMAIN entries' = 1..(Len(entries) + 1)
         /\ \A i \in 1..Len(entries) : entries'[i] = entries[i]
         /\ entries'[Len(entries) + 1].content = c
<1> DEFINE n == Len(entries)
           e == Linked(c)
<1>1. PICK S : entries \in Seq(S)
  BY DEF ChainInv
<1>2. entries \in Seq(S \cup {e}) /\ e \in S \cup {e}
  BY <1>1
<1>3. /\ entries' \in Seq(S \cup {e}) /\ entries' # <<>>
      /\ n \in Nat /\ Len(entries') = n + 1
      /\ \A i \in 1..n : entries'[i] = entries[i]
      /\ entries'[n + 1] = e
  BY <1>2, AppendProperties
<1>4. DOMAIN entries = 1..n /\ DOMAIN entries' = 1..(n + 1)
  BY <1>2, <1>3
<1>5. /\ e.seq = n + 1 /\ e.prev = LastHash /\ e.content = c
      /\ e.hash = compute_hash(LastHash, n + 1, c)
  BY DEF ChainInv, Linked
<1>6. head' = [seq |-> Len(entries'), last |-> LastHash']
  BY <1>3, <1>5 DEF HeadAfter, LastHash
<1>7. LastHash = IF n + 1 = 1 THEN Genesis ELSE entries[n].hash
  BY <1>2, <1>3, EmptySeq DEF LastHash
<1>8. \A i \in DOMAIN entries' : LinkedTo(PreviousHash(i), i)'
  <2> SUFFICES ASSUME NEW i \in DOMAIN entries'
               PROVE  LinkedTo(PreviousHash(i), i)'
    OBVIOUS
  <2>1. CASE i \in 1..n
    <3>1. LinkedTo(PreviousHash(i), i)
      BY <1>4, <2>1 DEF ChainInv
    <3>2. entries'[i] = entries[i] /\ (i # 1 => entries'[i - 1] = entries[i - 1])
      BY <1>3, <2>1
    <3>3. QED
      BY <3>1, <3>2 DEF LinkedTo, PreviousHash
  <2>2. CASE i = n + 1
    <3>1. i # 1 => entries'[i - 1] = entries[n]
      BY <1>3, <2>2
    <3>2. PreviousHash(i)' = LastHash
      BY <1>3, <1>7, <2>2, <3>1 DEF PreviousHash
    <3>3. entries'[i] = e
      BY <1>3, <2>2
    <3>4. QED
      BY <1>5, <2>2, <3>2, <3>3 DEF LinkedTo
  <2>3. QED
    BY <1>3, <1>4, <2>1, <2>2
<1>9. QED
  BY <1>3, <1>4, <1>5, <1>6, <1>8 DEF ChainInv

(* The transaction commits: ballot and entry at once. *)
LEMMA CommitStep ==
  ASSUME HandlersInv, LogInv, NEW q \in Requests, Commit(q)
  PROVE  LogInv'
<1> DEFINE v == request[q].voter
           n == Len(entries)
<1>1. /\ request[q].at = "casting" /\ v \in Voters /\ request[q].body # NoBallot
      /\ ballot[v] = NoBallot
  BY VoteRequestAssumption DEF Commit, HandlersInv, Claims, HandlersKnow, Active
<1>2. pending[q] = <<Linked(v)>>
  BY <1>1 DEF LogInv, OneWriter
<1>3. /\ entries' = Append(entries, Linked(v)) /\ head' = HeadAfter(Linked(v))
      /\ pending' = [pending EXCEPT ![q] = NoEntry] /\ check' = check
      /\ ballot' = [ballot EXCEPT ![v] = request[q].body]
      /\ request' = [request EXCEPT ![q].at = "committed"]
  BY <1>2 DEF Commit, CommitEntry, GoesTo
<1>4. /\ ChainInv'
      /\ n \in Nat /\ Len(entries') = n + 1
      /\ DOMAIN entries = 1..n /\ DOMAIN entries' = 1..(n + 1)
      /\ \A i \in 1..n : entries'[i] = entries[i]
      /\ entries'[n + 1].content = v
  BY <1>3, Appended DEF LogInv
<1>5. OneWriter'
  <2>1. \A p \in Requests : p # q => request[p].at # "casting"
    BY <1>1 DEF LogInv, OneWriter
  <2>2. QED
    BY <1>3, <2>1 DEF LogInv, OneWriter, HandlersInv, Types, RequestRow
<1>6. CheckInv'
  BY <1>3, <1>4 DEF LogInv, CheckInv
<1>7. AuditTellsEveryBallot'
  <2>1. \A i \in 1..n : entries[i].content # v
    BY <1>1, <1>4 DEF LogInv, AuditTellsEveryBallot
  <2>2. \A i \in DOMAIN entries' : i = n + 1 \/ i \in 1..n
    BY <1>4
  <2>3. ASSUME NEW u \in Voters
        PROVE  (ballot[u] # NoBallot <=> \E i \in DOMAIN entries : entries[i].content = u)'
    <3>1. CASE u = v
      <4>1. ballot'[u] # NoBallot
        BY <1>1, <1>3, <3>1 DEF HandlersInv, Types
      <4>2. n + 1 \in DOMAIN entries'
        BY <1>4
      <4>3. QED
        BY <1>4, <3>1, <4>1, <4>2
    <3>2. CASE u # v
      <4>1. ballot'[u] = ballot[u]
        BY <1>3, <3>2 DEF HandlersInv, Types
      <4>2. (\E i \in DOMAIN entries' : entries'[i].content = u)
              <=> \E i \in DOMAIN entries : entries[i].content = u
        BY <1>4, <2>2, <3>2
      <4>3. QED
        BY <4>1, <4>2 DEF LogInv, AuditTellsEveryBallot
    <3>3. QED
      BY <3>1, <3>2
  <2>4. ASSUME NEW i \in DOMAIN entries', NEW j \in DOMAIN entries',
               entries'[i].content = entries'[j].content
        PROVE  i = j
    BY <1>4, <2>1, <2>2, <2>4 DEF LogInv, AuditTellsEveryBallot
  <2>5. QED
    BY <2>3, <2>4 DEF AuditTellsEveryBallot
<1>8. QED
  BY <1>4, <1>5, <1>6, <1>7 DEF LogInv

(* verify_chain reads the entries, then the head. *)
LEMMA VerifyStep ==
  ASSUME HandlersInv, LogInv, Verify
  PROVE  LogInv'
<1>1. UNCHANGED <<entries, head, pending, request, ballot>>
  BY DEF Verify, Check, CheckEntries, CheckHead, requestVars
<1>2. OneWriter'
  BY <1>1 DEF LogInv, OneWriter, Linked
<1>3. ChainInv' /\ AuditTellsEveryBallot'
  BY <1>1 DEF LogInv, ChainInv, AuditTellsEveryBallot, LinkedTo, PreviousHash, LastHash
<1>4. CheckInv'
  <2>1. CASE CheckEntries
    <3>1. Len(entries) \in Nat /\ \A i \in DOMAIN entries : LinkedTo(IF i = 1 THEN Genesis ELSE entries[i - 1].hash, i)
      BY DEF LogInv, ChainInv, PreviousHash
    <3>2. check' = [step |-> "entries", count |-> Len(entries), last |-> LastHash, ok |-> TRUE]
      BY <2>1, <3>1 DEF CheckEntries
    <3>3. QED
      BY <1>1, <3>1, <3>2 DEF CheckInv, LastHash
  <2>2. CASE CheckHead
    <3>1. /\ check.step = "entries" /\ check.ok /\ check.count \in Nat /\ check.count <= Len(entries)
          /\ Len(entries) \in Nat
          /\ check.count = Len(entries) => check.last = LastHash
      BY <2>2 DEF CheckHead, LogInv, CheckInv, ChainInv
    <3>2. check' = [step |-> "verdict", count |-> check.count, last |-> check.last,
                    ok |-> head = [seq |-> check.count, last |-> check.last]]
      BY <2>2, <3>1 DEF CheckHead, LogInv, CheckInv
    <3>3. check.count = Len(entries) => head = [seq |-> check.count, last |-> check.last]
      BY <3>1 DEF LogInv, ChainInv
    <3>4. /\ check'.step = "verdict" /\ check'.count = check.count /\ Len(entries') = Len(entries)
          /\ ~check'.ok => check.count # Len(entries)
      BY <1>1, <3>2, <3>3
    <3>5. check' = [step |-> check'.step, count |-> check'.count, last |-> check'.last, ok |-> check'.ok]
      BY <3>2
    <3>6. QED
      BY <3>1, <3>4, <3>5 DEF CheckInv
  <2>3. QED
    BY <2>1, <2>2 DEF Verify, Check
<1>5. QED
  BY <1>2, <1>3, <1>4 DEF LogInv

-----------------------------------------------------------------------------
(* Confirmations. *)

JobRow == [task : {"confirm", "deliver"}, voter : Voters, by : {"commit", "sweep"}]
NoteRow == [status : {"NONE", "SENT", "SKIPPED"} \cup Unsent, attempts : Nat]
WorkerRow == [at : {"idle", "created", "locked", "answered"}, job : JobRow \cup {NoJob},
              result : {"NONE", "SENT", "FAILED", "SKIPPED"}]

JobTypes ==
    /\ jobs \subseteq JobRow
    /\ note \in [Voters -> NoteRow]
    /\ worker \in [Workers -> WorkerRow]
    /\ sent \in [Voters -> Nat]
    /\ faults \in 0..MaxFaults

(* A worker has a job the broker keeps until it is done, and the row it      *)
(* works on is as it found it.                                               *)
WorkersHold ==
    \A w \in Workers :
        /\ worker[w].at = "idle" => worker[w] = Resting
        /\ worker[w].at # "idle" => worker[w].job \in jobs
        /\ worker[w].at = "created" => /\ worker[w].job.task = "confirm"
                                       /\ note[worker[w].job.voter].status # "NONE"
        /\ worker[w].at \in {"locked", "answered"} => /\ worker[w].job.task = "deliver"
                                                      /\ note[worker[w].job.voter].status \in Unsent
        /\ worker[w].at = "answered" => worker[w].result # "NONE"

(* No two have one job, or the lock of one row.                              *)
WorkersApart ==
    \A p, w \in Workers :
        /\ worker[p].at # "idle" /\ worker[p].job = worker[w].job => p = w
        /\ /\ worker[p].at \in {"locked", "answered"} /\ worker[w].at \in {"locked", "answered"}
           /\ worker[p].job.voter = worker[w].job.voter
           => p = w

(* Jobs and rows of the outbox are about ballots in the box.                 *)
JobsKnow ==
    /\ \A j \in jobs : /\ ballot[j.voter] # NoBallot
                       /\ j.task = "confirm" => j.by = "commit"
                       /\ j.task = "deliver" => note[j.voter].status # "NONE"
    /\ \A v \in Voters : /\ note[v].status # "NONE" => ballot[v] # NoBallot
                         /\ note[v].status = "NONE" => note[v] = NoNote

(* The provider has been asked more than once only after a fault.            *)
Settling(v) ==
    \/ note[v].status \in {"SENT", "SKIPPED"}
    \/ \E w \in Workers : worker[w].at = "answered" /\ worker[w].job.voter = v /\ worker[w].result = "SENT"
SentForAReason ==
    \A v \in Voters : sent[v] <= faults + 1 /\ (~Settling(v) => sent[v] <= faults)

(* Of the two jobs that may deliver a row, one is left when the attempts are *)
(* used up, and none after it has tried.                                     *)
Swept(v) == DeliverJob(v, "sweep") \in jobs
Created(v) == \E w \in Workers : worker[w].at = "created" /\ worker[w].job.voter = v
FromCommit(v) == DeliverJob(v, "commit") \in jobs \/ Created(v)
AttemptsEnd ==
    \A v \in Voters :
        /\ ~(DeliverJob(v, "commit") \in jobs /\ Created(v))
        /\ note[v].attempts >= MaxAttempts => ~(Swept(v) /\ FromCommit(v))
        /\ note[v].attempts > MaxAttempts => ~Swept(v) /\ ~FromCommit(v)
        /\ note[v].attempts <= MaxAttempts + 1

JobsInv ==
    JobTypes /\ WorkersHold /\ WorkersApart /\ JobsKnow /\ SentForAReason /\ AttemptsEnd

LEMMA InitJobs == Init => JobsInv
<1> SUFFICES ASSUME Init PROVE JobsInv
  OBVIOUS
<1> USE VoteRequestAssumption
<1>1. JobTypes
  BY DEF Init, JobTypes, NoteRow, WorkerRow, NoNote, Resting, NoJob
<1>2. WorkersHold /\ JobsKnow
  BY DEF Init, WorkersHold, JobsKnow, Resting, NoNote
<1>3. WorkersApart
  BY DEF Init, WorkersApart, Resting
<1>4. SentForAReason /\ AttemptsEnd
  BY DEF Init, SentForAReason, AttemptsEnd, Resting, NoNote, Swept, Created, FromCommit
<1>5. QED
  BY <1>1, <1>2, <1>3, <1>4 DEF JobsInv

(* A step that leaves jobs, rows and workers alone; a ballot stays cast.     *)
LEMMA JobsUntouched ==
  ASSUME JobsInv, UNCHANGED jobVars, faults' = faults \/ (faults < MaxFaults /\ faults' = faults + 1),
         \A v \in Voters : ballot[v] # NoBallot => ballot'[v] # NoBallot
  PROVE  JobsInv'
<1> USE VoteRequestAssumption
<1>1. UNCHANGED <<jobs, note, worker, sent>> /\ faults' \in 0..MaxFaults /\ faults \in Nat /\ faults <= faults'
  BY DEF jobVars, JobsInv, JobTypes
<1>2. JobTypes' /\ WorkersHold' /\ WorkersApart'
  BY <1>1 DEF JobsInv, JobTypes, WorkersHold, WorkersApart
<1>3. JobsKnow'
  BY <1>1 DEF JobsInv, JobTypes, JobsKnow, JobRow
<1>4. SentForAReason'
  BY <1>1 DEF JobsInv, JobTypes, SentForAReason, Settling
<1>5. AttemptsEnd'
  BY <1>1 DEF JobsInv, AttemptsEnd, Swept, Created, FromCommit
<1>6. QED
  BY <1>2, <1>3, <1>4, <1>5 DEF JobsInv

(* The confirmation's job, sent after the commit. *)
LEMMA AfterCastStep ==
  ASSUME HandlersInv, JobsInv, NEW q \in Requests, AfterCast(q)
  PROVE  JobsInv'
<1> DEFINE v == request[q].voter
<1>1. v \in Voters /\ ballot[v] # NoBallot
  BY VoteRequestAssumption DEF AfterCast, HandlersInv, HandlersKnow, Voted
<1>2. jobs' = jobs \cup {Confirm(v)} /\ UNCHANGED <<note, worker, sent, faults, ballot>>
  BY DEF AfterCast
<1>3. Confirm(v) \in JobRow /\ Confirm(v).voter = v /\ Confirm(v).task = "confirm" /\ Confirm(v).by = "commit"
  BY <1>1 DEF Confirm, JobRow
<1>4. JobTypes' /\ WorkersHold' /\ WorkersApart'
  BY <1>2, <1>3 DEF JobsInv, JobTypes, WorkersHold, WorkersApart
<1>5. JobsKnow' /\ SentForAReason'
  BY <1>1, <1>2, <1>3 DEF JobsInv, JobsKnow, SentForAReason, Settling
<1>6. \A u \in Voters, by \in {"commit", "sweep"} : DeliverJob(u, by) \in jobs' <=> DeliverJob(u, by) \in jobs
  BY <1>2, <1>3 DEF DeliverJob
<1>7. AttemptsEnd'
  BY <1>2, <1>6 DEF JobsInv, AttemptsEnd, Swept, Created, FromCommit
<1>8. QED
  BY <1>4, <1>5, <1>7 DEF JobsInv

(* Jobs are told apart by task, voter and sender. *)
LEMMA JobNames ==
  ASSUME NEW v \in Voters, NEW by \in {"commit", "sweep"}
  PROVE  /\ Confirm(v) \in JobRow /\ DeliverJob(v, by) \in JobRow
         /\ Confirm(v).task = "confirm" /\ Confirm(v).voter = v /\ Confirm(v).by = "commit"
         /\ DeliverJob(v, by).task = "deliver" /\ DeliverJob(v, by).voter = v
         /\ DeliverJob(v, by).by = by
         /\ \A j \in JobRow : j.task = "deliver" /\ j.voter = v /\ j.by = by => j = DeliverJob(v, by)
  BY DEF Confirm, DeliverJob, JobRow

(* A resting worker has no job. *)
LEMMA AtRest ==
  ASSUME JobsInv, NEW w \in Workers
  PROVE  /\ worker[w] = Resting <=> worker[w].at = "idle"
         /\ worker[w] \in WorkerRow
         /\ worker[w].at # "idle" => worker[w].job \in JobRow /\ worker[w].job.voter \in Voters
         /\ \A job \in jobs \ HandedOut : \A p \in Workers : worker[p].job # job
<1>1. worker[w] \in WorkerRow
  BY DEF JobsInv, JobTypes
<1>2. worker[w] = Resting <=> worker[w].at = "idle"
  BY DEF JobsInv, WorkersHold, Resting
<1>3. worker[w].at # "idle" => worker[w].job \in JobRow /\ worker[w].job.voter \in Voters
  BY DEF JobsInv, JobTypes, WorkersHold, JobRow
<1>4. QED
  BY <1>1, <1>2, <1>3 DEF HandedOut

(* The confirmation's row is created ... *)
LEMMA ConfirmStartsStep ==
  ASSUME JobsInv, NEW w \in Workers, NEW v \in Voters, ConfirmStarts(w, v), UNCHANGED ballot
  PROVE  JobsInv'
<1> USE VoteRequestAssumption
<1> DEFINE row == [at |-> "created", job |-> Confirm(v), result |-> "NONE"]
<1>1. /\ worker[w] = Resting /\ Confirm(v) \in jobs /\ note[v] = NoNote
      /\ \A p \in Workers : worker[p].job # Confirm(v)
      /\ note' = [note EXCEPT ![v].status = "QUEUED"]
      /\ worker' = [worker EXCEPT ![w] = row]
      /\ UNCHANGED <<jobs, sent, faults, ballot>>
  BY AtRest DEF ConfirmStarts
<1>2. /\ row \in WorkerRow /\ row.at = "created" /\ row.job = Confirm(v) /\ row.result = "NONE"
      /\ Confirm(v).voter = v /\ Confirm(v).task = "confirm"
  BY JobNames DEF WorkerRow
<1>3. /\ worker[w].at = "idle"
      /\ note[v].status = "NONE" /\ note[v].attempts = 0 /\ note \in [Voters -> NoteRow]
      /\ worker \in [Workers -> WorkerRow]
  BY <1>1 DEF Resting, NoNote, JobsInv, JobTypes
<1>4. /\ note'[v].status = "QUEUED" /\ note'[v].attempts = 0
      /\ \A u \in Voters : u # v => note'[u] = note[u]
      /\ worker'[w] = row
      /\ \A p \in Workers : p # w => worker'[p] = worker[p]
  BY <1>1, <1>3 DEF NoteRow
<1>5. JobTypes'
  BY <1>1, <1>2 DEF JobsInv, JobTypes, NoteRow, Unsent
<1>6. WorkersHold'
  BY <1>1, <1>2, <1>3, <1>4, AtRest DEF JobsInv, WorkersHold, Unsent
<1>7. WorkersApart'
  BY <1>1, <1>2, <1>4 DEF JobsInv, WorkersApart
<1>8. JobsKnow'
  BY <1>1, <1>2, <1>4 DEF JobsInv, JobTypes, JobRow, JobsKnow
<1>9. SentForAReason'
  BY <1>1, <1>2, <1>3, <1>4 DEF JobsInv, SentForAReason, Settling
<1>10. AttemptsEnd'
  <2>1. DeliverJob(v, "commit") \notin jobs /\ DeliverJob(v, "sweep") \notin jobs
    BY <1>3, JobNames DEF JobsInv, JobsKnow
  <2>2. \A u \in Voters : u # v => (Created(u)' <=> Created(u))
    BY <1>2, <1>3, <1>4 DEF Created
  <2>3. QED
    BY <1>1, <1>4, <2>1, <2>2 DEF JobsInv, AttemptsEnd, Swept, FromCommit
<1>11. QED
  BY <1>5, <1>6, <1>7, <1>8, <1>9, <1>10 DEF JobsInv

(* ... and its delivery queued. *)
LEMMA ConfirmEndsStep ==
  ASSUME JobsInv, NEW w \in Workers, ConfirmEnds(w), UNCHANGED ballot
  PROVE  JobsInv'
<1> USE VoteRequestAssumption
<1> DEFINE job == worker[w].job
<1>. PICK v \in Voters : v = job.voter
  BY AtRest DEF ConfirmEnds
<1> DEFINE new == DeliverJob(v, "commit")
<1>1. /\ worker[w].at = "created" /\ worker[w] \in WorkerRow /\ job \in jobs /\ job \in JobRow
      /\ v = job.voter /\ job.task = "confirm" /\ note[v].status # "NONE" /\ ballot[v] # NoBallot
  BY AtRest DEF ConfirmEnds, JobsInv, WorkersHold, JobsKnow
<1>2. /\ jobs' = (jobs \ {job}) \cup {new}
      /\ worker' = [worker EXCEPT ![w] = Resting]
      /\ UNCHANGED <<note, sent, faults, ballot>>
  BY DEF ConfirmEnds, Rests
<1>3. new \in JobRow /\ new.task = "deliver" /\ new.voter = v /\ new.by = "commit"
  BY <1>1, JobNames
<1>4. /\ worker'[w] = Resting /\ \A p \in Workers : p # w => worker'[p] = worker[p]
      /\ Resting \in WorkerRow /\ Resting.at = "idle" /\ Resting.job = NoJob
  BY <1>2 DEF JobsInv, JobTypes, WorkerRow, Resting
<1>5. JobTypes'
  BY <1>2, <1>3, <1>4 DEF JobsInv, JobTypes
<1>6. \A p \in Workers : p # w /\ worker[p].at # "idle" => worker[p].job \in jobs \ {job}
  BY <1>1 DEF JobsInv, WorkersHold, WorkersApart
<1>7. WorkersHold'
  BY <1>2, <1>4, <1>6 DEF JobsInv, WorkersHold
<1>8. WorkersApart'
  <2>1. \A p \in Workers : worker[p].at # "idle" => worker[p].job # NoJob
    BY AtRest DEF NoJob, JobRow
  <2>2. QED
    BY <1>4, <2>1 DEF JobsInv, WorkersApart
<1>9. JobsKnow'
  BY <1>1, <1>2, <1>3 DEF JobsInv, JobsKnow
<1>10. SentForAReason'
  BY <1>1, <1>2, <1>4 DEF JobsInv, SentForAReason, Settling
<1>11. AttemptsEnd'
  <2>1. \A u \in Voters : Created(u)' => Created(u) /\ u # v
    <3>1. \A p \in Workers : p # w /\ worker[p].at = "created" => worker[p].job.voter # v
      <4>1. ASSUME NEW p \in Workers, p # w, worker[p].at = "created", worker[p].job.voter = v
            PROVE  worker[p].job = job
        <5>1. worker[p].job \in JobRow /\ worker[p].job.task = "confirm" /\ worker[p].job.by = "commit"
              /\ job.by = "commit"
          BY <1>1, <4>1, AtRest DEF JobsInv, WorkersHold, JobsKnow
        <5>2. QED
          BY <1>1, <4>1, <5>1 DEF JobRow
      <4>2. QED
        BY <1>1, <4>1 DEF JobsInv, WorkersApart
    <3>2. QED
      BY <1>4, <3>1 DEF Created
  <2>2. \A u \in Voters : Swept(u)' <=> Swept(u)
    BY <1>1, <1>2, <1>3, JobNames DEF Swept
  <2>3. Created(v)
    BY <1>1 DEF Created
  <2>4. ASSUME NEW u \in Voters
        PROVE  (FromCommit(u)' => FromCommit(u)) /\ ~(DeliverJob(u, "commit") \in jobs' /\ Created(u)')
    <3>1. Created(u)' => Created(u) /\ u # v
      BY <2>1
    <3>2. ~(DeliverJob(u, "commit") \in jobs /\ Created(u))
      BY DEF JobsInv, AttemptsEnd
    <3>3. u # v => (DeliverJob(u, "commit") \in jobs' <=> DeliverJob(u, "commit") \in jobs)
      BY <1>1, <1>2, <1>3, JobNames
    <3>4. QED
      BY <2>3, <3>1, <3>2, <3>3 DEF FromCommit
  <2>5. QED
    BY <1>2, <2>2, <2>4 DEF JobsInv, AttemptsEnd
<1>12. QED
  BY <1>5, <1>7, <1>8, <1>9, <1>10, <1>11 DEF JobsInv

(* A job nobody has in hand is dropped: lost, or found done. *)
LEMMA DroppedJob ==
  ASSUME JobsInv, NEW job \in jobs \ HandedOut, jobs' = jobs \ {job},
         UNCHANGED <<note, worker, sent, ballot>>,
         faults' = faults \/ (faults < MaxFaults /\ faults' = faults + 1)
  PROVE  JobsInv'
<1> USE VoteRequestAssumption
<1>1. faults' \in 0..MaxFaults /\ faults \in Nat /\ faults <= faults'
  BY DEF JobsInv, JobTypes
<1>2. JobTypes' /\ WorkersApart' /\ JobsKnow'
  BY <1>1 DEF JobsInv, JobTypes, WorkersApart, JobsKnow
<1>3. WorkersHold'
  BY AtRest DEF JobsInv, WorkersHold
<1>4. SentForAReason'
  BY <1>1 DEF JobsInv, JobTypes, SentForAReason, Settling
<1>5. AttemptsEnd'
  BY DEF JobsInv, AttemptsEnd, Swept, Created, FromCommit
<1>6. QED
  BY <1>2, <1>3, <1>4, <1>5 DEF JobsInv

(* The sweep sends another job for a row that has attempts left. *)
LEMMA SweepStep ==
  ASSUME JobsInv, NEW v \in Voters, Sweep(v), UNCHANGED ballot
  PROVE  JobsInv'
<1> USE VoteRequestAssumption
<1> DEFINE new == DeliverJob(v, "sweep")
<1>1. /\ jobs' = jobs \cup {new} /\ UNCHANGED <<note, worker, sent, faults, ballot>>
      /\ note[v].status \in Unsent /\ note[v].attempts < MaxAttempts
  BY DEF Sweep, Stuck
<1>2. new \in JobRow /\ new.task = "deliver" /\ new.voter = v /\ new.by = "sweep"
  BY JobNames
<1>3. note[v].status # "NONE" /\ ballot[v] # NoBallot /\ note[v].attempts \in Nat
  BY <1>1 DEF JobsInv, JobTypes, NoteRow, JobsKnow, Unsent
<1>4. JobTypes' /\ WorkersHold' /\ WorkersApart'
  BY <1>1, <1>2 DEF JobsInv, JobTypes, WorkersHold, WorkersApart
<1>5. JobsKnow' /\ SentForAReason'
  BY <1>1, <1>2, <1>3 DEF JobsInv, JobsKnow, SentForAReason, Settling
<1>6. AttemptsEnd'
  <2>1. ASSUME NEW u \in Voters
        PROVE  /\ DeliverJob(u, "commit") \in jobs' <=> DeliverJob(u, "commit") \in jobs
               /\ u # v => (DeliverJob(u, "sweep") \in jobs' <=> DeliverJob(u, "sweep") \in jobs)
    BY <1>1, <1>2, JobNames
  <2>2. QED
    BY <1>1, <1>3, <2>1 DEF JobsInv, AttemptsEnd, Swept, Created, FromCommit
<1>7. QED
  BY <1>4, <1>5, <1>6 DEF JobsInv

(* A worker takes a delivery, and the lock of its row. *)
LEMMA DeliverStartsStep ==
  ASSUME JobsInv, NEW w \in Workers, NEW job \in jobs, DeliverStarts(w, job), UNCHANGED ballot
  PROVE  JobsInv'
<1> USE VoteRequestAssumption
<1> DEFINE row == [at |-> "locked", job |-> job, result |-> "NONE"]
<1>1. /\ worker[w] = Resting /\ job.task = "deliver" /\ job \in jobs \ HandedOut /\ ~Locked(job.voter)
      /\ UNCHANGED <<note, sent, faults>>
  BY DEF DeliverStarts
<1>2. CASE jobs' = jobs \ {job} /\ UNCHANGED worker
  BY <1>1, <1>2, DroppedJob
<1>3. CASE note[job.voter].status \in Unsent /\ worker' = [worker EXCEPT ![w] = row] /\ UNCHANGED jobs
  <2>1. job \in JobRow /\ row \in WorkerRow /\ row.at = "locked" /\ row.job = job /\ row.result = "NONE"
    BY <1>1 DEF JobsInv, JobTypes, WorkerRow
  <2>2. /\ worker'[w] = row /\ \A p \in Workers : p # w => worker'[p] = worker[p]
        /\ worker[w].at = "idle" /\ \A p \in Workers : worker[p].job # job
    BY <1>1, <1>3, AtRest DEF JobsInv, JobTypes
  <2>3. \A p \in Workers : worker[p].at \in {"locked", "answered"} => worker[p].job.voter # job.voter
    BY <1>1 DEF Locked
  <2>4. JobTypes' /\ JobsKnow'
    BY <1>1, <1>3, <2>1 DEF JobsInv, JobTypes, JobsKnow
  <2>5. WorkersHold'
    BY <1>1, <1>3, <2>1, <2>2 DEF JobsInv, WorkersHold
  <2>6. WorkersApart'
    BY <2>1, <2>2, <2>3 DEF JobsInv, WorkersApart
  <2>7. SentForAReason'
    BY <1>1, <2>1, <2>2 DEF JobsInv, SentForAReason, Settling
  <2>8. AttemptsEnd'
    BY <1>1, <1>3, <2>1, <2>2 DEF JobsInv, AttemptsEnd, Swept, Created, FromCommit
  <2>9. QED
    BY <2>4, <2>5, <2>6, <2>7, <2>8 DEF JobsInv
<1>4. QED
  BY <1>2, <1>3 DEF DeliverStarts, Deliverable

(* The provider answers, or its answer is lost. *)
LEMMA SendStep ==
  ASSUME JobsInv, NEW w \in Workers, Send(w) \/ AnswerLost(w), UNCHANGED ballot
  PROVE  JobsInv'
<1> USE VoteRequestAssumption
<1>0. PICK v \in Voters : v = worker[w].job.voter
  BY AtRest DEF Send, AnswerLost
<1>1. /\ worker[w].at = "locked" /\ worker[w] \in WorkerRow /\ worker[w].job \in jobs
      /\ worker[w].job.task = "deliver" /\ note[v].status \in Unsent
      /\ UNCHANGED <<jobs, note, ballot>> /\ faults \in Nat
  <2>1. worker[w].at = "locked" /\ UNCHANGED <<jobs, note, ballot>>
    BY DEF Send, AnswerLost
  <2>2. worker[w] \in WorkerRow /\ faults \in Nat
    BY DEF JobsInv, JobTypes
  <2>3. /\ worker[w].job \in jobs
        /\ worker[w].job.task = "deliver" /\ note[v].status \in Unsent
    BY <1>0, <2>1 DEF JobsInv, WorkersHold
  <2> QED
    BY <2>1, <2>2, <2>3
<1>2. PICK row \in WorkerRow :
        /\ worker' = [worker EXCEPT ![w] = row]
        /\ row.at = "answered" /\ row.job = worker[w].job /\ row.result # "NONE"
        /\ \/ /\ row.result = "SENT" /\ sent' = [sent EXCEPT ![v] = @ + 1] /\ faults' = faults
           \/ row.result # "SENT" /\ sent' = sent /\ faults' = faults
           \/ /\ sent' = [sent EXCEPT ![v] = @ + 1]
              /\ faults < MaxFaults /\ faults' = faults + 1
  <2>1. CASE Send(w)
    <3>1. PICK result \in {"SENT", "FAILED", "SKIPPED"} :
            /\ worker' = [worker EXCEPT ![w].at = "answered", ![w].result = result]
            /\ sent' = IF result = "SENT" THEN [sent EXCEPT ![worker[w].job.voter] = @ + 1] ELSE sent
            /\ faults' = faults
      BY <2>1 DEF Send
    <3>2. worker' = [worker EXCEPT ![w] = [worker[w] EXCEPT !.at = "answered", !.result = result]]
      BY <1>1, <3>1 DEF WorkerRow, JobsInv, JobTypes
    <3> DEFINE answered == [worker[w] EXCEPT !.at = "answered", !.result = result]
    <3>3. /\ answered \in WorkerRow /\ answered.at = "answered" /\ answered.job = worker[w].job
          /\ answered.result = result /\ result # "NONE"
      BY <1>1 DEF WorkerRow
    <3>4. result = "SENT" => sent' = [sent EXCEPT ![v] = @ + 1]
      BY <1>0, <3>1
    <3>5. worker' = [worker EXCEPT ![w] = answered]
      BY <3>2
    <3> HIDE DEF answered
    <3>6. QED
      BY <3>1, <3>3, <3>4, <3>5
  <2>2. CASE AnswerLost(w)
    <3>1. /\ worker' = [worker EXCEPT ![w].at = "answered", ![w].result = "FAILED"]
          /\ sent' = [sent EXCEPT ![v] = @ + 1]
          /\ faults < MaxFaults /\ faults' = faults + 1
      BY <1>0, <2>2 DEF AnswerLost
    <3>2. worker' = [worker EXCEPT ![w] = [worker[w] EXCEPT !.at = "answered", !.result = "FAILED"]]
      BY <1>1, <3>1 DEF WorkerRow, JobsInv, JobTypes
    <3> DEFINE answered == [worker[w] EXCEPT !.at = "answered", !.result = "FAILED"]
    <3>3. /\ answered \in WorkerRow /\ answered.at = "answered" /\ answered.job = worker[w].job
          /\ answered.result # "NONE"
      BY <1>1 DEF WorkerRow
    <3>4. worker' = [worker EXCEPT ![w] = answered]
      BY <3>2
    <3> HIDE DEF answered
    <3>5. QED
      BY <3>1, <3>3, <3>4
  <2>3. QED
    BY <2>1, <2>2
<1>3. worker'[w] = row /\ \A p \in Workers : p # w => worker'[p] = worker[p]
  BY <1>2 DEF JobsInv, JobTypes
<1>4. JobTypes' /\ JobsKnow'
  BY <1>1, <1>2 DEF JobsInv, JobTypes, JobsKnow
<1>5. WorkersHold'
  BY <1>0, <1>1, <1>2, <1>3 DEF JobsInv, WorkersHold
<1>6. WorkersApart'
  BY <1>1, <1>2, <1>3 DEF JobsInv, WorkersApart
<1>7. SentForAReason'
  <2>1. ~Settling(v)
    <3>1. \A p \in Workers : worker[p].at = "answered" => worker[p].job.voter # v
      BY <1>0, <1>1 DEF JobsInv, WorkersApart
    <3>2. QED
      BY <1>1, <3>1 DEF Settling, Unsent
  <2>2. sent[v] <= faults /\ sent \in [Voters -> Nat]
    BY <2>1 DEF JobsInv, JobTypes, SentForAReason
  <2>3. \A u \in Voters : u # v => (Settling(u)' <=> Settling(u))
    BY <1>0, <1>1, <1>2, <1>3 DEF Settling
  <2>4. row.result = "SENT" => Settling(v)'
    BY <1>0, <1>2, <1>3 DEF Settling
  <2>5. QED
    BY <1>1, <1>2, <2>2, <2>3, <2>4 DEF JobsInv, SentForAReason
<1>8. AttemptsEnd'
  BY <1>1, <1>2, <1>3 DEF JobsInv, AttemptsEnd, Swept, Created, FromCommit
<1>9. QED
  BY <1>4, <1>5, <1>6, <1>7, <1>8 DEF JobsInv

(* The outcome is committed, and the job done, or left for another attempt.  *)
LEMMA DeliverEndsStep ==
  ASSUME JobsInv, NEW w \in Workers, DeliverEnds(w), UNCHANGED ballot
  PROVE  JobsInv'
<1> USE VoteRequestAssumption
<1>0. PICK v \in Voters, job \in JobRow, attempts \in Nat :
        v = job.voter /\ job = worker[w].job /\ attempts = note[v].attempts
  BY AtRest DEF DeliverEnds, JobsInv, JobTypes, NoteRow
<1>1. PICK result \in {"SENT", "FAILED", "SKIPPED"} : result = worker[w].result
  BY AtRest DEF DeliverEnds, JobsInv, WorkersHold, WorkerRow
<1>2. /\ worker[w].at = "answered" /\ job \in jobs /\ job.task = "deliver" /\ note[v].status \in Unsent
      /\ ballot[v] # NoBallot
  BY <1>0 DEF DeliverEnds, JobsInv, WorkersHold, JobsKnow
<1>3. /\ note' = [note EXCEPT ![v] = [status |-> result, attempts |-> attempts + 1]]
      /\ jobs' = jobs \/ jobs' = jobs \ {job}
      /\ jobs' = jobs => attempts + 1 < MaxAttempts \/ job \notin jobs
      /\ worker' = [worker EXCEPT ![w] = Resting]
      /\ UNCHANGED <<sent, faults, ballot>>
  BY <1>0, <1>1 DEF DeliverEnds, Rests
<1>4. /\ note'[v] = [status |-> result, attempts |-> attempts + 1]
      /\ \A u \in Voters : u # v => note'[u] = note[u]
      /\ worker'[w] = Resting /\ \A p \in Workers : p # w => worker'[p] = worker[p]
      /\ Resting \in WorkerRow /\ Resting.at = "idle" /\ Resting.job = NoJob
  BY <1>3 DEF JobsInv, JobTypes, WorkerRow, Resting
<1>5. JobTypes'
  BY <1>3, <1>4 DEF JobsInv, JobTypes, NoteRow, Unsent
<1>6. \A p \in Workers : p # w /\ worker[p].at # "idle" => worker[p].job \in jobs \ {job}
  BY <1>0, <1>2 DEF JobsInv, WorkersHold, WorkersApart
<1>7. \A p \in Workers : p # w /\ worker[p].at \in {"locked", "answered"} => worker[p].job.voter # v
  BY <1>0, <1>2 DEF JobsInv, WorkersApart
<1>8. WorkersHold'
  <2>1. ASSUME NEW p \in Workers, p # w, worker[p].at = "created"
        PROVE  note'[worker[p].job.voter].status # "NONE"
    <3>1. PICK u \in Voters : u = worker[p].job.voter /\ note[u].status # "NONE"
      BY <2>1, AtRest DEF JobsInv, WorkersHold
    <3>2. note'[u].status # "NONE"
      BY <1>4, <3>1
    <3>3. QED
      BY <3>1, <3>2
  <2>2. ASSUME NEW p \in Workers, p # w, worker[p].at \in {"locked", "answered"}
        PROVE  note'[worker[p].job.voter].status \in Unsent
    <3>1. PICK u \in Voters : u = worker[p].job.voter /\ note[u].status \in Unsent /\ u # v
      BY <1>7, <2>2, AtRest DEF JobsInv, WorkersHold
    <3>2. QED
      BY <1>4, <3>1
  <2>3. QED
    BY <1>3, <1>4, <1>6, <2>1, <2>2 DEF JobsInv, WorkersHold
<1>9. WorkersApart'
  <2>1. \A p \in Workers : worker[p].at # "idle" => worker[p].job # NoJob
    BY AtRest DEF NoJob, JobRow
  <2>2. QED
    BY <1>4, <2>1 DEF JobsInv, WorkersApart
<1>10. JobsKnow'
  <2>1. ASSUME NEW u \in Voters
        PROVE  /\ note'[u].status # "NONE" <=> note[u].status # "NONE"
               /\ note'[u].status = "NONE" => note'[u] = note[u]
    BY <1>2, <1>4 DEF Unsent
  <2>2. \A j \in jobs' : j \in jobs /\ j.voter \in Voters
    BY <1>3 DEF JobsInv, JobTypes, JobRow
  <2>3. ASSUME NEW j \in jobs'
        PROVE  /\ ballot[j.voter] # NoBallot /\ (j.task = "confirm" => j.by = "commit")
               /\ j.task = "deliver" => note'[j.voter].status # "NONE"
    <3>1. PICK u \in Voters : u = j.voter
      BY <2>2
    <3>2. j.task = "deliver" => note[u].status # "NONE"
      BY <2>2, <3>1 DEF JobsInv, JobsKnow
    <3>3. j.task = "deliver" => note'[u].status # "NONE"
      BY <2>1, <3>2
    <3>4. QED
      BY <2>2, <3>1, <3>3 DEF JobsInv, JobsKnow
  <2>4. ASSUME NEW u \in Voters
        PROVE  /\ note'[u].status # "NONE" => ballot[u] # NoBallot
               /\ note'[u].status = "NONE" => note'[u] = NoNote
    BY <2>1 DEF JobsInv, JobsKnow
  <2>5. QED
    BY <1>3, <2>3, <2>4 DEF JobsKnow
<1>11. SentForAReason'
  <2>1. ASSUME NEW u \in Voters, u # v
        PROVE  Settling(u)' <=> Settling(u)
    BY <1>0, <1>4, <2>1 DEF Settling
  <2>2. Settling(v)' \/ ~Settling(v)
    <3>1. CASE result = "FAILED"
      BY <1>0, <1>1, <1>2, <1>7, <3>1 DEF Settling, Unsent
    <3>2. CASE result # "FAILED"
      BY <1>4, <3>2 DEF Settling
    <3>3. QED
      BY <3>1, <3>2
  <2>3. QED
    BY <1>3, <2>1, <2>2 DEF JobsInv, SentForAReason
<1>12. AttemptsEnd'
  <2>1. \A u \in Voters : Created(u)' <=> Created(u)
    BY <1>2, <1>4 DEF Created
  <2>2. ASSUME NEW u \in Voters, NEW by \in {"commit", "sweep"}, DeliverJob(u, by) \in jobs'
        PROVE  DeliverJob(u, by) \in jobs
    BY <1>3, <2>2
  <2>3. ASSUME NEW u \in Voters, u # v
        PROVE  (/\ ~(DeliverJob(u, "commit") \in jobs /\ Created(u))
                /\ note[u].attempts >= MaxAttempts => ~(Swept(u) /\ FromCommit(u))
                /\ note[u].attempts > MaxAttempts => ~Swept(u) /\ ~FromCommit(u)
                /\ note[u].attempts <= MaxAttempts + 1)'
    BY <1>3, <1>4, <2>1, <2>2, <2>3 DEF JobsInv, AttemptsEnd, Swept, FromCommit
  <2>4. job = DeliverJob(v, "commit") \/ job = DeliverJob(v, "sweep")
    BY <1>0, <1>2, JobNames DEF JobRow
  <2>5. /\ ~(DeliverJob(v, "commit") \in jobs /\ Created(v))
        /\ attempts >= MaxAttempts => ~(Swept(v) /\ FromCommit(v))
        /\ attempts > MaxAttempts => ~Swept(v) /\ ~FromCommit(v)
        /\ note'[v].attempts = attempts + 1
    BY <1>0, <1>4 DEF JobsInv, AttemptsEnd
  <2>6. attempts <= MaxAttempts
    BY <1>2, <2>4, <2>5 DEF Swept, FromCommit
  <2>7. attempts + 1 >= MaxAttempts => jobs' = jobs \ {job}
    BY <1>2, <1>3
  <2>8. attempts + 1 >= MaxAttempts => ~(Swept(v)' /\ FromCommit(v)')
    <3>1. CASE job = DeliverJob(v, "commit")
      <4>1. ~Created(v)'
        BY <1>2, <2>1, <2>5, <3>1
      <4>2. QED
        BY <2>7, <3>1, <4>1 DEF FromCommit
    <3>2. CASE job = DeliverJob(v, "sweep")
      BY <2>7, <3>2 DEF Swept
    <3>3. QED
      BY <2>4, <3>1, <3>2
  <2>9. attempts + 1 > MaxAttempts => ~Swept(v)' /\ ~FromCommit(v)'
    <3>1. CASE job = DeliverJob(v, "commit")
      BY <1>2, <2>1, <2>5, <2>6, <2>7, <3>1 DEF Swept, FromCommit
    <3>2. CASE job = DeliverJob(v, "sweep")
      BY <1>2, <2>1, <2>5, <2>6, <2>7, <3>2 DEF Swept, FromCommit
    <3>3. QED
      BY <2>4, <3>1, <3>2
  <2>10. ~(DeliverJob(v, "commit") \in jobs' /\ Created(v)')
    BY <2>1, <2>2, <2>5
  <2>11. QED
    BY <2>3, <2>5, <2>6, <2>8, <2>9, <2>10 DEF AttemptsEnd
<1>13. QED
  BY <1>5, <1>8, <1>9, <1>10, <1>11, <1>12 DEF JobsInv

(* A worker dies: its job is handed out again. *)
LEMMA WorkerDiesStep ==
  ASSUME JobsInv, NEW w \in Workers, WorkerDies(w), UNCHANGED ballot
  PROVE  JobsInv'
<1> USE VoteRequestAssumption
<1>1. /\ worker' = [worker EXCEPT ![w] = Resting] /\ UNCHANGED <<jobs, note, sent, ballot>>
      /\ faults < MaxFaults /\ faults' = faults + 1 /\ faults \in Nat
  BY DEF WorkerDies, Rests, JobsInv, JobTypes
<1>2. /\ worker'[w] = Resting /\ \A p \in Workers : p # w => worker'[p] = worker[p]
      /\ Resting \in WorkerRow /\ Resting.at = "idle" /\ Resting.job = NoJob
  BY <1>1 DEF JobsInv, JobTypes, WorkerRow, Resting
<1>3. JobTypes' /\ WorkersHold' /\ JobsKnow'
  BY <1>1, <1>2 DEF JobsInv, JobTypes, WorkersHold, JobsKnow
<1>4. WorkersApart'
  <2>1. \A p \in Workers : worker[p].at # "idle" => worker[p].job # NoJob
    BY AtRest DEF NoJob, JobRow
  <2>2. QED
    BY <1>2, <2>1 DEF JobsInv, WorkersApart
<1>5. SentForAReason'
  BY <1>1 DEF JobsInv, JobTypes, SentForAReason
<1>6. AttemptsEnd'
  <2>1. \A u \in Voters : Created(u)' => Created(u)
    BY <1>2 DEF Created
  <2>2. QED
    BY <1>1, <2>1 DEF JobsInv, AttemptsEnd, Swept, FromCommit
<1>7. QED
  BY <1>3, <1>4, <1>5, <1>6 DEF JobsInv

-----------------------------------------------------------------------------
(* Every step. *)

IInv == HandlersInv /\ LogInv /\ JobsInv

(* A handler begins. *)
LEMMA BeginKeeps ==
  ASSUME IInv, NEW q \in Requests, NEW v \in Voters, NEW b \in Bodies,
         Claim(q, v, b) \/ Replay(q, v, b)
  PROVE  IInv'
<1>1. UNCHANGED <<auditVars, jobVars, ballot, faults>>
      /\ request[q] = Free /\ request'[q].at # "casting" /\ \A p \in Requests : p # q => request'[p] = request[p]
  BY DEF Claim, Replay, IInv, HandlersInv, Types
<1>2. HandlersInv'
  BY BeginStep DEF IInv
<1>3. LogInv'
  BY <1>1, LogUntouched DEF IInv, Free
<1>4. JobsInv'
  BY <1>1, JobsUntouched DEF IInv
<1>5. QED
  BY <1>2, <1>3, <1>4 DEF IInv

(* A handler goes on, or ends. *)
LEMMA HandleKeeps ==
  ASSUME IInv, NEW q \in Requests, Handle(q)
  PROVE  IInv'
<1>1. request \in [Requests -> RequestRow] /\ faults \in Nat
  BY DEF IInv, HandlersInv, Types, JobsInv, JobTypes
<1>2. CASE Cast(q)
  <2>1. UNCHANGED <<jobVars, ballot, faults>>
    BY <1>2 DEF Cast
  <2>2. QED
    BY <1>2, <2>1, GoOnStep, AppendStep, JobsUntouched DEF IInv
<1>3. CASE Commit(q)
  <2>1. UNCHANGED <<jobVars, faults>> /\ \A v \in Voters : ballot[v] # NoBallot => ballot'[v] # NoBallot
    BY <1>3, VoteRequestAssumption DEF Commit, IInv, HandlersInv, Types, Claims, Active
  <2>2. QED
    BY <1>3, <2>1, GoOnStep, CommitStep, JobsUntouched DEF IInv
<1>4. CASE AfterCast(q)
  <2>1. UNCHANGED <<auditVars, ballot>>
        /\ request[q].at # "casting" /\ request'[q].at # "casting" /\ \A p \in Requests : p # q => request'[p] = request[p]
    BY <1>1, <1>4 DEF AfterCast, GoesTo, RequestRow
  <2>2. LogInv'
    BY <2>1, LogUntouched DEF IInv
  <2>3. QED
    BY <1>4, <2>2, GoOnStep, AfterCastStep DEF IInv
<1>5. CASE Complete(q)
  <2>1. UNCHANGED <<auditVars, jobVars, faults, ballot>>
        /\ request[q].at # "casting" /\ request'[q].at # "casting" /\ \A p \in Requests : p # q => request'[p] = request[p]
    BY <1>1, <1>5 DEF Complete, GoesTo, RequestRow
  <2>2. LogInv'
    BY <2>1, LogUntouched DEF IInv
  <2>3. JobsInv'
    BY <2>1, JobsUntouched DEF IInv
  <2>4. QED
    BY <1>5, <2>2, <2>3, GoOnStep DEF IInv
<1>6. CASE Answered(q) \/ Refuse(q) \/ Rollback(q) \/ BrokerRefuses(q) \/ HandlerDies(q)
  <2>1. /\ Ends(q) /\ UNCHANGED <<setting, ballot, jobVars>>
        /\ faults' = faults \/ (faults < MaxFaults /\ faults' = faults + 1)
        /\ UNCHANGED record \/ (request[q].at \in Active /\ record' = Released(request[q].voter))
    BY <1>6 DEF Answered, Refuse, Rollback, BrokerRefuses, HandlerDies, Active, jobVars
  <2>2. request' = [request EXCEPT ![q] = Free] /\ Free.at = "idle"
    BY <2>1 DEF Ends, Free
  <2>3. HandlersInv'
    BY <2>1, EndStep DEF IInv
  <2>4. JobsInv'
    BY <2>1, JobsUntouched DEF IInv
  <2>5. LogInv'
    <3>1. CASE request[q].at = "casting"
      <4>1. DropEntry(q)
        BY <1>6, <3>1 DEF Answered, Refuse, Rollback, BrokerRefuses, HandlerDies
      <4>2. QED
        BY <2>1, <3>1, <4>1, DropStep DEF IInv
    <3>2. CASE request[q].at # "casting"
      <4>1. UNCHANGED auditVars
        BY <1>6, <3>2 DEF Answered, Refuse, Rollback, BrokerRefuses, HandlerDies
      <4>2. /\ \A p \in Requests : request'[p].at = "casting" <=> request[p].at = "casting"
            /\ \A p \in Requests : request[p].at = "casting" => request'[p].voter = request[p].voter
        BY <1>1, <2>2, <3>2
      <4>3. QED
        BY <2>1, <4>1, <4>2, LogUntouched DEF IInv
    <3>3. QED
      BY <3>1, <3>2
  <2>6. QED
    BY <2>3, <2>4, <2>5 DEF IInv
<1>7. QED
  BY <1>2, <1>3, <1>4, <1>5, <1>6 DEF Handle

(* A step of the job workers and the broker leaves handlers and log alone.   *)
LEMMA JobKeeps ==
  ASSUME IInv, JobsInv', UNCHANGED <<auditVars, requestVars, setting>>
  PROVE  IInv'
<1>1. UNCHANGED <<record, ballot, request, setting>>
  BY DEF requestVars
<1>2. HandlersInv'
  BY <1>1 DEF IInv, HandlersInv, Types, Claims, ClaimsApart, HandlersKnow, AnswersKept
<1>3. LogInv'
  BY <1>1, LogUntouched DEF IInv
<1>4. QED
  BY <1>2, <1>3 DEF IInv

LEMMA WorkKeeps ==
  ASSUME IInv, NEW w \in Workers, Work(w) \/ WorkerDies(w) \/ AnswerLost(w)
  PROVE  IInv'
<1>1. UNCHANGED <<auditVars, requestVars, setting, ballot>>
  BY DEF Work, WorkerDies, AnswerLost, ConfirmStarts, ConfirmAgain, ConfirmEnds, Send, DeliverEnds,
         DeliverStarts, requestVars
<1>2. CASE \E v \in Voters : ConfirmStarts(w, v)
  BY <1>1, <1>2, ConfirmStartsStep, JobKeeps DEF IInv
<1>3. CASE \E v \in Voters : ConfirmAgain(w, v)
  <2>1. PICK v \in Voters : ConfirmAgain(w, v)
    BY <1>3
  <2>2. Confirm(v) \in jobs \ HandedOut /\ jobs' = jobs \ {Confirm(v)} /\ UNCHANGED <<note, worker, sent, faults>>
    BY <2>1 DEF ConfirmAgain
  <2>3. QED
    BY <1>1, <2>2, DroppedJob, JobKeeps DEF IInv
<1>4. CASE ConfirmEnds(w)
  BY <1>1, <1>4, ConfirmEndsStep, JobKeeps DEF IInv
<1>5. CASE Send(w) \/ AnswerLost(w)
  BY <1>1, <1>5, SendStep, JobKeeps DEF IInv
<1>6. CASE DeliverEnds(w)
  BY <1>1, <1>6, DeliverEndsStep, JobKeeps DEF IInv
<1>7. CASE \E job \in jobs : DeliverStarts(w, job)
  BY <1>1, <1>7, DeliverStartsStep, JobKeeps DEF IInv
<1>8. CASE WorkerDies(w)
  BY <1>1, <1>8, WorkerDiesStep, JobKeeps DEF IInv
<1>9. QED
  BY <1>2, <1>3, <1>4, <1>5, <1>6, <1>7, <1>8 DEF Work

LEMMA InitInv == Init => IInv
  BY InitHandlers, InitLog, InitJobs DEF IInv

LEMMA NextInv == IInv /\ [Next]_vars => IInv'
<1> SUFFICES ASSUME IInv, [Next]_vars PROVE IInv'
  OBVIOUS
<1>1. setting.voters \subseteq Voters /\ setting.requests \subseteq Requests /\ setting.workers \subseteq Workers
  BY VoteRequestAssumption DEF IInv, HandlersInv, Types
<1>2. CASE \E q \in setting.requests, v \in setting.voters, b \in Bodies : Claim(q, v, b) \/ Replay(q, v, b)
  BY <1>1, <1>2, BeginKeeps
<1>3. CASE \E q \in setting.requests : Handle(q)
  BY <1>1, <1>3, HandleKeeps
<1>4. CASE \E v \in setting.voters : Expire(v)
  <2>1. PICK v \in Voters : Expire(v)
    BY <1>1, <1>4
  <2>2. UNCHANGED <<auditVars, jobVars, request, ballot, faults>>
    BY <2>1 DEF Expire
  <2>3. HandlersInv' /\ LogInv' /\ JobsInv'
    BY <2>1, <2>2, ExpireStep, LogUntouched, JobsUntouched DEF IInv
  <2>4. QED
    BY <2>3 DEF IInv
<1>5. CASE \E v \in setting.voters : Sweep(v)
  <2>1. PICK v \in Voters : Sweep(v)
    BY <1>1, <1>5
  <2>2. UNCHANGED <<auditVars, requestVars, setting, ballot>>
    BY <2>1 DEF Sweep, requestVars
  <2>3. QED
    BY <2>1, <2>2, SweepStep, JobKeeps DEF IInv
<1>6. CASE \E w \in setting.workers : Work(w) \/ WorkerDies(w) \/ AnswerLost(w)
  BY <1>1, <1>6, WorkKeeps
<1>7. CASE \E job \in jobs : LoseJob(job)
  <2>1. PICK job \in jobs : LoseJob(job)
    BY <1>7
  <2>2. /\ job \in jobs \ HandedOut /\ jobs' = jobs \ {job} /\ UNCHANGED <<note, worker, sent, setting>>
        /\ faults < MaxFaults /\ faults' = faults + 1
        /\ UNCHANGED <<auditVars, requestVars, ballot>>
    BY <2>1 DEF LoseJob, requestVars
  <2>3. QED
    BY <2>2, DroppedJob, JobKeeps DEF IInv
<1>8. CASE Verify
  <2>1. UNCHANGED <<setting, record, ballot, request, jobVars, faults>>
    BY <1>8 DEF Verify, requestVars
  <2>2. HandlersInv'
    BY <2>1 DEF IInv, HandlersInv, Types, Claims, ClaimsApart, HandlersKnow, AnswersKept
  <2>3. LogInv' /\ JobsInv'
    BY <1>8, <2>1, VerifyStep, JobsUntouched DEF IInv
  <2>4. QED
    BY <2>2, <2>3 DEF IInv
<1>9. CASE UNCHANGED vars
  <2>1. UNCHANGED <<auditVars, requestVars, setting, jobVars, faults, ballot>>
    BY <1>9 DEF vars, requestVars
  <2>2. JobsInv'
    BY <2>1, JobsUntouched DEF IInv
  <2>3. QED
    BY <2>1, <2>2, JobKeeps
<1>10. QED
  BY <1>2, <1>3, <1>4, <1>5, <1>6, <1>7, <1>8, <1>9 DEF Next

LEMMA Invariance == Spec => []IInv
  BY InitInv, NextInv, PTL DEF Spec

-----------------------------------------------------------------------------
(* Every variable has its type: sequence numbers are dense, and attempts     *)
(* overshoot MAX_ATTEMPTS by one at most, however many workers there are.    *)
THEOREM TypeCorrect == Spec => []TypeOK
<1>1. ASSUME IInv PROVE TypeOK
  <2>1. /\ setting \in Settings
        /\ record \in [Voters -> [state : {"NONE", "IN_PROGRESS", "COMPLETED"}, body : Bodies \cup {NoBallot}]]
        /\ ballot \in [Voters -> Bodies \cup {NoBallot}]
        /\ request \in [Requests -> [at : {"idle", "claimed", "casting", "committed", "queued", "receipt"},
                                     voter : Voters \cup {NoBallot}, body : Bodies \cup {NoBallot}]]
    BY <1>1 DEF IInv, HandlersInv, Types, RecordRow, RequestRow
  <2>2. jobs \subseteq [task : {"confirm", "deliver"}, voter : Voters, by : {"commit", "sweep"}]
        /\ \A w \in Workers : worker[w].at \in {"idle", "created", "locked", "answered"}
    BY <1>1 DEF IInv, JobsInv, JobTypes, JobRow, WorkerRow
  <2>3. note \in [Voters -> [status : {"NONE", "SENT", "SKIPPED"} \cup Unsent, attempts : 0..(MaxAttempts + 1)]]
    <3>1. ASSUME NEW v \in Voters
          PROVE  note[v] \in [status : {"NONE", "SENT", "SKIPPED"} \cup Unsent, attempts : 0..(MaxAttempts + 1)]
      <4>1. note[v] \in NoteRow /\ note[v].attempts <= MaxAttempts + 1
        BY <1>1 DEF IInv, JobsInv, JobTypes, AttemptsEnd
      <4>2. QED
        BY <4>1, VoteRequestAssumption DEF NoteRow
    <3>2. QED
      BY <1>1, <3>1 DEF IInv, JobsInv, JobTypes
  <2>4. sent \in [Voters -> 0..(MaxFaults + 1)] /\ faults \in 0..MaxFaults
    BY <1>1, VoteRequestAssumption DEF IInv, JobsInv, JobTypes, SentForAReason
  <2>5. Chained
    <3>1. head.seq = Len(entries) /\ \A i \in DOMAIN entries : entries[i].seq = i
      BY <1>1 DEF IInv, LogInv, ChainInv, LinkedTo
    <3>2. ASSUME NEW q \in Requests, pending[q] # NoEntry
          PROVE  pending[q][1].seq = Len(entries) + 1
      <4>1. pending[q] = <<Linked(request[q].voter)>>
        BY <1>1, <3>2 DEF IInv, LogInv, OneWriter
      <4>2. QED
        BY <3>1, <4>1 DEF Linked
    <3>3. QED
      BY <3>1, <3>2, VoteRequestAssumption DEF Chained
  <2>6. QED
    BY <2>1, <2>2, <2>3, <2>4, <2>5 DEF TypeOK
<1>2. QED
  BY <1>1, Invariance, PTL

(* idempotent, cast_ballot: whoever gets a receipt has cast what it sent.    *)
THEOREM TrueReceipts == Spec => []ReceiptIsMine
<1>1. IInv => ReceiptIsMine
  BY DEF IInv, HandlersInv, HandlersKnow, Voted, ReceiptIsMine
<1>2. QED
  BY <1>1, Invariance, PTL

(* audit.record inside the casting transaction: one entry per ballot, and    *)
(* one ballot per entry, whatever fails.                                     *)
THEOREM BallotsAudited == Spec => []AuditTellsEveryBallot
<1>1. IInv => AuditTellsEveryBallot
  BY DEF IInv, LogInv
<1>2. QED
  BY <1>1, Invariance, PTL

(* verify_chain: an alarm on an untouched log means an append in between.    *)
THEOREM NoOtherAlarm == Spec => []AlarmOnlyInARace
<1>1. IInv => AlarmOnlyInARace
  BY DEF IInv, LogInv, CheckInv, AlarmOnlyInARace
<1>2. QED
  BY <1>1, Invariance, PTL

(* on_commit: no voter is told of a ballot that is not in the box.           *)
THEOREM BallotBeforeConfirmation == Spec => []NoConfirmationWithoutBallot
<1>1. IInv => NoConfirmationWithoutBallot
  BY DEF IInv, JobsInv, JobsKnow, NoConfirmationWithoutBallot
<1>2. QED
  BY <1>1, Invariance, PTL

(* deliver: a confirmation beyond the first is paid for by a fault.          *)
THEOREM OneConfirmation == Spec => []ConfirmedOnce
<1>1. IInv => ConfirmedOnce
  BY DEF IInv, JobsInv, JobTypes, SentForAReason, ConfirmedOnce
<1>2. QED
  BY <1>1, Invariance, PTL

-----------------------------------------------------------------------------
(* Box and log change in one action ... *)
LEMMA OnlyCommitsRecord ==
  ASSUME [Next]_vars, \A q \in setting.requests : ~Commit(q)
  PROVE  UNCHANGED <<entries, ballot>>
<1>1. CASE UNCHANGED <<auditVars, ballot>>
  BY <1>1 DEF auditVars
<1>2. CASE \E q \in setting.requests, v \in setting.voters, b \in Bodies : Claim(q, v, b) \/ Replay(q, v, b)
  BY <1>1, <1>2 DEF Claim, Replay
<1>3. ASSUME NEW q \in setting.requests, Handle(q) PROVE UNCHANGED <<entries, ballot>>
  <2>1. CASE Cast(q)
    BY <2>1 DEF Cast, AppendEntry
  <2>2. CASE Rollback(q) \/ HandlerDies(q)
    BY <1>1, <2>2 DEF Rollback, HandlerDies, DropEntry
  <2>3. QED
    BY <1>1, <1>3, <2>1, <2>2
    DEF Handle, AfterCast, Complete, Answered, Refuse, BrokerRefuses
<1>4. CASE \E v \in setting.voters : Expire(v) \/ Sweep(v)
  BY <1>1, <1>4 DEF Expire, Sweep, requestVars
<1>5. CASE \E w \in setting.workers : Work(w) \/ WorkerDies(w) \/ AnswerLost(w)
  BY <1>1, <1>5 DEF Work, WorkerDies, AnswerLost, ConfirmStarts, ConfirmAgain, ConfirmEnds, Send,
        DeliverEnds, DeliverStarts, requestVars
<1>6. CASE \E job \in jobs : LoseJob(job)
  BY <1>1, <1>6 DEF LoseJob, requestVars
<1>7. CASE Verify
  BY <1>7 DEF Verify, Check, CheckEntries, CheckHead, requestVars
<1>8. CASE UNCHANGED vars
  BY <1>1, <1>8 DEF vars, requestVars
<1>9. QED
  BY <1>2, <1>3, <1>4, <1>5, <1>6, <1>7, <1>8 DEF Next

(* ... and a row enters the outbox in another; none ever leaves it.          *)
LEMMA OnlyConfirmTells ==
  ASSUME IInv, [Next]_vars, \A w \in setting.workers, v \in Voters : ~ConfirmStarts(w, v)
  PROVE  \A v \in Voters : note'[v].status = "NONE" <=> note[v].status = "NONE"
<1> DEFINE Goal == \A v \in Voters : note'[v].status = "NONE" <=> note[v].status = "NONE"
<1>0. setting.voters \subseteq Voters /\ setting.requests \subseteq Requests /\ setting.workers \subseteq Workers
  BY VoteRequestAssumption DEF IInv, HandlersInv, Types
<1>1. CASE UNCHANGED note
  BY <1>1
<1>2. CASE \E q \in setting.requests, v \in setting.voters, b \in Bodies : Claim(q, v, b) \/ Replay(q, v, b)
  BY <1>1, <1>2 DEF Claim, Replay, jobVars
<1>3. CASE \E q \in setting.requests : Handle(q)
  BY <1>1, <1>3 DEF Handle, Cast, Commit, AfterCast, Complete, Answered, Refuse, Rollback, BrokerRefuses,
        HandlerDies, jobVars
<1>4. CASE \E v \in setting.voters : Expire(v) \/ Sweep(v)
  BY <1>1, <1>4 DEF Expire, Sweep, jobVars
<1>5. ASSUME NEW w \in setting.workers, DeliverEnds(w) PROVE Goal
  <2> DEFINE v == worker[w].job.voter
  <2>1. /\ worker[w].result # "NONE" /\ note[v].status # "NONE"
    <3>1. worker[w].at = "answered"
      BY <1>5 DEF DeliverEnds
    <3>2. QED
      BY <1>0, <3>1 DEF IInv, JobsInv, WorkersHold, Unsent
  <2>2. PICK n : note' = [note EXCEPT ![v] = [status |-> worker[w].result, attempts |-> n]]
    BY <1>5 DEF DeliverEnds
  <2>3. note = [u \in Voters |-> note[u]]
    BY DEF IInv, JobsInv, JobTypes
  <2>4. ASSUME NEW u \in Voters PROVE note'[u].status = "NONE" <=> note[u].status = "NONE"
    BY <2>1, <2>2, <2>3
  <2>5. QED
    BY <2>4
<1>6. ASSUME NEW w \in setting.workers, Work(w) \/ WorkerDies(w) \/ AnswerLost(w) PROVE Goal
  <2>1. \A v \in Voters : ~ConfirmStarts(w, v)
    OBVIOUS
  <2>2. QED
    BY <1>1, <1>5, <1>6, <2>1 DEF Work, WorkerDies, AnswerLost, ConfirmAgain, ConfirmEnds, Send, DeliverStarts
<1>7. CASE \E job \in jobs : LoseJob(job)
  BY <1>1, <1>7 DEF LoseJob
<1>8. CASE Verify \/ UNCHANGED vars
  BY <1>1, <1>8 DEF Verify, vars, jobVars
<1>9. QED
  BY <1>2, <1>3, <1>4, <1>6, <1>7, <1>8 DEF Next

LEMMA ToldByStatus == IInv => Told = {v \in Voters : note[v].status # "NONE"}
  BY DEF IInv, JobsInv, JobsKnow, Told, NoNote

(* A commit adds its voter at the end of the abstract log. *)
LEMMA LogAppended ==
  ASSUME ChainInv, NEW v, entries' = Append(entries, Linked(v)), head' = HeadAfter(Linked(v))
  PROVE  Log' = Append(Log, v)
<1> DEFINE n == Len(entries)
           S == {entries[i].content : i \in DOMAIN entries} \cup {v}
<1>1. /\ n \in Nat /\ DOMAIN entries = 1..n /\ DOMAIN entries' = 1..(n + 1)
      /\ \A i \in 1..n : entries'[i] = entries[i]
      /\ entries'[n + 1].content = v
  BY Appended
<1>2. Log \in [1..n -> S] /\ Log' \in [1..(n + 1) -> S]
  <2>1. \A i \in 1..n : entries[i].content \in S
    BY <1>1
  <2>2. \A m \in Nat : \A i \in 1..(m + 1) : i \in 1..m \/ i = m + 1
    OBVIOUS
  <2>3. \A i \in 1..(n + 1) : entries'[i].content \in S
    BY <1>1, <2>1, <2>2
  <2>4. QED
    BY <1>1, <2>1, <2>3 DEF Log
<1>3. Log \in Seq(S) /\ Log' \in Seq(S) /\ Len(Log) = n /\ Len(Log') = n + 1
  BY <1>1, <1>2, SeqDef
<1>4. /\ Append(Log, v) \in Seq(S) /\ Len(Append(Log, v)) = n + 1
      /\ \A i \in 1..n : Append(Log, v)[i] = Log[i]
      /\ Append(Log, v)[n + 1] = v
  BY <1>3, AppendProperties
<1>5. \A i \in 1..(n + 1) : Log'[i] = Append(Log, v)[i]
  <2> SUFFICES ASSUME NEW i \in 1..(n + 1) PROVE Log'[i] = Append(Log, v)[i]
    OBVIOUS
  <2>1. CASE i \in 1..n
    <3>1. Log'[i] = entries'[i].content /\ Log[i] = entries[i].content
      BY <1>1, <2>1 DEF Log
    <3>2. QED
      BY <1>1, <1>4, <2>1, <3>1
  <2>2. CASE i = n + 1
    <3>1. Log'[i] = entries'[i].content
      BY <1>1, <2>2 DEF Log
    <3>2. QED
      BY <1>1, <1>4, <2>2, <3>1
  <2>3. n \in Nat
    BY <1>1
  <2>4. i \in 1..n \/ i = n + 1
    BY <2>3
  <2>5. QED
    BY <2>1, <2>2, <2>4
<1>6. QED
  BY <1>3, <1>4, <1>5, SeqEqual

(* A ballot enters the box and the log in one step and stays, and only then  *)
(* its voter is told, whatever handlers, workers and the broker do or lose.  *)
THEOREM Refinement == Spec => ImplementsRecordedVotes
<1>1. Init => RV!Init
  <2> SUFFICES ASSUME Init PROVE RV!Init
    OBVIOUS
  <2>1. entries = <<>> /\ ballot = [v \in Voters |-> NoBallot] /\ note = [v \in Voters |-> NoNote]
    BY DEF Init, AuditInit
  <2>2. Log = <<>>
    <3>1. DOMAIN entries = 1..0
      BY <2>1
    <3>2. Log \in [1..0 -> {}]
      BY <3>1 DEF Log
    <3>3. Log \in Seq({}) /\ Len(Log) = 0
      BY <3>2, SeqDef
    <3>4. QED
      BY <3>3, EmptySeq
  <2>3. Told = {}
    BY <2>1 DEF Told
  <2>4. QED
    BY <2>1, <2>2, <2>3 DEF RV!Init
<1>2. IInv /\ IInv' /\ [Next]_vars => [RV!Next]_(RV!vars)
  <2> SUFFICES ASSUME IInv, IInv', [Next]_vars PROVE [RV!Next]_(RV!vars)
    OBVIOUS
  <2>0. setting.requests \subseteq Requests /\ setting.workers \subseteq Workers
    BY VoteRequestAssumption DEF IInv, HandlersInv, Types
  <2>1. /\ Told = {v \in Voters : note[v].status # "NONE"}
        /\ Told' = {v \in Voters : note'[v].status # "NONE"}
    <3>1. (IInv => Told = {v \in Voters : note[v].status # "NONE"})'
      BY ToldByStatus, PTL
    <3>2. QED
      BY <3>1, ToldByStatus
  <2>2. ASSUME NEW q \in setting.requests, Commit(q) PROVE RV!Next
    <3> DEFINE v == request[q].voter
               b == request[q].body
    <3>1. /\ request[q].at = "casting" /\ v \in Voters /\ b \in Bodies /\ ballot[v] = NoBallot
      BY <2>0, <2>2 DEF Commit, IInv, HandlersInv, Claims, HandlersKnow, Active
    <3>2. pending[q] = <<Linked(v)>>
      BY <2>0, <3>1 DEF IInv, LogInv, OneWriter
    <3>3. /\ entries' = Append(entries, Linked(v)) /\ head' = HeadAfter(Linked(v))
          /\ ballot' = [ballot EXCEPT ![v] = b] /\ UNCHANGED note
      BY <2>2, <3>2 DEF Commit, CommitEntry, jobVars
    <3>4. Log' = Append(Log, v)
      BY <3>3, LogAppended DEF IInv, LogInv
    <3>5. Told' = Told
      BY <3>3 DEF Told
    <3>6. RV!Record(v, b)
      BY <3>1, <3>3, <3>4, <3>5 DEF RV!Record
    <3>7. QED
      BY <3>1, <3>6 DEF RV!Next
  <2>3. ASSUME NEW w \in setting.workers, NEW v \in Voters, ConfirmStarts(w, v) PROVE RV!Next
    <3>1. note[v] = NoNote /\ note' = [note EXCEPT ![v].status = "QUEUED"] /\ UNCHANGED <<entries, ballot>>
      BY <2>3 DEF ConfirmStarts, auditVars, requestVars
    <3>2. ballot[v] # NoBallot
      <4>1. Confirm(v) \in jobs /\ Confirm(v).voter = v
        BY <2>3 DEF ConfirmStarts, Confirm
      <4>2. QED
        BY <4>1 DEF IInv, JobsInv, JobsKnow
    <3>3. Told' = Told \cup {v} /\ v \notin Told
      <4>1. /\ note'[v].status = "QUEUED" /\ note[v].status = "NONE"
            /\ \A u \in Voters : u # v => note'[u] = note[u]
        BY <3>1 DEF IInv, JobsInv, JobTypes, NoteRow, NoNote
      <4>2. QED
        BY <2>1, <4>1
    <3>4. Log' = Log
      BY <3>1 DEF Log
    <3>5. RV!Tell(v)
      BY <3>1, <3>2, <3>3, <3>4 DEF RV!Tell
    <3>6. QED
      BY <3>5 DEF RV!Next
  <2>4. ASSUME \A q \in setting.requests : ~Commit(q),
               \A w \in setting.workers, v \in Voters : ~ConfirmStarts(w, v)
        PROVE  UNCHANGED RV!vars
    <3>1. UNCHANGED <<entries, ballot>>
      BY <2>4, OnlyCommitsRecord
    <3>2. Told' = Told
      BY <2>1, <2>4, OnlyConfirmTells
    <3>3. Log' = Log
      BY <3>1 DEF Log
    <3>4. QED
      BY <3>1, <3>2, <3>3 DEF RV!vars
  <2>5. QED
    BY <2>2, <2>3, <2>4
<1>3. QED
  BY Invariance, <1>1, <1>2, PTL DEF Spec, ImplementsRecordedVotes, RV!Spec
=============================================================================
