--------------------------- MODULE Approvals_proofs ---------------------------
(***************************************************************************)
(* What TLAPS proves about the staff's controls, for every number of       *)
(* officials, requests, payments, analysts and browsers.                   *)
(*                                                                         *)
(* Approvals: two people, however many handlers overlap; and, while they   *)
(* do not, one execution, told truthfully, and extensions that extend. The *)
(* rows handlers hold and save whole are what the invariants are about.    *)
(*                                                                         *)
(* Fraud: votes of a held payment wait for a human, however its checkout,  *)
(* its settlement, its chargebacks and several analysts interleave.        *)
(*                                                                         *)
(* SignIn: a one-time secret opens one session, because the cache forgets  *)
(* a code of the authenticator only after its time and a challenge stays   *)
(* used; a recovery code does, and failures add up to the lockout, while   *)
(* the requests of the account wait for each other.                        *)
(***************************************************************************)
EXTENDS Approvals, Fraud, SignIn, FiniteSetTheorems, SequenceTheorems, TLAPS

Executing == {"execute", "extend", "succeeded", "failed"}

(* A handler works on a request that was made, and its copy of the row says  *)
(* who made it. *)
CopiesHold == \A o \in Officials : job[o].op # "idle" =>
    /\ job[o].r \in Requests
    /\ asked[job[o].r].status # "NONE" /\ job[o].row.status # "NONE"
    /\ job[o].row.by = asked[job[o].r].by

(* Under dual control nobody executes what they asked for. *)
OthersExecute == dual => \A o \in Officials :
    /\ job[o].op # "self"
    /\ job[o].op \in Executing => job[o].row.by # o

(* What was not asked for was not executed. *)
NothingUnasked == \A r \in Requests : asked[r].status = "NONE" => ranBy[r] = {}

(* Without overlap one handler is under way ... *)
Alone == ~overlap => \A o, p \in Officials : job[o] # Idle /\ job[p] # Idle => o = p

(* ... whose copy is the row itself, and who has executed it or not as its   *)
(* place tells. *)
CopyIsRow == ~overlap => \A o \in Officials :
    /\ job[o].op # "idle" => job[o].row = asked[job[o].r]
    /\ job[o].op = "self" => asked[job[o].r].status = "PENDING"
    /\ job[o].op \in Executing => asked[job[o].r].status = "APPROVED"
    /\ job[o].op \in Executing \ {"succeeded"} => ranBy[job[o].r] = {}
    /\ job[o].op = "succeeded" => ranBy[job[o].r] = {o}
    /\ job[o].op = "extend" => job[o].row.newEnd > event.end

Unexecuted == {"NONE", "PENDING", "REJECTED", "CANCELLED", "EXPIRED", "FAILED"}

(* OutcomeIsTold, without counting. *)
Told == ~overlap => \A r \in Requests :
    /\ ranBy[r] = {} \/ \E o \in Officials : ranBy[r] = {o}
    /\ asked[r].status \in Unexecuted => ranBy[r] = {}
    /\ asked[r].status = "EXECUTED" => ranBy[r] # {}

-----------------------------------------------------------------------------
(* Types. *)

LEMMA IdleTyped == Blank \in Request /\ Idle \in Job /\ Idle.op = "idle"
  BY ApprovalsAssumption DEF ApprovalsAssumption, Blank, Request, Idle, Job, Ops, Kinds, Status

LEMMA InitTyped == Init => TypeOK
  BY IdleTyped, ApprovalsAssumption DEF ApprovalsAssumption, Init, TypeOK, Event

(* A handler's own step. *)
LEMMA HandlerTyped ==
  ASSUME TypeOK, NEW o \in Officials, Handler(o)
  PROVE  TypeOK'
<1> USE IdleTyped, ApprovalsAssumption DEF ApprovalsAssumption, TypeOK, Stays, Ends, Goes
<1>0. /\ job[o] \in Job /\ job[o].row \in Request
      /\ \A r \in Requests : asked[r] \in Request
  BY DEF Job
<1>1. ASSUME NEW r \in Requests, NEW action \in Actions, NEW newEnd \in 0..MaxTime,
             Ask(o, r, action, newEnd)
      PROVE  TypeOK'
  <2> DEFINE row == [action |-> action, status |-> "PENDING", by |-> o, decider |-> Nobody,
                     expires |-> now + Lifetime, newEnd |-> newEnd]
  <2>1. row \in Request
    BY DEF Request, Kinds, Status
  <2>2. [op |-> "self", r |-> r, row |-> row] \in Job
    BY <2>1 DEF Job, Ops
  <2> HIDE DEF row
  <2>3. asked' = [asked EXCEPT ![r] = row]
    BY <1>1 DEF Ask, row
  <2>4. job' = IF dual THEN job ELSE [job EXCEPT ![o] = [op |-> "self", r |-> r, row |-> row]]
    BY <1>1 DEF Ask, row
  <2> QED
    BY <1>1, <2>1, <2>2, <2>3, <2>4 DEF Ask
<1>2. ASSUME NEW r \in Requests, Load(o, r) PROVE TypeOK'
  <2>1. [op |-> "loaded", r |-> r, row |-> asked[r]] \in Job
    BY <1>0 DEF Job, Ops
  <2>2. /\ job' = [job EXCEPT ![o] = [op |-> "loaded", r |-> r, row |-> asked[r]]]
        /\ UNCHANGED <<overlap, dual, now, event, disputes, asked, ranBy>>
    BY <1>2 DEF Load
  <2>3. job' \in [Officials -> Job]
    BY <2>1, <2>2
  <2> QED
    BY <2>2, <2>3
<1>3. ASSUME NEW d \in Officials, NEW s \in Status
      PROVE  [job[o].row EXCEPT !.decider = d, !.status = s] \in Request
             /\ [job[o].row EXCEPT !.status = s, !.decider = d] \in Request
             /\ [job[o].row EXCEPT !.status = s] \in Request
  BY <1>0 DEF Request
<1>4. ASSUME NEW row \in Request PROVE [job[o] EXCEPT !.op = "execute", !.row = row] \in Job
  BY <1>0 DEF Job, Ops
<1>5. CASE ApproveOwn(o)
  <2> DEFINE row == [job[o].row EXCEPT !.status = "APPROVED", !.decider = o]
  <2>1. row \in Request
    BY <1>3 DEF Status, Decided
  <2> HIDE DEF row
  <2>2. /\ asked' = [asked EXCEPT ![job[o].r] = row]
        /\ job' = [job EXCEPT ![o] = [@ EXCEPT !.op = "execute", !.row = row]]
        /\ UNCHANGED <<overlap, dual, now, event, disputes, ranBy>>
    BY <1>5 DEF ApproveOwn, row
  <2>3. asked' \in [Requests -> Request]
    BY <2>1, <2>2
  <2>4. job' \in [Officials -> Job]
    BY <1>4, <2>1, <2>2
  <2> QED
    BY <2>2, <2>3, <2>4
<1>6. CASE Cancel(o) \/ Expire(o)
  <2>1. asked' \in [Requests -> Request]
    BY <1>0, <1>6 DEF Cancel, Expire, Request, Status, Decided
  <2> QED
    BY <1>6, <2>1 DEF Cancel, Expire
<1>7. ASSUME NEW approve \in BOOLEAN, Decide(o, approve) PROVE TypeOK'
  <2> DEFINE row == [job[o].row EXCEPT !.decider = o, !.status = IF approve THEN "APPROVED" ELSE "REJECTED"]
  <2>1. row \in Request
    BY <1>3 DEF Status, Decided
  <2> HIDE DEF row
  <2>2. /\ asked' = [asked EXCEPT ![job[o].r] = row]
        /\ job' = [job EXCEPT ![o] = IF approve THEN [@ EXCEPT !.op = "execute", !.row = row] ELSE Idle]
    BY <1>7 DEF Decide, row
  <2>3. asked' \in [Requests -> Request]
    BY <2>1, <2>2
  <2>4. job' \in [Officials -> Job]
    BY <1>4, <2>1, <2>2
  <2>5. UNCHANGED <<overlap, dual, now, event, disputes, ranBy>>
    BY <1>7 DEF Decide
  <2> QED
    BY <2>3, <2>4, <2>5
<1>8. ASSUME NEW op \in Ops PROVE [job EXCEPT ![o].op = op] \in [Officials -> Job]
  BY <1>0 DEF Job
<1>9. CASE ExecUnfreeze(o) \/ ExecRelease(o) \/ ExecOther(o) \/ ExecExtendSave(o)
  <2>1. job' \in [Officials -> Job]
    BY <1>8, <1>9 DEF ExecUnfreeze, ExecRelease, ExecOther, ExecExtendSave, Ops
  <2>2. ranBy' \in [Requests -> SUBSET Officials]
    BY <1>9 DEF ExecUnfreeze, ExecRelease, ExecOther, ExecExtendSave, Ran
  <2>3. event' \in Event
    <3>1. event \in Event /\ job[o].row.newEnd \in 0..MaxTime
      BY <1>0 DEF Request
    <3>2. \/ event' = [event EXCEPT !.frozen = FALSE] \/ event' = [event EXCEPT !.hold = FALSE]
          \/ event' = event \/ event' = [event EXCEPT !.end = job[o].row.newEnd]
      BY <1>9 DEF ExecUnfreeze, ExecRelease, ExecOther, ExecExtendSave
    <3> QED
      BY <3>1, <3>2 DEF Event
  <2>4. UNCHANGED <<overlap, dual, now, disputes, asked>>
    BY <1>9 DEF ExecUnfreeze, ExecRelease, ExecOther, ExecExtendSave
  <2> QED
    BY <2>1, <2>2, <2>3, <2>4
<1>10. CASE ExecExtendRead(o)
  <2>1. job' \in [Officials -> Job]
    BY <1>8, <1>10 DEF ExecExtendRead, Ops
  <2>2. UNCHANGED <<overlap, dual, now, event, disputes, asked, ranBy>>
    BY <1>10 DEF ExecExtendRead
  <2> QED
    BY <2>1, <2>2
<1>11. CASE Record(o)
  <2>1. [job[o].row EXCEPT !.status = Outcome(o)] \in Request
    BY <1>3 DEF Outcome, Status, Decided
  <2> QED
    BY <1>11, <2>1 DEF Record
<1>12. CASE GiveUp(o)
  BY <1>12 DEF GiveUp
<1> QED
  BY <1>1, <1>2, <1>5, <1>6, <1>7, <1>9, <1>10, <1>11, <1>12 DEF Handler

LEMMA StepTyped == TypeOK /\ [Next]_vars => TypeOK'
<1> SUFFICES ASSUME TypeOK, [Next]_vars PROVE TypeOK'
  OBVIOUS
<1>1. CASE \E o \in Officials : Handler(o)
  BY <1>1, HandlerTyped
<1>2. CASE Casework
  BY <1>2 DEF Casework, CloseVoting, PlaceHold, Freeze, Archive, FileDispute, SettleDispute, RowOnly, Stays, TypeOK, Event
<1>3. CASE Tick
  BY <1>3, ApprovalsAssumption DEF ApprovalsAssumption, Tick, Stays, TypeOK
<1>4. CASE UNCHANGED vars
  BY <1>4 DEF vars, TypeOK
<1> QED
  BY <1>1, <1>2, <1>3, <1>4 DEF Next

-----------------------------------------------------------------------------
(* Two people. *)

(* The row a handler saves is its copy with another status and decider: who  *)
(* asked stays who asked. *)
LEMMA HandlerApart ==
  ASSUME TypeOK, CopiesHold, OthersExecute, NothingUnasked, TwoPeople, NEW o \in Officials, Handler(o)
  PROVE  CopiesHold' /\ OthersExecute' /\ NothingUnasked' /\ TwoPeople'
<1> USE IdleTyped DEF TypeOK, Stays, Ends, Goes, Executing
<1>0. /\ job[o] \in Job /\ job[o].row \in Request
      /\ \A r \in Requests : asked[r] \in Request
      /\ \A p \in Officials : job[p] \in Job
  BY DEF Job
<1>1. ASSUME NEW r \in Requests, NEW action \in Actions, NEW newEnd \in 0..MaxTime,
             Ask(o, r, action, newEnd)
      PROVE  CopiesHold' /\ OthersExecute' /\ NothingUnasked' /\ TwoPeople'
  <2> DEFINE row == [action |-> action, status |-> "PENDING", by |-> o, decider |-> Nobody,
                     expires |-> now + Lifetime, newEnd |-> newEnd]
  <2>1. row.status = "PENDING" /\ row.by = o
    OBVIOUS
  <2> HIDE DEF row
  <2>2. /\ asked' = [asked EXCEPT ![r] = row]
        /\ job' = IF dual THEN job ELSE [job EXCEPT ![o] = [op |-> "self", r |-> r, row |-> row]]
        /\ asked[r].status = "NONE" /\ job[o] = Idle
    BY <1>1 DEF Ask, MayStart, row
  <2>3. \A p \in Officials : job[p].op # "idle" => job[p].r # r
    BY <2>2 DEF CopiesHold
  <2>4. CopiesHold'
    BY <2>1, <2>2, <2>3 DEF CopiesHold
  <2>5. OthersExecute'
    BY <1>1, <2>2 DEF Ask, OthersExecute
  <2>6. ranBy[r] = {}
    BY <2>2 DEF NothingUnasked
  <2> QED
    BY <1>1, <2>1, <2>2, <2>4, <2>5, <2>6 DEF Ask, NothingUnasked, TwoPeople
<1>2. ASSUME NEW r \in Requests, Load(o, r)
      PROVE  CopiesHold' /\ OthersExecute' /\ NothingUnasked' /\ TwoPeople'
  BY <1>2 DEF Load, CopiesHold, OthersExecute, NothingUnasked, TwoPeople
(* The steps that save: only status and decider change. *)
<1>3. ASSUME NEW row \in Request, row.by = job[o].row.by, row.status # "NONE", job[o].op # "idle",
             asked' = [asked EXCEPT ![job[o].r] = row], ranBy' = ranBy, dual' = dual,
             \/ job' = [job EXCEPT ![o] = Idle]
             \/ /\ job' = [job EXCEPT ![o] = [@ EXCEPT !.op = "execute", !.row = row]]
                /\ dual => row.by # o
      PROVE  CopiesHold' /\ OthersExecute' /\ NothingUnasked' /\ TwoPeople'
  <2>1. job[o].r \in Requests /\ asked[job[o].r].status # "NONE" /\ row.by = asked[job[o].r].by
    BY <1>3 DEF CopiesHold
  <2>2. \A r \in Requests : /\ asked'[r].by = asked[r].by
                            /\ asked'[r].status = "NONE" <=> asked[r].status = "NONE"
    BY <1>3, <2>1
  <2>3. \A p \in Officials : p # o => job'[p] = job[p]
    BY <1>3
  <2>4. \/ job'[o].op = "idle"
        \/ job'[o].op = "execute" /\ job'[o].row = row /\ job'[o].r = job[o].r /\ (dual => row.by # o)
    BY ZenonT(60), <1>0, <1>3 DEF Job
  <2>5. CopiesHold'
    BY <1>3, <2>1, <2>2, <2>3, <2>4 DEF CopiesHold
  <2>6. OthersExecute'
    BY <1>3, <2>3, <2>4 DEF OthersExecute
  <2> QED
    BY <1>3, <2>2, <2>5, <2>6 DEF NothingUnasked, TwoPeople
<1>4. CASE ApproveOwn(o)
  <2> DEFINE row == [job[o].row EXCEPT !.status = "APPROVED", !.decider = o]
  <2>1. row \in Request /\ row.by = job[o].row.by /\ row.status # "NONE"
    BY <1>0 DEF Request, Status, Decided
  <2>2. ~dual
    BY <1>4 DEF ApproveOwn, OthersExecute
  <2> HIDE DEF row
  <2>3. /\ asked' = [asked EXCEPT ![job[o].r] = row]
        /\ job' = [job EXCEPT ![o] = [@ EXCEPT !.op = "execute", !.row = row]]
        /\ job[o].op # "idle" /\ ranBy' = ranBy /\ dual' = dual
    BY <1>4 DEF ApproveOwn, row
  <2> QED
    BY <1>3, <2>1, <2>2, <2>3
<1>5. CASE Cancel(o) \/ Expire(o)
  <2>1. /\ job[o].op # "idle" /\ job' = [job EXCEPT ![o] = Idle] /\ ranBy' = ranBy /\ dual' = dual
        /\ job[o].r \in Requests
    BY <1>5 DEF Cancel, Expire, CopiesHold
  <2>2. PICK s \in {"CANCELLED", "EXPIRED"} : asked' = [asked EXCEPT ![job[o].r].status = s]
    BY <1>5 DEF Cancel, Expire
  <2>3. \A r \in Requests : /\ asked'[r].by = asked[r].by
                            /\ asked'[r].status = "NONE" => asked[r].status = "NONE"
    BY <1>0, <2>1, <2>2 DEF Request
  <2>4. \A r \in Requests : asked[r].status # "NONE" => asked'[r].status # "NONE"
    BY <1>0, <2>1, <2>2 DEF Request
  <2> QED
    BY <2>1, <2>3, <2>4 DEF CopiesHold, OthersExecute, NothingUnasked, TwoPeople
<1>6. ASSUME NEW approve \in BOOLEAN, Decide(o, approve)
      PROVE  CopiesHold' /\ OthersExecute' /\ NothingUnasked' /\ TwoPeople'
  <2> DEFINE row == [job[o].row EXCEPT !.decider = o, !.status = IF approve THEN "APPROVED" ELSE "REJECTED"]
  <2>1. row \in Request /\ row.by = job[o].row.by /\ row.status # "NONE" /\ row.by # o
    BY <1>0, <1>6 DEF Request, Status, Decided, Decide, SecondPerson
  <2> HIDE DEF row
  <2>3. /\ asked' = [asked EXCEPT ![job[o].r] = row]
        /\ job' = [job EXCEPT ![o] = IF approve THEN [@ EXCEPT !.op = "execute", !.row = row] ELSE Idle]
        /\ job[o].op # "idle" /\ ranBy' = ranBy /\ dual' = dual
    BY <1>6 DEF Decide, row
  <2>4. \/ job' = [job EXCEPT ![o] = Idle]
        \/ job' = [job EXCEPT ![o] = [@ EXCEPT !.op = "execute", !.row = row]]
    BY <2>3
  <2> QED
    BY <1>3, <2>1, <2>3, <2>4
<1>7. CASE Record(o)
  <2> DEFINE row == [job[o].row EXCEPT !.status = Outcome(o)]
  <2>1. row \in Request /\ row.by = job[o].row.by /\ row.status # "NONE"
    BY <1>0 DEF Request, Status, Decided, Outcome
  <2> HIDE DEF row
  <2>2. /\ asked' = [asked EXCEPT ![job[o].r] = row] /\ job' = [job EXCEPT ![o] = Idle]
        /\ job[o].op # "idle" /\ ranBy' = ranBy /\ dual' = dual
    BY <1>7 DEF Record, row
  <2> QED
    BY <1>3, <2>1, <2>2
(* The executions: by somebody else than the one who asked. *)
<1>8. ASSUME NEW op \in {"succeeded", "failed", "extend"}, job[o].op \in Executing,
             job' = [job EXCEPT ![o].op = op], asked' = asked, dual' = dual,
             ranBy' = ranBy \/ ranBy' = [ranBy EXCEPT ![job[o].r] = @ \cup {o}]
      PROVE  CopiesHold' /\ OthersExecute' /\ NothingUnasked' /\ TwoPeople'
  <2>1. /\ job[o].r \in Requests /\ asked[job[o].r].status # "NONE"
        /\ job[o].row.by = asked[job[o].r].by /\ (dual => asked[job[o].r].by # o)
    BY <1>8 DEF CopiesHold, OthersExecute
  <2>2. /\ job'[o].op = op /\ job'[o].r = job[o].r /\ job'[o].row = job[o].row
        /\ \A p \in Officials : p # o => job'[p] = job[p]
    BY <1>0, <1>8 DEF Job
  <2>3. CopiesHold'
    BY <1>8, <2>1, <2>2 DEF CopiesHold
  <2>4. OthersExecute'
    BY <1>8, <2>1, <2>2 DEF OthersExecute, CopiesHold
  <2>5. NothingUnasked' /\ TwoPeople'
    BY <1>8, <2>1 DEF NothingUnasked, TwoPeople
  <2> QED
    BY <2>3, <2>4, <2>5
<1>9. CASE ExecUnfreeze(o) \/ ExecRelease(o) \/ ExecOther(o) \/ ExecExtendRead(o) \/ ExecExtendSave(o)
  BY <1>8, <1>9 DEF ExecUnfreeze, ExecRelease, ExecOther, ExecExtendRead, ExecExtendSave, Ran
<1>10. CASE GiveUp(o)
  BY <1>10 DEF GiveUp, CopiesHold, OthersExecute, NothingUnasked, TwoPeople
<1> QED
  BY <1>1, <1>2, <1>4, <1>5, <1>6, <1>7, <1>9, <1>10 DEF Handler

LEMMA StepApart ==
  ASSUME TypeOK, CopiesHold, OthersExecute, NothingUnasked, TwoPeople, [Next]_vars
  PROVE  CopiesHold' /\ OthersExecute' /\ NothingUnasked' /\ TwoPeople'
<1>1. CASE \E o \in Officials : Handler(o)
  BY <1>1, HandlerApart
<1>2. CASE Casework \/ Tick \/ UNCHANGED vars
  <2>1. UNCHANGED <<dual, asked, ranBy, job>>
    BY <1>2 DEF Casework, CloseVoting, PlaceHold, Freeze, Archive, FileDispute, SettleDispute, RowOnly,
                Tick, Stays, vars
  <2> QED
    BY <2>1 DEF CopiesHold, OthersExecute, NothingUnasked, TwoPeople
<1> QED
  BY <1>1, <1>2 DEF Next

-----------------------------------------------------------------------------
(* Without overlap. *)

(* The others have nothing under way. *)
LEMMA HandlerAlone ==
  ASSUME TypeOK, Alone, ~overlap, NEW o \in Officials, Handler(o)
  PROVE  \A p \in Officials : p # o => job[p] = Idle /\ job'[p] = Idle
<1>1. \A p \in Officials : p # o => job[p] = Idle
  <2>1. CASE MayStart(o)
    BY <2>1 DEF MayStart
  <2>2. CASE job[o] # Idle
    BY <2>2 DEF Alone
  <2> QED
    BY <2>1, <2>2, IdleTyped
       DEF Handler, Ask, Load, ApproveOwn, Cancel, Expire, Decide, ExecUnfreeze, ExecRelease, ExecOther,
           ExecExtendRead, ExecExtendSave, Record, GiveUp
<1>2. \A p \in Officials : p # o => job'[p] = job[p]
  BY DEF TypeOK, Handler, Ask, Load, ApproveOwn, Cancel, Expire, Decide, ExecUnfreeze, ExecRelease, ExecOther,
         ExecExtendRead, ExecExtendSave, Record, GiveUp, Goes, Ends
<1> QED
  BY <1>1, <1>2

(* Each step leaves copy, row and executions in agreement. *)
LEMMA HandlerTold ==
  ASSUME TypeOK, CopiesHold, NothingUnasked, Alone, CopyIsRow, Told, ~overlap,
         NEW o \in Officials, Handler(o)
  PROVE  Alone' /\ CopyIsRow' /\ Told'
<1> USE IdleTyped DEF TypeOK, Stays, Ends, Goes, Executing, Unexecuted
<1>0. /\ job[o] \in Job /\ job[o].row \in Request
      /\ \A r \in Requests : asked[r] \in Request
      /\ \A p \in Officials : p # o => job[p].op = "idle" /\ job'[p].op = "idle"
      /\ Alone' /\ overlap' = overlap
  BY HandlerAlone DEF Job, Alone, Handler, Ask, Load, ApproveOwn, Cancel, Expire, Decide, ExecUnfreeze,
     ExecRelease, ExecOther, ExecExtendRead, ExecExtendSave, Record, GiveUp
<1>. SUFFICES CopyIsRow' /\ Told'
  BY <1>0
<1>1. ASSUME NEW r \in Requests, NEW action \in Actions, NEW newEnd \in 0..MaxTime,
             Ask(o, r, action, newEnd)
      PROVE  CopyIsRow' /\ Told'
  <2> DEFINE row == [action |-> action, status |-> "PENDING", by |-> o, decider |-> Nobody,
                     expires |-> now + Lifetime, newEnd |-> newEnd]
  <2>1. row.status = "PENDING"
    OBVIOUS
  <2> HIDE DEF row
  <2>2. /\ asked' = [asked EXCEPT ![r] = row]
        /\ job' = IF dual THEN job ELSE [job EXCEPT ![o] = [op |-> "self", r |-> r, row |-> row]]
        /\ asked[r].status = "NONE" /\ job[o] = Idle /\ ranBy' = ranBy /\ event' = event
    BY <1>1 DEF Ask, MayStart, row
  <2>3. ranBy[r] = {}
    BY <2>2 DEF NothingUnasked
  <2>4. CopyIsRow'
    <3>1. CASE dual
      BY <1>0, <2>2, <3>1 DEF CopyIsRow
    <3>2. CASE ~dual
      <4>1. job'[o] = [op |-> "self", r |-> r, row |-> row]
        BY <2>2, <3>2
      <4> QED
        BY <1>0, <2>1, <2>2, <2>3, <4>1 DEF CopyIsRow
    <3> QED
      BY <3>1, <3>2
  <2> QED
    BY <2>1, <2>2, <2>3, <2>4 DEF Told
<1>2. ASSUME NEW r \in Requests, Load(o, r) PROVE CopyIsRow' /\ Told'
  <2>1. job'[o] = [op |-> "loaded", r |-> r, row |-> asked[r]]
    BY <1>2 DEF Load
  <2> QED
    BY <1>0, <1>2, <2>1 DEF Load, CopyIsRow, Told
(* The steps that end the work on a request that was not executed. *)
<1>3. ASSUME NEW row \in Request, row.status \in {"REJECTED", "CANCELLED", "EXPIRED", "FAILED"},
             job[o].op # "idle", ranBy[job[o].r] = {},
             asked' = [asked EXCEPT ![job[o].r] = row], ranBy' = ranBy, job' = [job EXCEPT ![o] = Idle]
      PROVE  CopyIsRow' /\ Told'
  <2>1. job[o].r \in Requests
    BY <1>3 DEF CopiesHold
  <2>2. \A p \in Officials : job'[p].op = "idle"
    BY <1>0, <1>3
  <2> QED
    BY <1>3, <2>1, <2>2 DEF CopyIsRow, Told
(* The steps that approve. *)
<1>4. ASSUME NEW row \in Request, row.status = "APPROVED", job[o].op # "idle", ranBy[job[o].r] = {},
             asked' = [asked EXCEPT ![job[o].r] = row], ranBy' = ranBy,
             job' = [job EXCEPT ![o] = [@ EXCEPT !.op = "execute", !.row = row]]
      PROVE  CopyIsRow' /\ Told'
  <2>1. job[o].r \in Requests
    BY <1>4 DEF CopiesHold
  <2>2. job'[o].op = "execute" /\ job'[o].r = job[o].r /\ job'[o].row = row
    BY <1>0, <1>4 DEF Job
  <2>3. CopyIsRow'
    BY <1>0, <1>4, <2>1, <2>2 DEF CopyIsRow
  <2> QED
    BY <1>4, <2>1, <2>3 DEF Told
<1>5. job[o].op = "loaded" /\ job[o].row.status = "PENDING" => ranBy[job[o].r] = {}
  BY DEF CopiesHold, CopyIsRow, Told
<1>6. CASE ApproveOwn(o)
  <2> DEFINE row == [job[o].row EXCEPT !.status = "APPROVED", !.decider = o]
  <2>1. row \in Request /\ row.status = "APPROVED"
    BY <1>0 DEF Request, Status, Decided
  <2>2. ranBy[job[o].r] = {} /\ job[o].op # "idle"
    BY <1>6 DEF ApproveOwn, CopiesHold, CopyIsRow, Told
  <2> HIDE DEF row
  <2>3. /\ asked' = [asked EXCEPT ![job[o].r] = row]
        /\ job' = [job EXCEPT ![o] = [@ EXCEPT !.op = "execute", !.row = row]] /\ ranBy' = ranBy
    BY <1>6 DEF ApproveOwn, row
  <2> QED
    BY <1>4, <2>1, <2>2, <2>3
<1>7. CASE Cancel(o) \/ Expire(o)
  <2>1. PICK s \in {"CANCELLED", "EXPIRED"} : asked' = [asked EXCEPT ![job[o].r].status = s]
    BY <1>7 DEF Cancel, Expire
  <2>2. /\ job[o].op = "loaded" /\ job[o].row.status = "PENDING" /\ job[o].r \in Requests
        /\ job' = [job EXCEPT ![o] = Idle] /\ ranBy' = ranBy
    BY <1>7 DEF Cancel, Expire, Undecided, CopiesHold
  <2> DEFINE row == [asked[job[o].r] EXCEPT !.status = s]
  <2>3. row \in Request /\ row.status = s
    BY <1>0, <2>2 DEF Request, Status, Decided
  <2>4. asked' = [asked EXCEPT ![job[o].r] = row]
    BY <2>1
  <2> HIDE DEF row
  <2>5. row.status \in {"REJECTED", "CANCELLED", "EXPIRED", "FAILED"} /\ job[o].op # "idle"
    BY <2>2, <2>3
  <2>6. ranBy[job[o].r] = {}
    BY <1>5, <2>2
  <2> QED
    BY <1>3, <2>2, <2>3, <2>4, <2>5, <2>6
<1>8. ASSUME NEW approve \in BOOLEAN, Decide(o, approve) PROVE CopyIsRow' /\ Told'
  <2> DEFINE row == [job[o].row EXCEPT !.decider = o, !.status = IF approve THEN "APPROVED" ELSE "REJECTED"]
  <2>1. row \in Request /\ row.status = IF approve THEN "APPROVED" ELSE "REJECTED"
    BY <1>0 DEF Request, Status, Decided
  <2>2. job[o].op = "loaded" /\ job[o].row.status = "PENDING"
    BY <1>8 DEF Decide, Undecided
  <2> HIDE DEF row
  <2>3. /\ asked' = [asked EXCEPT ![job[o].r] = row] /\ ranBy' = ranBy
        /\ job' = [job EXCEPT ![o] = IF approve THEN [@ EXCEPT !.op = "execute", !.row = row] ELSE Idle]
    BY <1>8 DEF Decide, row
  <2>4. CASE approve
    BY <1>4, <1>5, <2>1, <2>2, <2>3, <2>4
  <2>5. CASE ~approve
    BY <1>3, <1>5, <2>1, <2>2, <2>3, <2>5
  <2> QED
    BY <2>4, <2>5
<1>9. CASE Record(o)
  <2> DEFINE row == [job[o].row EXCEPT !.status = Outcome(o)]
  <2>1. row \in Request /\ row.status = Outcome(o)
    BY <1>0 DEF Request, Status, Decided, Outcome
  <2> HIDE DEF row
  <2>2. /\ asked' = [asked EXCEPT ![job[o].r] = row] /\ job' = [job EXCEPT ![o] = Idle] /\ ranBy' = ranBy
        /\ job[o].op \in {"succeeded", "failed"} /\ job[o].r \in Requests
    BY <1>9 DEF Record, row, CopiesHold
  <2>3. CASE job[o].op = "failed"
    <3>1. ranBy[job[o].r] = {} /\ row.status = "FAILED"
      BY <2>1, <2>3 DEF CopyIsRow, Outcome
    <3>2. row.status \in {"REJECTED", "CANCELLED", "EXPIRED", "FAILED"} /\ job[o].op # "idle"
      BY <2>3, <3>1
    <3> QED
      BY <1>3, <2>1, <2>2, <3>1, <3>2
  <2>4. CASE job[o].op = "succeeded"
    <3>1. ranBy[job[o].r] = {o} /\ row.status = "EXECUTED"
      BY <2>1, <2>4 DEF CopyIsRow, Outcome
    <3>2. \A p \in Officials : job'[p].op = "idle"
      BY <1>0, <2>2
    <3>3. CopyIsRow'
      BY <3>2 DEF CopyIsRow
    <3>4. \A r \in Requests : /\ r # job[o].r => asked'[r] = asked[r]
                              /\ asked'[job[o].r] = row
      BY <2>2
    <3> QED
      BY <2>2, <3>1, <3>3, <3>4 DEF Told
  <2> QED
    BY <2>2, <2>3, <2>4
<1>10. ASSUME NEW op \in {"succeeded", "failed", "extend"}, job[o].op \in {"execute", "extend"},
              job' = [job EXCEPT ![o].op = op], asked' = asked,
              ranBy' = IF op = "succeeded" THEN [ranBy EXCEPT ![job[o].r] = @ \cup {o}] ELSE ranBy,
              op = "extend" => event' = event /\ job[o].row.newEnd > event.end
       PROVE  CopyIsRow' /\ Told'
  <2>1. /\ job[o].r \in Requests /\ job[o].row = asked[job[o].r]
        /\ asked[job[o].r].status = "APPROVED" /\ ranBy[job[o].r] = {}
    BY <1>10 DEF CopiesHold, CopyIsRow
  <2>2. job'[o].op = op /\ job'[o].r = job[o].r /\ job'[o].row = job[o].row
    BY <1>0, <1>10 DEF Job
  <2>3. /\ op = "succeeded" => ranBy'[job[o].r] = {o}
        /\ op # "succeeded" => ranBy'[job[o].r] = {}
        /\ \A r \in Requests : r # job[o].r => ranBy'[r] = ranBy[r]
    BY <1>10, <2>1
  <2>4. CopyIsRow'
    BY <1>0, <1>10, <2>1, <2>2, <2>3 DEF CopyIsRow
  <2>5. Told'
    BY <1>10, <2>1, <2>3 DEF Told
  <2> QED
    BY <2>4, <2>5
<1>11. CASE ExecUnfreeze(o) \/ ExecRelease(o) \/ ExecOther(o) \/ ExecExtendRead(o) \/ ExecExtendSave(o)
  <2>1. job[o].op \in {"execute", "extend"} /\ asked' = asked
    BY <1>11 DEF ExecUnfreeze, ExecRelease, ExecOther, ExecExtendRead, ExecExtendSave
  <2>2. PICK op \in {"succeeded", "failed", "extend"} :
           /\ job' = [job EXCEPT ![o].op = op]
           /\ ranBy' = IF op = "succeeded" THEN [ranBy EXCEPT ![job[o].r] = @ \cup {o}] ELSE ranBy
           /\ op = "extend" => event' = event /\ job[o].row.newEnd > event.end
    BY <1>11 DEF ExecUnfreeze, ExecRelease, ExecOther, ExecExtendRead, ExecExtendSave, Ran, Lengthens
  <2> QED
    BY <1>10, <2>1, <2>2
<1>12. CASE GiveUp(o)
  BY <1>0, <1>12 DEF GiveUp, CopyIsRow, Told
<1> QED
  BY <1>0, <1>1, <1>2, <1>6, <1>7, <1>8, <1>9, <1>11, <1>12 DEF Handler

(* Casework and the clock touch neither requests nor handlers, and closing   *)
(* only brings the end forward. *)
LEMMA StepTold ==
  ASSUME TypeOK, CopiesHold, NothingUnasked, Alone, CopyIsRow, Told, [Next]_vars
  PROVE  Alone' /\ CopyIsRow' /\ Told'
<1>0. overlap' = overlap
  BY ZenonT(60) DEF Next, Handler, Ask, Load, ApproveOwn, Cancel, Expire, Decide, ExecUnfreeze, ExecRelease, ExecOther,
         ExecExtendRead, ExecExtendSave, Record, GiveUp, Casework, CloseVoting, PlaceHold, Freeze, Archive,
         FileDispute, SettleDispute, RowOnly, Tick, Stays, vars
<1>1. CASE overlap
  BY <1>0, <1>1 DEF Alone, CopyIsRow, Told
<1>2. CASE ~overlap /\ \E o \in Officials : Handler(o)
  BY <1>2, HandlerTold
<1>3. CASE ~overlap /\ (Casework \/ Tick \/ UNCHANGED vars)
  <2>1. UNCHANGED <<asked, ranBy, job>>
    BY <1>3 DEF Casework, CloseVoting, PlaceHold, Freeze, Archive, FileDispute, SettleDispute, RowOnly,
                Tick, vars
  <2>2. event.end \in Nat /\ event'.end \in Nat /\ event'.end <= event.end
    <3>1. event.end \in Nat /\ now \in Nat
      BY ApprovalsAssumption DEF ApprovalsAssumption, TypeOK, Event
    <3>2. event'.end = event.end \/ (event'.end = IF event.end <= now THEN event.end ELSE now)
      BY <1>3 DEF TypeOK, Event, Casework, CloseVoting, PlaceHold, Freeze, Archive, FileDispute,
                  SettleDispute, Tick, vars
    <3> QED
      BY <3>1, <3>2
  <2>3. \A o \in Officials : job[o].row.newEnd \in Nat
    BY ApprovalsAssumption DEF ApprovalsAssumption, TypeOK, Job, Request
  <2>4. \A o \in Officials : job[o].row.newEnd > event.end => job[o].row.newEnd > event'.end
    BY <2>2, <2>3
  <2> QED
    BY <1>0, <1>3, <2>1, <2>4 DEF Alone, CopyIsRow, Told
<1> QED
  BY <1>1, <1>2, <1>3 DEF Next

(* What was judged longer is so still when it is saved. *)
LEMMA StepLengthens ==
  ASSUME TypeOK, CopyIsRow, Next, ~overlap, event'.end < event.end
  PROVE  event.status = "OPEN" /\ event'.status = "CLOSED"
<1>0. event.end \in Nat
  BY ApprovalsAssumption DEF ApprovalsAssumption, TypeOK, Event
<1>1. CASE \E o \in Officials : Handler(o)
  <2> PICK o \in Officials : Handler(o)
    BY <1>1
  <2>1. CASE ExecExtendSave(o)
    <3>1. event'.end = job[o].row.newEnd /\ job[o].row.newEnd > event.end
      BY <2>1 DEF ExecExtendSave, CopyIsRow, TypeOK, Event
    <3>2. job[o].row.newEnd \in Nat
      BY ApprovalsAssumption DEF ApprovalsAssumption, TypeOK, Job, Request
    <3> QED
      BY <1>0, <3>1, <3>2
  <2>2. CASE ~ExecExtendSave(o)
    <3>1. event'.end = event.end
      BY <2>2 DEF Handler, Ask, Load, ApproveOwn, Cancel, Expire, Decide, ExecUnfreeze, ExecRelease, ExecOther,
                  ExecExtendRead, Record, GiveUp, TypeOK, Event
    <3> QED
      BY <1>0, <3>1
  <2> QED
    BY <2>1, <2>2
<1>2. CASE CloseVoting
  BY <1>2 DEF CloseVoting, TypeOK, Event
<1>3. CASE Tick \/ (Casework /\ ~CloseVoting)
  <2>1. event'.end = event.end
    BY <1>3 DEF Tick, Casework, PlaceHold, Freeze, Archive, FileDispute, SettleDispute, TypeOK, Event
  <2> QED
    BY <1>0, <2>1
<1> QED
  BY <1>1, <1>2, <1>3 DEF Next

-----------------------------------------------------------------------------
(* The theorems. *)

IInv ==
    /\ TypeOK
    /\ CopiesHold /\ OthersExecute /\ NothingUnasked /\ TwoPeople
    /\ Alone /\ CopyIsRow /\ Told

LEMMA InitInv == Init => IInv
<1> SUFFICES ASSUME Init PROVE IInv
  OBVIOUS
<1>1. /\ \A o \in Officials : job[o] = Idle /\ job[o].op = "idle"
      /\ \A r \in Requests : asked[r].status = "NONE" /\ ranBy[r] = {}
  BY IdleTyped DEF Init, Blank
<1> QED
  BY <1>1, InitTyped
     DEF IInv, CopiesHold, OthersExecute, NothingUnasked, TwoPeople, Alone, CopyIsRow, Told, Executing

LEMMA StepInv == IInv /\ [Next]_vars => IInv'
  BY StepTyped, StepApart, StepTold DEF IInv

LEMMA Invariant == Spec => []IInv
  BY InitInv, StepInv, PTL DEF Spec

(* One execution at most, counted. *)
LEMMA ToldCounted == TypeOK /\ Told => OutcomeIsTold
<1> SUFFICES ASSUME TypeOK, Told, ~overlap, NEW r \in Requests
             PROVE  /\ Cardinality(ranBy[r]) <= 1
                    /\ asked[r].status \in Unexecuted => ranBy[r] = {}
                    /\ asked[r].status = "EXECUTED" => ranBy[r] # {}
  BY DEF OutcomeIsTold, Unexecuted
<1>1. ranBy[r] = {} \/ \E o \in Officials : ranBy[r] = {o}
  BY DEF Told
<1>2. Cardinality(ranBy[r]) <= 1
  <2>1. CASE ranBy[r] = {}
    <3>1. Cardinality(ranBy[r]) = 0
      BY <2>1, FS_EmptySet
    <3> QED
      BY <3>1
  <2>2. ASSUME NEW o \in Officials, ranBy[r] = {o} PROVE Cardinality(ranBy[r]) <= 1
    <3>1. Cardinality(ranBy[r]) = 1
      BY <2>2, FS_Singleton
    <3> QED
      BY <3>1
  <2> QED
    BY <1>1, <2>1, <2>2
<1> QED
  BY <1>2 DEF Told

(* Every variable has its type. *)
THEOREM TypeCorrect == Spec => []TypeOK
<1>1. IInv => TypeOK
  BY DEF IInv
<1> QED
  BY <1>1, Invariant, PTL

(* decide, _execute: under dual control nothing is executed by the person    *)
(* who asked for it, and, unless handlers overlap, a request is executed     *)
(* once at most and its row tells what became of it. *)
THEOREM DualControl == Spec => []ApprovalsHold
<1>1. IInv => ApprovalsHold
  BY ToldCounted DEF IInv, ApprovalsHold
<1> QED
  BY <1>1, Invariant, PTL

(* _exec_extend: unless handlers overlap, no extension takes voting time     *)
(* away. *)
THEOREM NoTimeLost == Spec => ExtensionsLengthen
<1>1. IInv /\ [Next]_vars
        => [~overlap /\ event'.end < event.end => event.status = "OPEN" /\ event'.status = "CLOSED"]_vars
  BY StepLengthens DEF IInv
<1> QED
  BY <1>1, Invariant, PTL DEF Spec, ExtensionsLengthen

-----------------------------------------------------------------------------
(* Fraud: the inductive invariant.                                           *)

Scopes == Tenants \cup {Platform}
AlertRow == [on : Deals, linked : BOOLEAN, device : BOOLEAN, verdict : Verdicts,
             cause : SUBSET Scopes, status : {"OPEN", "DISMISSED", "CONFIRMED"}]
Review == [alert : Nat, linked : BOOLEAN, holds : BOOLEAN, paid : BOOLEAN]

FraudTyped ==
    /\ deal \in [Deals -> DealRow] /\ alerts \in Seq(AlertRow)
    /\ \A x \in listed : x.scope \in Scopes
    /\ reviewing \in [Analysts -> {NotReviewing} \cup Review]
    /\ freed \subseteq Deals

NoneIsNew == \A d \in Deals : deal[d].status = "none" => deal[d] = NoDeal

(* A checkout that was assessed has no payment yet, and the alert it says.   *)
CheckoutOf(d, verdict, n) ==
    /\ assessed = <<d, verdict, n>> /\ deal[d] = NoDeal
    /\ verdict # "ALLOW" => n \in DOMAIN alerts /\ alerts[n].on = d /\ alerts[n].verdict = verdict
Checkout == assessed = <<>> \/ \E d \in Deals, verdict \in Verdicts, n \in Nat : CheckoutOf(d, verdict, n)

(* Who reviews an alert has loaded one that there is, and its payment.       *)
Reviews(r) == r # NotReviewing => /\ r.alert \in DOMAIN alerts
                                  /\ r.holds => deal[alerts[r.alert].on] # NoDeal
AllReview == \A a \in Analysts : Reviews(reviewing[a])

(* A payment that was held, and is not or is credited, was released.         *)
WasReleased(row, d) == row.wasHeld /\ (~row.held \/ row.credited) => d \in freed
Released == \A d \in Deals : WasReleased(deal[d], d)

(* The alert of a payment that is held. *)
Tells(row, d) == row.on = d /\ row.verdict = "HOLD" /\ (row.linked \/ row.status # "OPEN")

FraudIInv == FraudTyped /\ NoneIsNew /\ Checkout /\ AllReview /\ Released /\ HeldHasAlert /\ BlocksStayAtHome

-----------------------------------------------------------------------------
(* Fraud: the rows.                                                          *)

LEMMA FraudTypes ==
  ASSUME FraudIInv
  PROVE  /\ deal \in [Deals -> DealRow] /\ alerts \in Seq(AlertRow) /\ Len(alerts) \in Nat /\ DOMAIN alerts = 1..Len(alerts)
         /\ reviewing \in [Analysts -> {NotReviewing} \cup Review] /\ freed \subseteq Deals
         /\ \A i \in DOMAIN alerts : alerts[i] \in AlertRow
         /\ NoDeal \in DealRow /\ Tenant \in [Deals -> Tenants]
  BY FraudAssumption DEF FraudIInv, FraudTyped, FraudAssumption, NoDeal, DealRow

LEMMA NotAReview == NotReviewing \notin Review
<1>1. "paid" \notin DOMAIN NotReviewing
  BY DEF NotReviewing
<1>2. \A r \in Review : "paid" \in DOMAIN r
  BY DEF Review
<1> QED
  BY <1>1, <1>2

(* The alerts: more of them, and none loses what it says.                    *)
AlertsGrow ==
    /\ alerts' \in Seq(AlertRow)
    /\ \A i \in DOMAIN alerts :
         /\ i \in DOMAIN alerts' /\ alerts'[i].on = alerts[i].on /\ alerts'[i].verdict = alerts[i].verdict
         /\ alerts[i].linked \/ alerts[i].status # "OPEN" => alerts'[i].linked \/ alerts'[i].status # "OPEN"
    /\ BlocksStayAtHome'

LEMMA AlertsStand == ASSUME FraudIInv, UNCHANGED alerts PROVE AlertsGrow
  BY FraudTypes DEF AlertsGrow, FraudIInv, BlocksStayAtHome

LEMMA AlertAdded ==
  ASSUME FraudIInv, NEW v \in AlertRow, v.cause \subseteq {Platform, Tenant[v.on]}, alerts' = Append(alerts, v)
  PROVE  /\ AlertsGrow /\ Len(alerts') \in DOMAIN alerts' /\ Len(alerts') \in Nat /\ alerts'[Len(alerts')] = v
<1>1. /\ alerts' \in Seq(AlertRow) /\ Len(alerts') = Len(alerts) + 1 /\ Len(alerts) \in Nat
      /\ DOMAIN alerts = 1..Len(alerts) /\ DOMAIN alerts' = 1..Len(alerts')
      /\ alerts'[Len(alerts')] = v /\ \A i \in 1..Len(alerts) : alerts'[i] = alerts[i]
  BY FraudTypes, AppendProperties
<1>2. \A i \in DOMAIN alerts' : i = Len(alerts') \/ i \in DOMAIN alerts
  BY <1>1
<1>3. BlocksStayAtHome'
  BY <1>1, <1>2 DEF FraudIInv, BlocksStayAtHome
<1> QED
  BY <1>1, <1>3 DEF AlertsGrow

LEMMA AlertChanged ==
  ASSUME FraudIInv, NEW i \in DOMAIN alerts, NEW v \in AlertRow, alerts' = [alerts EXCEPT ![i] = v],
         v.on = alerts[i].on, v.verdict = alerts[i].verdict, v.cause = alerts[i].cause,
         v.linked \/ v.status # "OPEN"
  PROVE  AlertsGrow /\ i \in DOMAIN alerts' /\ alerts'[i] = v
<1>1. alerts \in Seq(AlertRow) /\ i \in 1..Len(alerts)
  BY FraudTypes
<1>2. alerts' \in Seq(AlertRow) /\ DOMAIN alerts' = DOMAIN alerts
  BY <1>1, ExceptSeq
<1>3. alerts'[i] = v /\ \A j \in DOMAIN alerts : j # i => alerts'[j] = alerts[j]
  BY <1>1
<1>4. BlocksStayAtHome'
  BY <1>2, <1>3 DEF FraudIInv, BlocksStayAtHome
<1> QED
  BY <1>2, <1>3, <1>4 DEF AlertsGrow

(* The payments: those that are there stay, what was held was released, what *)
(* is held has its alert.                                                    *)
DealsMove(d, row) ==
    /\ deal' = [deal EXCEPT ![d] = row] /\ row \in DealRow /\ row.status # "none"
    /\ \A f \in Deals \ {d} : f \in freed => f \in freed'
    /\ freed' \subseteq Deals
    /\ row.wasHeld /\ (~row.held \/ row.credited) => d \in freed'
    /\ row.held => deal[d].held \/ \E i \in DOMAIN alerts' : Tells(alerts'[i], d)

LEMMA StillTells ==
  ASSUME FraudIInv, AlertsGrow, NEW d \in Deals, deal[d].held
  PROVE  \E i \in DOMAIN alerts' : Tells(alerts'[i], d)
<1>1. PICK i \in DOMAIN alerts : Tells(alerts[i], d)
  BY DEF FraudIInv, HeldHasAlert, Tells
<1> QED
  BY <1>1 DEF AlertsGrow, Tells

LEMMA DealsKeep ==
  ASSUME FraudIInv, AlertsGrow, NEW d \in Deals, NEW row, DealsMove(d, row)
  PROVE  /\ deal' \in [Deals -> DealRow] /\ NoneIsNew' /\ Released' /\ HeldHasAlert' /\ freed' \subseteq Deals
         /\ \A f \in Deals : deal[f] # NoDeal => deal'[f] # NoDeal
         /\ \A f \in Deals : f # d => deal'[f] = deal[f]
<1>1. deal' \in [Deals -> DealRow] /\ deal'[d] = row /\ \A f \in Deals : f # d => deal'[f] = deal[f]
  BY FraudTypes DEF DealsMove
<1>2. row.status # "none" /\ row # NoDeal
  BY DEF DealsMove, NoDeal
<1>3. NoneIsNew'
  BY <1>1, <1>2 DEF FraudIInv, NoneIsNew
<1>4. Released'
  BY <1>1 DEF FraudIInv, Released, WasReleased, DealsMove
<1>5. ASSUME NEW f \in Deals, deal'[f].held PROVE \E i \in DOMAIN alerts' : Tells(alerts'[i], f)
  <2>1. CASE deal[f].held
    BY <2>1, StillTells
  <2>2. CASE ~deal[f].held
    BY <1>1, <1>5, <2>2 DEF DealsMove
  <2> QED
    BY <2>1, <2>2
<1>6. HeldHasAlert'
  BY <1>5 DEF HeldHasAlert, Tells
<1>7. freed' \subseteq Deals
  BY DEF DealsMove
<1> QED
  BY <1>1, <1>2, <1>3, <1>4, <1>6, <1>7

LEMMA DealsStand ==
  ASSUME FraudIInv, AlertsGrow, UNCHANGED <<deal, freed>>
  PROVE  /\ deal' \in [Deals -> DealRow] /\ NoneIsNew' /\ Released' /\ HeldHasAlert' /\ freed' \subseteq Deals
         /\ \A f \in Deals : deal[f] # NoDeal => deal'[f] # NoDeal
<1>1. \A f \in Deals : deal'[f].held => \E i \in DOMAIN alerts' : Tells(alerts'[i], f)
  BY StillTells
<1>2. HeldHasAlert'
  BY <1>1 DEF HeldHasAlert, Tells
<1> QED
  BY <1>2, FraudTypes DEF FraudIInv, NoneIsNew, Released, WasReleased

(* The checkout under way, and the reviews.                                  *)
LEMMA CheckoutStands ==
  ASSUME FraudIInv, AlertsGrow, UNCHANGED assessed, \A d \in Deals : deal[d] = NoDeal => deal'[d] = deal[d]
  PROVE  Checkout'
<1>1. CASE assessed = <<>>
  BY <1>1 DEF Checkout
<1>2. CASE assessed # <<>>
  <2>1. PICK d \in Deals, verdict \in Verdicts, n \in Nat : CheckoutOf(d, verdict, n)
    BY <1>2 DEF FraudIInv, Checkout
  <2>2. CheckoutOf(d, verdict, n)'
    BY <2>1 DEF CheckoutOf, AlertsGrow
  <2> QED
    BY <2>2 DEF Checkout
<1> QED
  BY <1>1, <1>2

LEMMA ReviewsStand ==
  ASSUME FraudIInv, AlertsGrow, UNCHANGED reviewing, \A d \in Deals : deal[d] # NoDeal => deal'[d] # NoDeal
  PROVE  AllReview' /\ reviewing' \in [Analysts -> {NotReviewing} \cup Review]
<1>1. \A i \in DOMAIN alerts : alerts[i].on \in Deals
  BY FraudTypes DEF AlertRow
<1> QED
  BY <1>1, FraudTypes DEF FraudIInv, AllReview, Reviews, AlertsGrow

(* Every step keeps the lists in reach. *)
LEMMA FraudAll ==
  ASSUME FraudIInv, AlertsGrow, deal' \in [Deals -> DealRow], NoneIsNew', Released', HeldHasAlert', freed' \subseteq Deals,
         Checkout', AllReview', reviewing' \in [Analysts -> {NotReviewing} \cup Review],
         \A x \in listed' : x.scope \in Scopes
  PROVE  FraudIInv'
  BY DEF FraudIInv, FraudTyped, AlertsGrow

LEMMA ListedStand == ASSUME FraudIInv, UNCHANGED listed PROVE \A x \in listed' : x.scope \in Scopes
  BY DEF FraudIInv, FraudTyped

(* engine.assess: the entries that count are the platform's or the tenant's. *)
LEMMA AlertIs ==
  ASSUME FraudIInv, NEW d \in Deals, NEW linked \in BOOLEAN, NEW device \in BOOLEAN, NEW verdict \in Verdicts,
         NEW cause \in SUBSET {Platform, Tenant[d]}, alerts' = Alert(d, linked, device, verdict, cause)
  PROVE  /\ AlertsGrow /\ Len(alerts') \in DOMAIN alerts' /\ Len(alerts') \in Nat
         /\ alerts'[Len(alerts')].on = d /\ alerts'[Len(alerts')].verdict = verdict /\ alerts'[Len(alerts')].linked = linked
<1>1. PICK v : v = [on |-> d, linked |-> linked, device |-> device, verdict |-> verdict, cause |-> cause, status |-> "OPEN"]
  OBVIOUS
<1>2. cause \in SUBSET Scopes
  BY FraudTypes DEF Scopes
<1>3. v \in AlertRow /\ v.on = d /\ v.verdict = verdict /\ v.linked = linked /\ v.cause = cause
  BY <1>1, <1>2 DEF AlertRow
<1>4. alerts' = Append(alerts, v) /\ v.cause \subseteq {Platform, Tenant[v.on]}
  BY <1>1, <1>3 DEF Alert
<1> QED
  BY <1>3, <1>4, AlertAdded

LEMMA AssessesIs ==
  ASSUME FraudIInv, NEW d \in Deals, NEW linked \in BOOLEAN, NEW values, NEW verdict \in Verdicts,
         Assesses(d, linked, values, verdict)
  PROVE  /\ AlertsGrow /\ Len(alerts') \in Nat
         /\ verdict # "ALLOW" => /\ Len(alerts') \in DOMAIN alerts'
                                 /\ alerts'[Len(alerts')].on = d /\ alerts'[Len(alerts')].verdict = verdict
                                 /\ alerts'[Len(alerts')].linked = linked
<1>1. CASE verdict = "ALLOW"
  BY <1>1, AlertsStand, FraudTypes DEF Assesses
<1>2. CASE verdict # "ALLOW"
  <2>1. PICK cause : cause = {x.scope : x \in Listed(values, d)}
    OBVIOUS
  <2>2. cause \in SUBSET {Platform, Tenant[d]}
    BY <2>1 DEF Listed, EntriesFor
  <2>3. PICK device \in BOOLEAN : device = TRUE
    OBVIOUS
  <2>4. alerts' = Alert(d, linked, device, verdict, cause)
    BY <1>2, <2>1, <2>3 DEF Assesses
  <2> QED
    BY <1>2, <2>2, <2>4, AlertIs
<1> QED
  BY <1>1, <1>2

-----------------------------------------------------------------------------
(* Fraud: the steps.                                                         *)

LEMMA CheckoutAssessKeeps == ASSUME FraudIInv, NEW d \in Deals, CheckoutAssess(d) PROVE FraudIInv'
<1>1. PICK verdict \in Verdicts : /\ Assesses(d, FALSE, {Device[d], Email[d]}, verdict)
                                  /\ assessed' = <<d, verdict, Len(alerts')>>
  BY DEF CheckoutAssess
<1>2. deal[d] = NoDeal /\ UNCHANGED <<deal, listed, reviewing, freed>>
  BY DEF CheckoutAssess
<1>3. /\ AlertsGrow /\ Len(alerts') \in Nat
      /\ verdict # "ALLOW" => /\ Len(alerts') \in DOMAIN alerts'
                              /\ alerts'[Len(alerts')].on = d /\ alerts'[Len(alerts')].verdict = verdict
  <2>1. PICK no, values : no \in BOOLEAN /\ no = FALSE /\ values = {Device[d], Email[d]}
    OBVIOUS
  <2>2. Assesses(d, no, values, verdict)
    BY <1>1, <2>1
  <2>3. no \in BOOLEAN
    BY <2>1
  <2> QED
    BY <2>2, <2>3, AssessesIs
<1>4. PICK n \in Nat : n = Len(alerts')
  BY <1>3
<1>5. Checkout'
  <2>1. CheckoutOf(d, verdict, n)'
    BY <1>1, <1>2, <1>3, <1>4 DEF CheckoutOf
  <2> QED
    BY <2>1 DEF Checkout
<1> QED
  BY <1>2, <1>3, <1>5, DealsStand, ReviewsStand, ListedStand, FraudAll

LEMMA CheckoutSaveKeeps == ASSUME FraudIInv, CheckoutSave PROVE FraudIInv'
<1>1. PICK d \in Deals, verdict \in Verdicts, n \in Nat : CheckoutOf(d, verdict, n)
  BY DEF CheckoutSave, FraudIInv, Checkout
<1>2. assessed[1] = d /\ assessed[2] = verdict /\ assessed[3] = n
  BY <1>1 DEF CheckoutOf
<1>3. PICK held \in BOOLEAN : held = (verdict = "HOLD")
  OBVIOUS
<1>4. PICK row : row = [NoDeal EXCEPT !.status = "PENDING", !.held = held, !.wasHeld = held]
  OBVIOUS
<1>5. deal' = [deal EXCEPT ![d] = row] /\ assessed' = <<>> /\ UNCHANGED <<listed, attempts, reviewing, freed>>
  BY <1>1, <1>2, <1>3, <1>4 DEF CheckoutSave, CheckoutOf
<1>6. row \in DealRow /\ row.status = "PENDING" /\ row.held = held /\ row.wasHeld = held /\ ~row.credited
  BY <1>4 DEF NoDeal, DealRow
<1>7. AlertsGrow /\ (verdict # "ALLOW" => n \in DOMAIN alerts' /\ alerts'[n].on = d /\ alerts'[n].verdict = verdict /\ alerts'[n].linked)
  <2>1. CASE verdict = "ALLOW"
    <3>1. UNCHANGED alerts
      BY <1>2, <2>1 DEF CheckoutSave
    <3> QED
      BY <2>1, <3>1, AlertsStand
  <2>2. CASE verdict # "ALLOW"
    <3>1. n \in DOMAIN alerts /\ alerts[n].on = d /\ alerts[n].verdict = verdict
      BY <1>1, <2>2 DEF CheckoutOf
    <3>2. PICK v : v = [alerts[n] EXCEPT !.linked = TRUE]
      OBVIOUS
    <3>3. alerts[n] \in AlertRow
      BY <3>1, FraudTypes
    <3>4. v \in AlertRow /\ v.on = alerts[n].on /\ v.verdict = alerts[n].verdict /\ v.cause = alerts[n].cause /\ v.linked
      BY <3>2, <3>3 DEF AlertRow
    <3>5. alerts' = [alerts EXCEPT ![n] = v]
      BY <1>2, <2>2, <3>2 DEF CheckoutSave
    <3> QED
      BY <3>1, <3>4, <3>5, AlertChanged
  <2> QED
    BY <2>1, <2>2
<1>8. DealsMove(d, row)
  <2>1. row.held => \E i \in DOMAIN alerts' : Tells(alerts'[i], d)
    BY <1>3, <1>6, <1>7 DEF Tells
  <2> QED
    BY <1>3, <1>5, <1>6, <2>1, FraudTypes DEF DealsMove
<1>9. /\ deal' \in [Deals -> DealRow] /\ NoneIsNew' /\ Released' /\ HeldHasAlert' /\ freed' \subseteq Deals
      /\ \A f \in Deals : deal[f] # NoDeal => deal'[f] # NoDeal
  BY <1>7, <1>8, DealsKeep
<1>10. Checkout'
  BY <1>5 DEF Checkout
<1> QED
  BY <1>5, <1>7, <1>9, <1>10, ReviewsStand, ListedStand, FraudAll

LEMMA CheckoutStopsKeeps == ASSUME FraudIInv, CheckoutStops PROVE FraudIInv'
<1>1. assessed' = <<>> /\ UNCHANGED <<deal, alerts, listed, attempts, reviewing, freed>>
  BY DEF CheckoutStops
<1>2. AlertsGrow /\ Checkout'
  BY <1>1, AlertsStand DEF Checkout
<1> QED
  BY <1>1, <1>2, DealsStand, ReviewsStand, ListedStand, FraudAll

(* A payment that is there changes, whatever the cause. *)
LEMMA DealMovesKeeps ==
  ASSUME FraudIInv, AlertsGrow, NEW d \in Deals, deal[d] # NoDeal, NEW row, DealsMove(d, row),
         UNCHANGED <<listed, assessed, reviewing>>
  PROVE  FraudIInv'
<1>1. /\ deal' \in [Deals -> DealRow] /\ NoneIsNew' /\ Released' /\ HeldHasAlert' /\ freed' \subseteq Deals
      /\ (\A f \in Deals : deal[f] # NoDeal => deal'[f] # NoDeal) /\ (\A f \in Deals : f # d => deal'[f] = deal[f])
  BY DealsKeep
<1>2. Checkout'
  BY <1>1, CheckoutStands
<1> QED
  BY <1>1, <1>2, ReviewsStand, ListedStand, FraudAll

LEMMA SettlesKeeps == ASSUME FraudIInv, NEW d \in Deals, Settles(d) PROVE FraudIInv'
<1>1. PICK row : row = [deal[d] EXCEPT !.status = "SUCCESS"]
  OBVIOUS
<1>2. deal[d] \in DealRow /\ deal[d].status # "none" /\ deal[d] # NoDeal
  <2>1. deal[d] \in DealRow /\ deal[d].status # "none"
    BY FraudTypes DEF Settles
  <2> QED
    BY <2>1 DEF NoDeal
<1>3. /\ row \in DealRow /\ row.status = "SUCCESS" /\ row.held = deal[d].held /\ row.credited = deal[d].credited
      /\ row.wasHeld = deal[d].wasHeld
  BY <1>1, <1>2 DEF DealRow
<1>4. UNCHANGED <<listed, attempts, assessed, reviewing>>
  BY DEF Settles
<1>5. WasReleased(deal[d], d)
  BY DEF FraudIInv, Released
<1>6. PICK heldRow : heldRow = Hold(row)
  OBVIOUS
<1>7. /\ heldRow \in DealRow /\ heldRow.status = "SUCCESS" /\ heldRow.held /\ heldRow.credited = row.credited
      /\ heldRow.wasHeld = (row.wasHeld \/ ~row.credited)
  <2>1. PICK w \in BOOLEAN : w = (row.wasHeld \/ ~row.credited)
    OBVIOUS
  <2>2. heldRow = [row EXCEPT !.held = TRUE, !.wasHeld = w]
    BY <1>6, <2>1 DEF Hold
  <2>3. /\ heldRow \in DealRow /\ heldRow.status = "SUCCESS" /\ heldRow.held /\ heldRow.credited = row.credited
        /\ heldRow.wasHeld = w
    BY <1>3, <2>2 DEF DealRow
  <2> QED
    BY <2>1, <2>3
<1>8. CASE /\ alerts' = Alert(d, TRUE, FALSE, "HOLD", {})
           /\ deal' = [deal EXCEPT ![d] = heldRow]
           /\ freed' = IF row.credited THEN freed ELSE freed \ {d}
  <2>1. PICK yes, no, cause, verdict : yes = TRUE /\ no = FALSE /\ cause = {} /\ verdict = "HOLD"
    OBVIOUS
  <2>2. alerts' = Alert(d, yes, no, verdict, cause)
    BY <1>8, <2>1
  <2>6. yes \in BOOLEAN /\ no \in BOOLEAN /\ cause \in SUBSET {Platform, Tenant[d]} /\ verdict \in Verdicts
    BY <2>1 DEF Verdicts
  <2>3. /\ AlertsGrow /\ Len(alerts') \in DOMAIN alerts'
        /\ alerts'[Len(alerts')].on = d /\ alerts'[Len(alerts')].verdict = verdict /\ alerts'[Len(alerts')].linked = yes
    BY <2>2, <2>6, AlertIs
  <2>4. \E i \in DOMAIN alerts' : Tells(alerts'[i], d)
    BY <2>1, <2>3 DEF Tells
  <2>5. DealsMove(d, heldRow)
    BY <1>3, <1>5, <1>7, <1>8, <2>4, FraudTypes DEF DealsMove, WasReleased
  <2> QED
    BY <1>2, <1>4, <2>3, <2>5, DealMovesKeeps
<1>9. CASE /\ row.held \/ row.credited
           /\ deal' = [deal EXCEPT ![d] = row]
           /\ UNCHANGED <<alerts, freed>>
  <2>1. AlertsGrow
    BY <1>9, AlertsStand
  <2>2. DealsMove(d, row)
    BY <1>3, <1>5, <1>9, FraudTypes DEF DealsMove, WasReleased
  <2> QED
    BY <1>2, <1>4, <2>1, <2>2, DealMovesKeeps
<1>10. CASE /\ ~row.held /\ ~row.credited
            /\ \E verdict \in Verdicts :
                  /\ Assesses(d, TRUE, {Device[d], Email[d], Card[d]}, verdict)
                  /\ deal' = [deal EXCEPT ![d] = IF verdict = "HOLD" THEN heldRow ELSE [row EXCEPT !.credited = TRUE]]
                  /\ freed' = IF verdict = "HOLD" THEN freed \ {d} ELSE freed
  <2>1. PICK verdict \in Verdicts :
           /\ Assesses(d, TRUE, {Device[d], Email[d], Card[d]}, verdict)
           /\ deal' = [deal EXCEPT ![d] = IF verdict = "HOLD" THEN heldRow ELSE [row EXCEPT !.credited = TRUE]]
           /\ freed' = IF verdict = "HOLD" THEN freed \ {d} ELSE freed
    BY <1>10
  <2>2. PICK yes, values : yes \in BOOLEAN /\ yes = TRUE /\ values = {Device[d], Email[d], Card[d]}
    OBVIOUS
  <2>3. Assesses(d, yes, values, verdict)
    BY <2>1, <2>2
  <2>4. /\ AlertsGrow
        /\ verdict # "ALLOW" => /\ Len(alerts') \in DOMAIN alerts'
                                /\ alerts'[Len(alerts')].on = d /\ alerts'[Len(alerts')].verdict = verdict
                                /\ alerts'[Len(alerts')].linked = yes
    <3>1. yes \in BOOLEAN
      BY <2>2
    <3> QED
      BY <2>3, <3>1, AssessesIs
  <2>5. CASE verdict = "HOLD"
    <3>1. \E i \in DOMAIN alerts' : Tells(alerts'[i], d)
      BY <2>2, <2>4, <2>5 DEF Tells
    <3>2. DealsMove(d, heldRow)
      BY <1>7, <1>10, <2>1, <2>5, <3>1, FraudTypes DEF DealsMove
    <3> QED
      BY <1>2, <1>4, <2>4, <3>2, DealMovesKeeps
  <2>6. CASE verdict # "HOLD"
    <3>1. PICK paid : paid = [row EXCEPT !.credited = TRUE]
      OBVIOUS
    <3>2. paid \in DealRow /\ paid.status = "SUCCESS" /\ paid.held = row.held /\ paid.wasHeld = row.wasHeld
      BY <1>3, <3>1 DEF DealRow
    <3>3. row.wasHeld => d \in freed
      BY <1>3, <1>5, <1>10 DEF WasReleased
    <3>4. DealsMove(d, paid)
      BY <1>10, <2>1, <2>6, <3>1, <3>2, <3>3, FraudTypes DEF DealsMove
    <3> QED
      BY <1>2, <1>4, <2>4, <3>4, DealMovesKeeps
  <2> QED
    BY <2>5, <2>6
<1> QED
  BY <1>1, <1>6, <1>8, <1>9, <1>10 DEF Settles

LEMMA ChargesBackKeeps == ASSUME FraudIInv, NEW d \in Deals, ChargesBack(d) PROVE FraudIInv'
<1>1. PICK row : row = [deal[d] EXCEPT !.status = "DISPUTED"]
  OBVIOUS
<1>2. deal[d] \in DealRow /\ deal[d].status = "SUCCESS"
  BY FraudTypes DEF ChargesBack
<1>3. deal[d] # NoDeal
  BY <1>2 DEF NoDeal
<1>4. /\ row \in DealRow /\ row.status = "DISPUTED" /\ row.held = deal[d].held /\ row.credited = deal[d].credited
      /\ row.wasHeld = deal[d].wasHeld
  BY <1>1, <1>2 DEF DealRow
<1>5. PICK yes, no, cause, verdict : yes = TRUE /\ no = FALSE /\ cause = {} /\ verdict = "HOLD"
  OBVIOUS
<1>6. alerts' = Alert(d, yes, no, verdict, cause)
  BY <1>5 DEF ChargesBack
<1>7. yes \in BOOLEAN /\ no \in BOOLEAN /\ cause \in SUBSET {Platform, Tenant[d]} /\ verdict \in Verdicts
  BY <1>5 DEF Verdicts
<1>8. AlertsGrow
  BY <1>6, <1>7, AlertIs
<1>9. WasReleased(deal[d], d)
  BY DEF FraudIInv, Released
<1>10. DealsMove(d, row)
  BY <1>1, <1>4, <1>9, FraudTypes DEF DealsMove, WasReleased, ChargesBack
<1>11. UNCHANGED <<listed, assessed, reviewing>>
  BY DEF ChargesBack
<1> QED
  BY <1>3, <1>8, <1>10, <1>11, DealMovesKeeps

LEMMA ResolvesKeeps == ASSUME FraudIInv, NEW d \in Deals, Resolves(d) PROVE FraudIInv'
<1>1. PICK end \in {"SUCCESS", "REVERSED"} : deal' = [deal EXCEPT ![d].status = end]
  BY DEF Resolves
<1>2. PICK row : row = [deal[d] EXCEPT !.status = end]
  OBVIOUS
<1>3. deal[d] \in DealRow /\ deal[d].status = "DISPUTED"
  BY FraudTypes DEF Resolves
<1>4. deal[d] # NoDeal
  BY <1>3 DEF NoDeal
<1>5. /\ row \in DealRow /\ row.status # "none" /\ row.held = deal[d].held /\ row.credited = deal[d].credited
      /\ row.wasHeld = deal[d].wasHeld
  BY <1>2, <1>3 DEF DealRow
<1>6. UNCHANGED <<alerts, listed, assessed, reviewing, freed>>
  BY DEF Resolves
<1>7. WasReleased(deal[d], d)
  BY DEF FraudIInv, Released
<1>8. DealsMove(d, row)
  BY <1>1, <1>2, <1>5, <1>6, <1>7, FraudTypes DEF DealsMove, WasReleased
<1> QED
  BY <1>4, <1>6, <1>8, AlertsStand, DealMovesKeeps

LEMMA DealsStandKeeps ==
  ASSUME FraudIInv, UNCHANGED <<deal, alerts, assessed, freed, reviewing>>, \A x \in listed' : x.scope \in Scopes
  PROVE  FraudIInv'
<1>1. AlertsGrow
  BY AlertsStand
<1>2. Checkout'
  BY <1>1, CheckoutStands
<1> QED
  BY <1>1, <1>2, DealsStand, ReviewsStand, FraudAll

LEMMA LoadsAlertKeeps == ASSUME FraudIInv, NEW a \in Analysts, NEW i \in DOMAIN alerts, LoadsAlert(a, i) PROVE FraudIInv'
<1>1. UNCHANGED <<deal, alerts, listed, assessed, freed>>
  BY DEF LoadsAlert
<1>2. alerts[i] \in AlertRow /\ alerts[i].on \in Deals /\ alerts[i].linked \in BOOLEAN /\ i \in Nat
  BY FraudTypes DEF AlertRow
<1>3. PICK row : row = deal[alerts[i].on]
  OBVIOUS
<1>4. row \in DealRow /\ row.held \in BOOLEAN
  BY <1>2, <1>3, FraudTypes DEF DealRow
<1>5. PICK holds, paid : /\ holds \in BOOLEAN /\ paid \in BOOLEAN
                        /\ holds = (alerts[i].linked /\ row.held) /\ paid = (alerts[i].linked /\ row.status # "PENDING")
  BY <1>2, <1>4
<1>6. PICK r : r = [alert |-> i, linked |-> alerts[i].linked, holds |-> holds, paid |-> paid]
  OBVIOUS
<1>7. r \in Review /\ r.alert = i /\ r.holds = holds
  BY <1>2, <1>5, <1>6 DEF Review
<1>8. reviewing' = [reviewing EXCEPT ![a] = r]
  BY <1>3, <1>5, <1>6 DEF LoadsAlert
<1>9. /\ reviewing' \in [Analysts -> {NotReviewing} \cup Review] /\ reviewing'[a] = r
      /\ \A b \in Analysts : b # a => reviewing'[b] = reviewing[b]
  BY <1>7, <1>8, FraudTypes
<1>10. holds => deal[alerts[i].on] # NoDeal
  <2>1. ~NoDeal.held
    BY DEF NoDeal
  <2> QED
    BY <1>3, <1>5, <2>1
<1>11. AllReview'
  BY <1>1, <1>7, <1>9, <1>10 DEF FraudIInv, AllReview, Reviews
<1>12. AlertsGrow
  BY <1>1, AlertsStand
<1>13. Checkout'
  BY <1>1, <1>12, CheckoutStands
<1> QED
  BY <1>1, <1>9, <1>11, <1>12, <1>13, DealsStand, ListedStand, FraudAll

(* A review saves the alert it loaded, no longer open.                       *)
LEMMA ReviewSaved ==
  ASSUME FraudIInv, NEW a \in Analysts, NEW status \in {"DISMISSED", "CONFIRMED"}, SavesReview(a, status)
  PROVE  /\ AlertsGrow /\ reviewing' \in [Analysts -> {NotReviewing} \cup Review]
         /\ alerts[reviewing[a].alert].on \in Deals
         /\ reviewing[a].holds => deal[alerts[reviewing[a].alert].on] # NoDeal
         /\ (\A d \in Deals : deal[d] # NoDeal => deal'[d] # NoDeal) => AllReview'
<1>1. PICK r : r = reviewing[a]
  OBVIOUS
<1>2. r \in Review /\ r.linked \in BOOLEAN /\ r # NotReviewing
  BY <1>1, FraudTypes DEF SavesReview, Review
<1>3. r.alert \in DOMAIN alerts /\ (r.holds => deal[alerts[r.alert].on] # NoDeal)
  BY <1>1, <1>2 DEF FraudIInv, AllReview, Reviews
<1>4. PICK i \in DOMAIN alerts : i = r.alert
  BY <1>3
<1>5. alerts[i] \in AlertRow /\ alerts[i].on \in Deals
  BY FraudTypes DEF AlertRow
<1>6. PICK v : v = [alerts[i] EXCEPT !.status = status, !.linked = r.linked]
  OBVIOUS
<1>7. v \in AlertRow /\ v.on = alerts[i].on /\ v.verdict = alerts[i].verdict /\ v.cause = alerts[i].cause /\ v.status # "OPEN"
  BY <1>2, <1>5, <1>6 DEF AlertRow
<1>8. alerts' = [alerts EXCEPT ![i] = v]
  <2>1. alerts' = [alerts EXCEPT ![i].status = status, ![i].linked = r.linked]
    BY <1>1, <1>4 DEF SavesReview
  <2> QED
    BY <1>6, <2>1
<1>9. AlertsGrow
  BY <1>7, <1>8, AlertChanged
<1>10. /\ reviewing' \in [Analysts -> {NotReviewing} \cup Review] /\ reviewing'[a] = NotReviewing
       /\ \A b \in Analysts : b # a => reviewing'[b] = reviewing[b]
  BY FraudTypes DEF SavesReview
<1>11. \A j \in DOMAIN alerts : alerts[j].on \in Deals /\ j \in DOMAIN alerts' /\ alerts'[j].on = alerts[j].on
  BY <1>9, FraudTypes DEF AlertsGrow, AlertRow
<1>12. ASSUME \A d \in Deals : deal[d] # NoDeal => deal'[d] # NoDeal PROVE AllReview'
  BY <1>10, <1>11, <1>12 DEF FraudIInv, AllReview, Reviews
<1> QED
  BY <1>1, <1>3, <1>4, <1>5, <1>9, <1>10, <1>12

(* release_held_payment: what is credited or no longer held was released.    *)
LEMMA ReleaseMoves ==
  ASSUME FraudIInv, NEW d \in Deals, deal[d] # NoDeal, ReleaseDeal(d)
  PROVE  \E row : DealsMove(d, row)
<1>1. deal[d] \in DealRow /\ deal[d].status # "none"
  BY FraudTypes DEF FraudIInv, NoneIsNew
<1>2. PICK no, credited : /\ no \in BOOLEAN /\ credited \in BOOLEAN /\ no = FALSE
                          /\ credited = (deal[d].credited \/ deal[d].status = "SUCCESS")
  BY <1>1 DEF DealRow
<1>3. PICK row : row = [deal[d] EXCEPT !.held = no, !.credited = credited]
  OBVIOUS
<1>4. row \in DealRow /\ row.status = deal[d].status /\ row.held = no /\ row.credited = credited /\ row.wasHeld = deal[d].wasHeld
  BY <1>1, <1>2, <1>3 DEF DealRow
<1>5. deal' = [deal EXCEPT ![d] = row] /\ freed' = IF deal[d].held THEN freed \cup {d} ELSE freed
  <2>1. PICK new : new = [deal[d] EXCEPT !.held = FALSE, !.credited = @ \/ deal[d].status = "SUCCESS"]
    OBVIOUS
  <2>2. deal' = [deal EXCEPT ![d] = new]
    BY <2>1 DEF ReleaseDeal
  <2>3. new = [deal[d] EXCEPT !.held = no, !.credited = credited]
    BY <1>2, <2>1, Zenon
  <2> QED
    BY <1>3, <2>2, <2>3 DEF ReleaseDeal
<1>6. WasReleased(deal[d], d)
  BY DEF FraudIInv, Released
<1>7. row.wasHeld => d \in freed'
  BY <1>4, <1>5, <1>6 DEF WasReleased
<1>8. ~row.held
  BY <1>2, <1>4
<1>9. DealsMove(d, row)
  BY <1>1, <1>4, <1>5, <1>7, <1>8, FraudTypes DEF DealsMove
<1> QED
  BY <1>9

LEMMA DismissesKeeps == ASSUME FraudIInv, NEW a \in Analysts, Dismisses(a) PROVE FraudIInv'
<1>1. PICK status \in {"DISMISSED", "CONFIRMED"} : SavesReview(a, status)
  BY DEF Dismisses
<1>2. PICK d : d = alerts[reviewing[a].alert].on
  OBVIOUS
<1>3. /\ AlertsGrow /\ reviewing' \in [Analysts -> {NotReviewing} \cup Review] /\ d \in Deals
      /\ reviewing[a].holds => deal[d] # NoDeal
      /\ (\A f \in Deals : deal[f] # NoDeal => deal'[f] # NoDeal) => AllReview'
  BY <1>1, <1>2, ReviewSaved
<1>4. /\ deal' \in [Deals -> DealRow] /\ NoneIsNew' /\ Released' /\ HeldHasAlert' /\ freed' \subseteq Deals
      /\ \A f \in Deals : deal[f] # NoDeal => deal'[f] # NoDeal
      /\ \A f \in Deals : deal[f] = NoDeal => deal'[f] = deal[f]
  <2>1. CASE reviewing[a].holds
    <3>1. ReleaseDeal(d)
      BY <1>2, <2>1 DEF Dismisses
    <3>2. PICK row : DealsMove(d, row)
      BY <1>3, <2>1, <3>1, ReleaseMoves
    <3>3. /\ deal' \in [Deals -> DealRow] /\ NoneIsNew' /\ Released' /\ HeldHasAlert' /\ freed' \subseteq Deals
          /\ (\A f \in Deals : deal[f] # NoDeal => deal'[f] # NoDeal) /\ (\A f \in Deals : f # d => deal'[f] = deal[f])
      BY <1>3, <3>2, DealsKeep
    <3> QED
      BY <1>3, <2>1, <3>3
  <2>2. CASE ~reviewing[a].holds
    <3>1. UNCHANGED <<deal, freed>>
      BY <2>2 DEF Dismisses
    <3> QED
      BY <1>3, <3>1, DealsStand
  <2> QED
    BY <2>1, <2>2
<1>5. UNCHANGED <<listed, assessed>>
  BY DEF Dismisses
<1>6. Checkout'
  BY <1>3, <1>4, <1>5, CheckoutStands
<1> QED
  BY <1>3, <1>4, <1>5, <1>6, ListedStand, FraudAll

(* A confirmed alert takes back the release of what is held and unpaid-for.  *)
LEMMA ConfirmKeepsDeals ==
  ASSUME FraudIInv, AlertsGrow, NEW d \in Deals, UNCHANGED deal,
         freed' = IF deal[d].held /\ ~deal[d].credited THEN freed \ {d} ELSE freed
  PROVE  /\ deal' \in [Deals -> DealRow] /\ NoneIsNew' /\ Released' /\ HeldHasAlert' /\ freed' \subseteq Deals
<1>1. deal \in [Deals -> DealRow] /\ freed \subseteq Deals
  BY FraudTypes
<1>2. NoneIsNew'
  BY DEF FraudIInv, NoneIsNew
<1>3. ASSUME NEW f \in Deals PROVE WasReleased(deal[f], f)'
  <2>1. WasReleased(deal[f], f)
    BY DEF FraudIInv, Released
  <2>2. CASE f = d
    BY <2>1, <2>2 DEF WasReleased
  <2>3. CASE f # d
    BY <2>1, <2>3 DEF WasReleased
  <2> QED
    BY <2>2, <2>3
<1>4. Released'
  BY <1>3 DEF Released
<1>5. \A f \in Deals : deal'[f].held => \E i \in DOMAIN alerts' : Tells(alerts'[i], f)
  BY StillTells
<1>6. HeldHasAlert'
  BY <1>5 DEF HeldHasAlert, Tells
<1> QED
  BY <1>1, <1>2, <1>4, <1>6

LEMMA ConfirmsAlertKeeps == ASSUME FraudIInv, NEW a \in Analysts, ConfirmsAlert(a) PROVE FraudIInv'
<1>1. PICK status \in {"DISMISSED", "CONFIRMED"} : SavesReview(a, status)
  BY DEF ConfirmsAlert
<1>2. PICK d : d = alerts[reviewing[a].alert].on
  OBVIOUS
<1>3. /\ AlertsGrow /\ reviewing' \in [Analysts -> {NotReviewing} \cup Review] /\ d \in Deals
      /\ (\A f \in Deals : deal[f] # NoDeal => deal'[f] # NoDeal) => AllReview'
  BY <1>1, <1>2, ReviewSaved
<1>4. freed' = (IF deal[d].held /\ ~deal[d].credited THEN freed \ {d} ELSE freed) /\ UNCHANGED <<deal, attempts, assessed>>
  BY <1>2 DEF ConfirmsAlert
<1>5. /\ deal' \in [Deals -> DealRow] /\ NoneIsNew' /\ Released' /\ HeldHasAlert' /\ freed' \subseteq Deals
  BY <1>3, <1>4, ConfirmKeepsDeals
<1>6. Checkout'
  BY <1>3, <1>4, CheckoutStands
<1>7. \A x \in listed' : x.scope \in Scopes
  <2>1. \A x \in Blocks(a) : x.scope \in Scopes
    <3>1. Tenant[d] \in Scopes /\ Platform \in Scopes
      BY <1>3, FraudTypes DEF Scopes
    <3> QED
      BY <1>2, <3>1 DEF Blocks
  <2>2. listed' = listed \/ listed' = listed \cup Blocks(a)
    BY DEF ConfirmsAlert
  <2> QED
    BY <2>1, <2>2 DEF FraudIInv, FraudTyped
<1> QED
  BY <1>3, <1>4, <1>5, <1>6, <1>7, FraudAll

LEMMA ListsKeeps == ASSUME FraudIInv, NEW a \in Analysts, Lists(a) \/ Unlists(a) PROVE FraudIInv'
<1>1. \A x \in listed' : x.scope \in Scopes
  <2>1. \A s \in Reach(a) : s \in Scopes
    BY FraudAssumption DEF Reach, Scopes, FraudAssumption
  <2>2. \A x \in listed : x.scope \in Scopes
    BY DEF FraudIInv, FraudTyped
  <2>3. CASE Lists(a)
    <3>1. PICK v, s : v \in Values /\ s \in Reach(a) /\ listed' = listed \cup {[value |-> v, scope |-> s]}
      BY <2>3 DEF Lists
    <3>2. [value |-> v, scope |-> s].scope \in Scopes
      BY <2>1, <3>1
    <3> QED
      BY <2>2, <3>1, <3>2
  <2>4. CASE Unlists(a)
    BY <2>2, <2>4 DEF Unlists
  <2> QED
    BY <2>3, <2>4
<1>2. UNCHANGED <<deal, alerts, assessed, freed, reviewing>>
  BY DEF Lists, Unlists
<1> QED
  BY <1>1, <1>2, DealsStandKeeps

LEMMA ReleasesFromConsoleKeeps == ASSUME FraudIInv, NEW d \in Deals, ReleasesFromConsole(d) PROVE FraudIInv'
<1>1. deal[d] # NoDeal /\ ReleaseDeal(d) /\ UNCHANGED <<alerts, listed, assessed, reviewing>>
  BY DEF ReleasesFromConsole
<1>2. AlertsGrow /\ \E row : DealsMove(d, row)
  BY <1>1, AlertsStand, ReleaseMoves
<1> QED
  BY <1>1, <1>2, DealMovesKeeps

LEMMA NextWindowKeeps == ASSUME FraudIInv, NextWindow \/ UNCHANGED fraudVars PROVE FraudIInv'
<1>1. UNCHANGED <<deal, alerts, listed, assessed, freed, reviewing>>
  BY DEF NextWindow, fraudVars
<1> QED
  BY <1>1, ListedStand, DealsStandKeeps

-----------------------------------------------------------------------------
(* Fraud: the theorems.                                                      *)

LEMMA FraudStart == ASSUME FraudInit PROVE FraudIInv
<1>1. NoDeal \in DealRow /\ ~NoDeal.wasHeld /\ ~NoDeal.held
  BY DEF NoDeal, DealRow
<1>2. deal \in [Deals -> DealRow] /\ \A d \in Deals : deal[d] = NoDeal
  BY <1>1 DEF FraudInit
<1>3. alerts = <<>> /\ alerts \in Seq(AlertRow) /\ DOMAIN alerts = {}
  BY DEF FraudInit
<1>4. FraudTyped
  BY <1>2, <1>3 DEF FraudInit, FraudTyped
<1>5. NoneIsNew /\ Released /\ HeldHasAlert
  BY <1>1, <1>2 DEF NoneIsNew, Released, WasReleased, HeldHasAlert
<1>6. Checkout /\ AllReview
  BY DEF FraudInit, Checkout, AllReview, Reviews
<1>7. BlocksStayAtHome
  BY <1>3 DEF BlocksStayAtHome
<1> QED
  BY <1>4, <1>5, <1>6, <1>7 DEF FraudIInv

LEMMA FraudStep == ASSUME FraudIInv, [FraudNext]_fraudVars PROVE FraudIInv'
<1>1. CASE CheckoutSave \/ CheckoutStops \/ NextWindow \/ UNCHANGED fraudVars
  BY <1>1, CheckoutSaveKeeps, CheckoutStopsKeeps, NextWindowKeeps
<1>2. ASSUME NEW d \in Deals, CheckoutAssess(d) \/ Settles(d) \/ ChargesBack(d) \/ Resolves(d) \/ ReleasesFromConsole(d)
      PROVE  FraudIInv'
  BY <1>2, CheckoutAssessKeeps, SettlesKeeps, ChargesBackKeeps, ResolvesKeeps, ReleasesFromConsoleKeeps
<1>3. ASSUME NEW a \in Analysts, NEW i \in DOMAIN alerts, LoadsAlert(a, i) PROVE FraudIInv'
  BY <1>3, LoadsAlertKeeps
<1>4. ASSUME NEW a \in Analysts, Dismisses(a) \/ ConfirmsAlert(a) \/ Lists(a) \/ Unlists(a) PROVE FraudIInv'
  BY <1>4, DismissesKeeps, ConfirmsAlertKeeps, ListsKeeps
<1> QED
  BY <1>1, <1>2, <1>3, <1>4 DEF FraudNext

LEMMA FraudFollow == FraudIInv => FraudTypeOK /\ ReviewHolds
<1>1. ASSUME FraudIInv PROVE FraudTypeOK
  BY <1>1, FraudTypes DEF FraudTypeOK, FraudIInv, FraudTyped, Scopes, AlertRow
<1>2. ASSUME FraudIInv PROVE ReviewHolds
  BY <1>2 DEF FraudIInv, Released, WasReleased, HeldUntilReviewed, ReviewHolds
<1> QED
  BY <1>1, <1>2

(* FraudIInv holds of every state that checkouts, payments, chargebacks and  *)
(* reviews reach, however they interleave.                                   *)
THEOREM FraudInvariant == FraudSpec => []FraudIInv
  BY FraudStart, FraudStep, PTL DEF FraudSpec

(* The rows of payments, alerts and blocked values keep their types.         *)
THEOREM FraudTypeCorrect == FraudSpec => []FraudTypeOK
<1>1. FraudIInv => FraudTypeOK
  BY FraudFollow
<1> QED
  BY <1>1, FraudInvariant, PTL

(* apply_gateway_result, credit_votes, release_held_payment: votes of a      *)
(* payment that was held are credited only once it was released, a held      *)
(* payment has the alert that says so, and what one organization blocks      *)
(* counts against no other's payers.                                         *)
THEOREM HeldForReview == FraudSpec => []ReviewHolds
<1>1. FraudIInv => ReviewHolds
  BY FraudFollow
<1> QED
  BY <1>1, FraudInvariant, PTL

-----------------------------------------------------------------------------
(* SignIn: the inductive invariant.                                          *)

Resting == [op |-> "idle"]
Visit == {Resting} \cup [op : {"fail", "disable", "confirm"}, row : Security]
           \cup [op : {"recovery"}, row : Security, code : Codes]

SignInTyped == SignInTypeOK /\ work \in [Browsers -> Visit]

(* The entry in the cache outlives the time in which the code is accepted,   *)
(* and the challenge of a code by email stays used.                          *)
StepsUsed == \A s \in Steps : <<"totp", s>> \in spent => used[s] > s + 1
EmailsUsed == \A b \in Browsers : <<"email", b>> \in spent => otp[b].state = "used"

(* Requests that wait for each other: one is at work, the row it read is     *)
(* still the row, and the codes that opened a session are not on it.         *)
Waits(w, row) ==
    /\ \A b, c \in Browsers : w[b].op # "idle" /\ w[c].op # "idle" => b = c
    /\ \A b \in Browsers : w[b].op # "idle" => /\ w[b].row = row
                                               /\ w[b].op = "recovery" => w[b].code \in row.codes
CodesGone(gone, row) == \A c \in Codes : <<"recovery", c>> \in gone => c \notin row.codes

(* A failure is counted on the row when its request saves it.                *)
Bump(n) == IF n < MaxCount THEN n + 1 ELSE n
Counted(w, row, n) ==
    /\ (\A b \in Browsers : w[b].op # "fail") => n = row.failed
    /\ \A b \in Browsers : w[b].op = "fail" => n = Bump(row.failed)

KeepsLock(row) == row.failed >= MaxFailures => row.until >= row.last + LockTime

Serially == serial => /\ Waits(work, sec) /\ CodesGone(spent, sec)
                      /\ Counted(work, sec, failures) /\ KeepsLock(sec)

SignInIInv == SignInTyped /\ StepsUsed /\ EmailsUsed /\ Serially /\ OneTimeSecrets

-----------------------------------------------------------------------------
(* SignIn: the rows.                                                         *)

LEMMA SignInConstants ==
  /\ MaxFailures \in Nat \ {0} /\ LockTime \in Nat \ {0} /\ LockCap \in Nat \ {0} /\ MaxAttempts \in Nat \ {0}
  /\ PendingTtl \in Nat /\ OtpTtl \in Nat /\ MaxCount \in Nat /\ EndOfTime \in Nat \ {0} /\ LockTime <= LockCap
  /\ UsedTtl = 4
  BY SignInAssumption DEF SignInAssumption, UsedTtl

LEMMA SignInTypes ==
  ASSUME SignInIInv
  PROVE  /\ serial \in BOOLEAN /\ clock \in 1..EndOfTime /\ clock \in Nat
         /\ sec \in Security
         /\ used \in [Steps -> 0..(EndOfTime + UsedTtl)] /\ (\A s \in Steps : s \in Nat /\ used[s] \in Nat)
         /\ otp \in [Browsers -> Challenge] /\ web \in [Browsers -> Session]
         /\ work \in [Browsers -> Visit]
         /\ failures \in 0..MaxCount /\ failures \in Nat
         /\ spent \subseteq Secrets /\ again \subseteq spent
<1>1. SignInTypeOK /\ work \in [Browsers -> Visit]
  BY DEF SignInIInv, SignInTyped
<1>2. \A s \in Steps : s \in Nat /\ used[s] \in Nat
  BY <1>1, SignInConstants DEF SignInTypeOK, Steps
<1> QED
  BY <1>1, <1>2, SignInConstants DEF SignInTypeOK

LEMMA SecurityTypes ==
  ASSUME NEW row \in Security
  PROVE  /\ row.failed \in 0..MaxCount /\ row.failed \in Nat /\ row.last \in 0..EndOfTime /\ row.last \in Nat
         /\ row.until \in 0..(EndOfTime + LockCap) /\ row.until \in Nat /\ row.totp \in BOOLEAN /\ row.codes \in SUBSET Codes
  BY SignInConstants DEF Security

LEMMA VisitIs ==
  ASSUME NEW w \in Visit, w.op # "idle"
  PROVE  w.row \in Security /\ (w.op = "recovery" => w.code \in Codes)
  BY DEF Visit, Resting

LEMMA RestingIs == Resting \in Visit /\ Resting.op = "idle"
  BY DEF Visit, Resting

(* What is left to show of a step, part by part.                             *)
LEMMA SignInAll ==
  ASSUME SignInIInv, UNCHANGED serial, clock' \in 1..EndOfTime, sec' \in Security,
         used' \in [Steps -> 0..(EndOfTime + UsedTtl)], otp' \in [Browsers -> Challenge],
         web' \in [Browsers -> Session], work' \in [Browsers -> Visit], failures' \in 0..MaxCount,
         spent' \subseteq Secrets, again' \subseteq spent',
         StepsUsed', EmailsUsed', Serially', OneTimeSecrets'
  PROVE  SignInIInv'
  BY SignInTypes DEF SignInIInv, SignInTyped, SignInTypeOK

(* The cache keeps its entries longer, and a used challenge stays used.      *)
Longer == /\ used' \in [Steps -> 0..(EndOfTime + UsedTtl)]
          /\ \A s \in Steps : used'[s] \in Nat /\ used'[s] >= used[s]
StaysUsed == /\ otp' \in [Browsers -> Challenge]
             /\ \A b \in Browsers : otp[b].state = "used" => otp'[b].state = "used"

LEMMA NothingSpent ==
  ASSUME SignInIInv, Longer, StaysUsed, UNCHANGED <<serial, spent, again>>
  PROVE  StepsUsed' /\ EmailsUsed' /\ OneTimeSecrets' /\ spent' \subseteq Secrets /\ again' \subseteq spent'
<1>1. StepsUsed'
  BY SignInTypes DEF SignInIInv, StepsUsed, Longer
<1>2. EmailsUsed'
  BY DEF SignInIInv, EmailsUsed, StaysUsed
<1> QED
  BY <1>1, <1>2, SignInTypes DEF SignInIInv, OneTimeSecrets

LEMMA Unused == ASSUME SignInIInv PROVE (UNCHANGED used => Longer) /\ (UNCHANGED otp => StaysUsed)
  BY SignInTypes DEF Longer, StaysUsed

(* A code of the authenticator is entered in the cache.                      *)
LEMMA CodeEntered ==
  ASSUME SignInIInv, NEW s, s \in (clock - 1)..(clock + 1), used[s] <= clock, used' = [used EXCEPT ![s] = clock + UsedTtl]
  PROVE  s \in Steps /\ Longer /\ used'[s] > s + 1
<1>1. s \in Steps /\ s \in Nat
  BY SignInTypes, SignInConstants DEF Steps
<1>2. clock + UsedTtl \in 0..(EndOfTime + UsedTtl) /\ clock + UsedTtl \in Nat /\ clock + UsedTtl >= clock
  BY SignInTypes, SignInConstants
<1>3. PICK n \in 0..(EndOfTime + UsedTtl) : n = clock + UsedTtl
  BY <1>2
<1>4. used' \in [Steps -> 0..(EndOfTime + UsedTtl)] /\ used'[s] = n /\ \A z \in Steps : z # s => used'[z] = used[z]
  BY <1>1, <1>3, SignInTypes
<1>5. used'[s] > s + 1
  BY <1>1, <1>3, <1>4, SignInTypes, SignInConstants
<1>6. \A z \in Steps : used'[z] \in Nat /\ used'[z] >= used[z]
  BY <1>1, <1>2, <1>3, <1>4, SignInTypes
<1> QED
  BY <1>1, <1>4, <1>5, <1>6 DEF Longer

(* A secret opens its first session. *)
LEMMA TotpSpent ==
  ASSUME SignInIInv, NEW s \in Steps, Longer, used[s] <= s + 1, used'[s] > s + 1, UNCHANGED <<serial, otp>>,
         Spends(<<"totp", s>>)
  PROVE  StepsUsed' /\ EmailsUsed' /\ OneTimeSecrets' /\ spent' \subseteq Secrets /\ again' \subseteq spent'
<1>1. <<"totp", s>> \notin spent
  BY SignInTypes DEF SignInIInv, StepsUsed
<1>2. spent' = spent \cup {<<"totp", s>>} /\ again' = again
  BY <1>1 DEF Spends
<1>3. <<"totp", s>> \in Secrets
  BY DEF Secrets
<1>4. StepsUsed'
  BY <1>2, SignInTypes DEF SignInIInv, StepsUsed, Longer
<1>5. EmailsUsed'
  BY <1>2 DEF SignInIInv, EmailsUsed
<1> QED
  BY <1>2, <1>3, <1>4, <1>5, SignInTypes DEF SignInIInv, OneTimeSecrets

LEMMA EmailSpent ==
  ASSUME SignInIInv, NEW b \in Browsers, StaysUsed, otp[b].state = "live", otp'[b].state = "used", UNCHANGED <<serial, used>>,
         Spends(<<"email", b>>)
  PROVE  StepsUsed' /\ EmailsUsed' /\ OneTimeSecrets' /\ spent' \subseteq Secrets /\ again' \subseteq spent'
<1>1. <<"email", b>> \notin spent
  BY DEF SignInIInv, EmailsUsed
<1>2. spent' = spent \cup {<<"email", b>>} /\ again' = again
  BY <1>1 DEF Spends
<1>3. <<"email", b>> \in Secrets
  BY DEF Secrets
<1>4. StepsUsed'
  BY <1>2 DEF SignInIInv, StepsUsed
<1>5. EmailsUsed'
  BY <1>2 DEF SignInIInv, EmailsUsed, StaysUsed
<1> QED
  BY <1>2, <1>3, <1>4, <1>5, SignInTypes DEF SignInIInv, OneTimeSecrets

LEMMA RecoverySpent ==
  ASSUME SignInIInv, NEW c \in Codes, serial => <<"recovery", c>> \notin spent, UNCHANGED <<serial, used, otp>>,
         Spends(<<"recovery", c>>)
  PROVE  StepsUsed' /\ EmailsUsed' /\ OneTimeSecrets' /\ spent' \subseteq Secrets /\ again' \subseteq spent'
<1>1. spent' = spent \cup {<<"recovery", c>>} /\ again' = again \cup (spent \cap {<<"recovery", c>>})
  BY DEF Spends
<1>2. <<"recovery", c>> \in Secrets /\ <<"recovery", c>> \in {"recovery"} \X Codes
  BY DEF Secrets
<1>3. StepsUsed' /\ EmailsUsed'
  BY <1>1 DEF SignInIInv, StepsUsed, EmailsUsed
<1>4. OneTimeSecrets'
  BY <1>1, <1>2 DEF SignInIInv, OneTimeSecrets
<1> QED
  BY <1>1, <1>2, <1>3, <1>4, SignInTypes

-----------------------------------------------------------------------------
(* SignIn: kinds of steps.                                                   *)

(* Requests that change no row and count no failure.                         *)
LEMMA OthersKeep ==
  ASSUME SignInIInv, UNCHANGED <<serial, sec, used, work, failures, spent, again>>,
         clock' \in 1..EndOfTime, StaysUsed, web' \in [Browsers -> Session]
  PROVE  SignInIInv'
<1>1. StepsUsed' /\ EmailsUsed' /\ OneTimeSecrets' /\ spent' \subseteq Secrets /\ again' \subseteq spent' /\ Longer
  BY NothingSpent, Unused
<1>2. Serially'
  BY DEF SignInIInv, Serially
<1> QED
  BY <1>1, <1>2, SignInTypes, SignInAll DEF Longer, StaysUsed

(* A request reads the row, to save it later.                                *)
LEMMA ReadKeeps ==
  ASSUME SignInIInv, NEW b \in Browsers, Free(b), NEW v \in Visit, work' = [work EXCEPT ![b] = v],
         v.op # "idle", v.row = sec, v.op = "recovery" => v.code \in sec.codes,
         failures' = IF v.op = "fail" THEN Bump(failures) ELSE failures,
         Longer, StaysUsed, UNCHANGED <<serial, clock, sec, web, spent, again>>
  PROVE  SignInIInv'
<1>1. StepsUsed' /\ EmailsUsed' /\ OneTimeSecrets' /\ spent' \subseteq Secrets /\ again' \subseteq spent'
  BY NothingSpent
<1>2. work' \in [Browsers -> Visit] /\ work'[b] = v /\ \A c \in Browsers : c # b => work'[c] = work[c]
  BY SignInTypes
<1>3. failures' \in 0..MaxCount
  BY SignInTypes, SignInConstants DEF Bump
<1>4. ASSUME serial PROVE /\ Waits(work, sec)' /\ CodesGone(spent, sec)' /\ Counted(work, sec, failures)' /\ KeepsLock(sec)'
  <2>1. \A c \in Browsers : work[c].op = "idle"
    BY <1>4 DEF Free
  <2>2. CodesGone(spent, sec) /\ Counted(work, sec, failures) /\ KeepsLock(sec)
    BY <1>4 DEF SignInIInv, Serially
  <2>3. failures = sec.failed
    BY <2>1, <2>2 DEF Counted
  <2>4. Waits(work, sec)'
    BY <1>2, <2>1 DEF Waits
  <2>5. CodesGone(spent, sec)' /\ KeepsLock(sec)'
    BY <2>2 DEF CodesGone, KeepsLock
  <2>6. \A c \in Browsers : work'[c].op = "fail" => c = b
    BY <1>2, <2>1
  <2>7. Counted(work, sec, failures)'
    BY <1>2, <2>3, <2>6 DEF Counted, Bump
  <2> QED
    BY <2>4, <2>5, <2>7
<1>5. Serially'
  BY <1>4 DEF Serially
<1> QED
  BY <1>1, <1>2, <1>3, <1>5, SignInTypes, SignInAll DEF Longer, StaysUsed

(* Nobody is at work, or one who is done.                                    *)
Rested == serial => \A c \in Browsers : work'[c].op = "idle"

LEMMA DoneRests == ASSUME SignInIInv, NEW b \in Browsers, work[b].op # "idle", Done(b) PROVE Rested /\ work' \in [Browsers -> Visit]
<1>1. work' = [work EXCEPT ![b] = Resting]
  BY DEF Done, Resting
<1>2. work' \in [Browsers -> Visit] /\ work'[b].op = "idle" /\ \A c \in Browsers : c # b => work'[c] = work[c]
  BY <1>1, SignInTypes, RestingIs
<1> QED
  BY <1>2 DEF Rested, SignInIInv, Serially, Waits

LEMMA FreeRests == ASSUME SignInIInv, NEW b \in Browsers, Free(b), UNCHANGED work PROVE Rested /\ work' \in [Browsers -> Visit]
  BY SignInTypes DEF Rested, Free

(* A session is opened with the row, after what was spent.                   *)
LEMMA OpensKeeps ==
  ASSUME SignInIInv, NEW b \in Browsers, NEW row \in Security, Opens(b, row), Rested, work' \in [Browsers -> Visit],
         Longer, StaysUsed, UNCHANGED <<serial, clock>>,
         StepsUsed', EmailsUsed', OneTimeSecrets', spent' \subseteq Secrets, again' \subseteq spent',
         serial => \A c \in Codes : c \in row.codes => <<"recovery", c>> \notin spent'
  PROVE  SignInIInv'
<1>1. PICK open : open = [Anonymous EXCEPT !.stage = "in"]
  OBVIOUS
<1>2. open \in Session
  BY <1>1, SignInConstants DEF Anonymous, Session
<1>3. web' \in [Browsers -> Session]
  BY <1>1, <1>2, SignInTypes DEF Opens
<1>4. /\ sec' \in Security /\ sec'.failed = 0 /\ sec'.codes = row.codes
  <2>1. PICK new : new = [row EXCEPT !.failed = 0, !.until = 0]
    OBVIOUS
  <2>2. 0 \in 0..MaxCount /\ 0 \in 0..(EndOfTime + LockCap)
    BY SignInConstants
  <2>3. new \in Security /\ new.failed = 0 /\ new.codes = row.codes
    BY <2>1, <2>2 DEF Security
  <2> QED
    BY <2>1, <2>3 DEF Opens
<1>5. failures' = 0 /\ failures' \in 0..MaxCount
  BY SignInConstants DEF Opens
<1>6. Serially'
  BY <1>4, <1>5, SignInConstants DEF Serially, Rested, Waits, CodesGone, Counted, KeepsLock
<1> QED
  BY <1>3, <1>4, <1>5, <1>6, SignInTypes, SignInAll DEF Longer, StaysUsed

(* A request saves the row it read, changed; no failure is to be counted.    *)
LEMMA SaveKeeps ==
  ASSUME SignInIInv, NEW row \in Security, sec' = row, Rested, work' \in [Browsers -> Visit],
         serial => /\ row.failed = failures /\ KeepsLock(row) /\ CodesGone(spent, row),
         UNCHANGED <<serial, clock, used, otp, web, failures, spent, again>>
  PROVE  SignInIInv'
<1>1. StepsUsed' /\ EmailsUsed' /\ OneTimeSecrets' /\ spent' \subseteq Secrets /\ again' \subseteq spent' /\ Longer /\ StaysUsed
  BY NothingSpent, Unused
<1>2. Serially'
  BY DEF Serially, Rested, Waits, CodesGone, Counted, KeepsLock
<1> QED
  BY <1>1, <1>2, SignInTypes, SignInAll DEF Longer, StaysUsed

-----------------------------------------------------------------------------
(* SignIn: the steps.                                                        *)

LEMMA CountsIs == ASSUME SignInIInv, Counts PROVE failures' = Bump(failures)
  BY DEF Counts, Bump

(* A wrong password, a wrong factor or a wrong code reads the row.           *)
LEMMA FailsKeep ==
  ASSUME SignInIInv, NEW b \in Browsers, Free(b), Reads(b, "fail"), Counts, Longer, StaysUsed,
         UNCHANGED <<serial, clock, sec, web, spent, again>>
  PROVE  SignInIInv'
<1>1. PICK v : v = [op |-> "fail", row |-> sec]
  OBVIOUS
<1>2. v \in Visit /\ v.op = "fail" /\ v.row = sec
  BY <1>1, SignInTypes DEF Visit
<1>3. work' = [work EXCEPT ![b] = v]
  BY <1>1 DEF Reads
<1> QED
  BY <1>2, <1>3, CountsIs, ReadKeeps

LEMMA WrongKeeps == ASSUME SignInIInv, NEW b \in Browsers, PasswordWrong(b) \/ FactorWrong(b) PROVE SignInIInv'
<1>1. Free(b) /\ Reads(b, "fail") /\ Counts /\ UNCHANGED <<serial, clock, sec, used, otp, web, spent, again>>
  BY DEF PasswordWrong, FactorWrong, Pending, Same
<1> QED
  BY <1>1, Unused, FailsKeep

LEMMA EmailWrongKeeps == ASSUME SignInIInv, NEW b \in Browsers, EmailWrong(b) PROVE SignInIInv'
<1>1. /\ Free(b) /\ Reads(b, "fail") /\ Counts /\ UNCHANGED <<serial, clock, sec, used, web, spent, again>>
      /\ otp[b].attempts < MaxAttempts /\ otp' = [otp EXCEPT ![b].attempts = @ + 1]
  BY DEF EmailWrong, Tries, Pending, Same
<1>2. StaysUsed
  <2>1. otp[b] \in Challenge /\ otp[b].attempts + 1 \in 0..MaxAttempts
    <3>1. otp[b] \in Challenge /\ otp[b].attempts \in 0..MaxAttempts
      BY SignInTypes DEF Challenge
    <3> QED
      BY <1>1, <3>1, SignInConstants
  <2>2. PICK row : row = [otp[b] EXCEPT !.attempts = otp[b].attempts + 1]
    OBVIOUS
  <2>3. row \in Challenge /\ row.state = otp[b].state
    BY <2>1, <2>2 DEF Challenge
  <2>4. otp' = [otp EXCEPT ![b] = row]
    BY <1>1, <2>2
  <2> QED
    BY <2>3, <2>4, SignInTypes DEF StaysUsed
<1> QED
  BY <1>1, <1>2, Unused, FailsKeep

(* The password was enough: what is not spent stays so.                      *)
LEMMA PasswordEnoughKeeps == ASSUME SignInIInv, NEW b \in Browsers, PasswordEnough(b) PROVE SignInIInv'
<1>1. Free(b) /\ Opens(b, sec) /\ UNCHANGED <<serial, clock, used, otp, work, spent, again>>
  BY DEF PasswordEnough, Same
<1>2. Longer /\ StaysUsed
  BY <1>1, Unused
<1>3. StepsUsed' /\ EmailsUsed' /\ OneTimeSecrets' /\ spent' \subseteq Secrets /\ again' \subseteq spent'
  BY <1>1, <1>2, NothingSpent
<1>4. Rested /\ work' \in [Browsers -> Visit]
  BY <1>1, FreeRests
<1>5. serial => \A c \in Codes : c \in sec.codes => <<"recovery", c>> \notin spent'
  BY <1>1 DEF SignInIInv, Serially, CodesGone
<1> QED
  BY <1>1, <1>2, <1>3, <1>4, <1>5, SignInTypes, OpensKeeps

LEMMA SecondFactorIs ==
  ASSUME SignInIInv, NEW b \in Browsers, NEW methods \in SUBSET Methods, SecondFactor(b, methods)
  PROVE  web' \in [Browsers -> Session]
<1>1. PICK session : session = [stage |-> "pending", at |-> clock, methods |-> methods]
  OBVIOUS
<1>2. clock \in 0..EndOfTime
  BY SignInTypes, SignInConstants
<1>3. session \in Session
  BY <1>1, <1>2 DEF Session
<1> QED
  BY <1>1, <1>3, SignInTypes DEF SecondFactor

LEMMA PasswordThenFactorKeeps == ASSUME SignInIInv, NEW b \in Browsers, PasswordThenFactor(b) PROVE SignInIInv'
<1>1. SecondFactor(b, Enabled) /\ UNCHANGED <<serial, clock, sec, used, otp, work, failures, spent, again>>
  BY DEF PasswordThenFactor, Same
<1>2. Enabled \in SUBSET Methods
  BY DEF Enabled
<1>3. web' \in [Browsers -> Session]
  BY <1>1, <1>2, SecondFactorIs
<1> QED
  BY <1>1, <1>3, SignInTypes, Unused, OthersKeep

LEMMA PasswordThenEmailKeeps == ASSUME SignInIInv, NEW b \in Browsers, PasswordThenEmail(b) PROVE SignInIInv'
<1>1. /\ SecondFactor(b, {"email"}) /\ otp[b].state = "none"
      /\ otp' = [otp EXCEPT ![b] = [state |-> "live", attempts |-> 0, until |-> clock + OtpTtl]]
      /\ UNCHANGED <<serial, clock, sec, used, work, failures, spent, again>>
  BY DEF PasswordThenEmail, Same
<1>2. PICK methods : methods = {"email"}
  OBVIOUS
<1>3. methods \in SUBSET Methods
  BY <1>2 DEF Methods
<1>4. web' \in [Browsers -> Session]
  BY <1>1, <1>2, <1>3, SecondFactorIs
<1>5. StaysUsed
  <2>1. PICK row : row = [state |-> "live", attempts |-> 0, until |-> clock + OtpTtl]
    OBVIOUS
  <2>2. 0 \in 0..MaxAttempts /\ clock + OtpTtl \in 0..(EndOfTime + OtpTtl)
    BY SignInTypes, SignInConstants
  <2>3. row \in Challenge
    BY <2>1, <2>2 DEF Challenge
  <2> QED
    BY <1>1, <2>1, <2>3, SignInTypes DEF StaysUsed
<1> QED
  BY <1>1, <1>4, <1>5, SignInTypes, OthersKeep

(* verify_totp: cache.add admits the code of a step once.                    *)
LEMMA TotpKeeps == ASSUME SignInIInv, NEW b \in Browsers, NEW s \in Steps, Totp(b, s) PROVE SignInIInv'
<1>1. Free(b) /\ s \in (clock - 1)..(clock + 1) /\ UNCHANGED <<serial, clock, otp>>
  BY DEF Totp, Pending, Same
<1>2. StaysUsed
  BY <1>1, Unused
<1>3. CASE used[s] <= clock
  <2>1. used' = [used EXCEPT ![s] = clock + UsedTtl] /\ Opens(b, sec) /\ Spends(<<"totp", s>>) /\ UNCHANGED work
    BY <1>3 DEF Totp
  <2>2. Longer /\ used'[s] > s + 1
    BY <1>1, <1>3, <2>1, CodeEntered
  <2>3. used[s] <= s + 1
    BY <1>1, <1>3, SignInTypes
  <2>4. StepsUsed' /\ EmailsUsed' /\ OneTimeSecrets' /\ spent' \subseteq Secrets /\ again' \subseteq spent'
    BY <1>1, <2>1, <2>2, <2>3, TotpSpent
  <2>5. Rested /\ work' \in [Browsers -> Visit]
    BY <1>1, <2>1, FreeRests
  <2>6. serial => \A c \in Codes : c \in sec.codes => <<"recovery", c>> \notin spent'
    BY <2>1 DEF SignInIInv, Serially, CodesGone, Spends
  <2> QED
    BY <1>1, <1>2, <2>1, <2>2, <2>4, <2>5, <2>6, SignInTypes, OpensKeeps
<1>4. CASE ~(used[s] <= clock)
  <2>1. Reads(b, "fail") /\ Counts /\ UNCHANGED <<sec, used, web, spent, again>>
    BY <1>4 DEF Totp
  <2> QED
    BY <1>1, <1>2, <2>1, Unused, FailsKeep
<1> QED
  BY <1>3, <1>4

(* otp.verify, under the lock of the challenge: once, it is used.            *)
LEMMA EmailRightKeeps == ASSUME SignInIInv, NEW b \in Browsers, EmailRight(b) PROVE SignInIInv'
<1>1. /\ Free(b) /\ otp[b].state = "live" /\ otp[b].attempts < MaxAttempts
      /\ otp' = [otp EXCEPT ![b].state = "used", ![b].attempts = @ + 1]
      /\ Opens(b, sec) /\ Spends(<<"email", b>>)
      /\ UNCHANGED <<serial, clock, used, work>>
  BY DEF EmailRight, Tries, Pending, Same
<1>2. StaysUsed /\ otp'[b].state = "used"
  <2>1. otp[b] \in Challenge /\ otp[b].attempts + 1 \in 0..MaxAttempts
    <3>1. otp[b] \in Challenge /\ otp[b].attempts \in 0..MaxAttempts
      BY SignInTypes DEF Challenge
    <3> QED
      BY <1>1, <3>1, SignInConstants
  <2>2. PICK row : row = [otp[b] EXCEPT !.state = "used", !.attempts = otp[b].attempts + 1]
    OBVIOUS
  <2>3. row \in Challenge /\ row.state = "used"
    BY <2>1, <2>2 DEF Challenge
  <2>4. otp' = [otp EXCEPT ![b] = row]
    BY <1>1, <2>2
  <2> QED
    BY <2>3, <2>4, SignInTypes DEF StaysUsed
<1>3. Longer
  BY <1>1, Unused
<1>4. StepsUsed' /\ EmailsUsed' /\ OneTimeSecrets' /\ spent' \subseteq Secrets /\ again' \subseteq spent'
  BY <1>1, <1>2, EmailSpent
<1>5. Rested /\ work' \in [Browsers -> Visit]
  BY <1>1, FreeRests
<1>6. serial => \A c \in Codes : c \in sec.codes => <<"recovery", c>> \notin spent'
  BY <1>1 DEF SignInIInv, Serially, CodesGone, Spends
<1> QED
  BY <1>1, <1>2, <1>3, <1>4, <1>5, <1>6, SignInTypes, OpensKeeps

LEMMA ReadRecoveryKeeps == ASSUME SignInIInv, NEW b \in Browsers, NEW c \in Codes, ReadRecovery(b, c) PROVE SignInIInv'
<1>1. /\ Free(b) /\ c \in sec.codes /\ work' = [work EXCEPT ![b] = [op |-> "recovery", row |-> sec, code |-> c]]
      /\ UNCHANGED <<serial, clock, sec, used, otp, web, failures, spent, again>>
  BY DEF ReadRecovery, Pending, Same
<1>2. PICK v : v = [op |-> "recovery", row |-> sec, code |-> c]
  OBVIOUS
<1>3. v \in Visit /\ v.op = "recovery" /\ v.row = sec /\ v.code = c
  BY <1>2, SignInTypes DEF Visit
<1> QED
  BY <1>1, <1>2, <1>3, Unused, ReadKeeps

(* use_recovery_code: the codes that are left do not have the one it spends. *)
LEMMA SaveRecoveryKeeps == ASSUME SignInIInv, NEW b \in Browsers, SaveRecovery(b) PROVE SignInIInv'
<1>1. /\ work[b].op = "recovery" /\ Opens(b, [sec EXCEPT !.codes = CodesLeft(b)]) /\ Done(b)
      /\ Spends(<<"recovery", work[b].code>>) /\ UNCHANGED <<serial, clock, used, otp>>
  BY DEF SaveRecovery, Same
<1>2. work[b] \in Visit /\ work[b].row \in Security /\ work[b].code \in Codes
  BY <1>1, SignInTypes, VisitIs
<1>3. PICK row : row = [sec EXCEPT !.codes = CodesLeft(b)]
  OBVIOUS
<1>4. row \in Security /\ row.codes = CodesLeft(b) /\ Opens(b, row)
  BY <1>1, <1>2, <1>3, SignInTypes DEF Security, CodesLeft
<1>5. serial => work[b].row = sec /\ work[b].code \in sec.codes /\ CodesGone(spent, sec)
  BY <1>1 DEF SignInIInv, Serially, Waits
<1>6. serial => <<"recovery", work[b].code>> \notin spent
  BY <1>2, <1>5 DEF CodesGone
<1>7. StepsUsed' /\ EmailsUsed' /\ OneTimeSecrets' /\ spent' \subseteq Secrets /\ again' \subseteq spent'
  BY <1>1, <1>2, <1>6, RecoverySpent
<1>8. Rested /\ work' \in [Browsers -> Visit]
  BY <1>1, DoneRests
<1>9. serial => \A c \in Codes : c \in row.codes => <<"recovery", c>> \notin spent'
  BY <1>1, <1>4, <1>5 DEF CodesGone, CodesLeft, Spends
<1> QED
  BY <1>1, <1>4, <1>7, <1>8, <1>9, Unused, OpensKeeps

(* totp_confirm enters the code it accepted, as a sign-in does.              *)
LEMMA ReadFactorKeeps == ASSUME SignInIInv, NEW b \in Browsers, ReadFactor(b) PROVE SignInIInv'
<1>1. Free(b) /\ UNCHANGED <<serial, clock, sec, otp, web, failures, spent, again>>
  BY DEF ReadFactor, In, Same
<1>2. PICK op \in {"disable", "confirm"} : Reads(b, op) /\ Longer
  <2>1. CASE sec.totp
    BY <2>1, Unused DEF ReadFactor
  <2>2. CASE ~sec.totp
    <3>1. PICK s \in (clock - 1)..(clock + 1) : /\ used[s] <= clock /\ used' = [used EXCEPT ![s] = clock + UsedTtl]
                                                /\ Reads(b, "confirm")
      BY <2>2 DEF ReadFactor
    <3>2. Longer
      BY <3>1, CodeEntered
    <3> QED
      BY <3>1, <3>2
  <2> QED
    BY <2>1, <2>2
<1>3. PICK v : v = [op |-> op, row |-> sec]
  OBVIOUS
<1>4. v \in Visit /\ v.op = op /\ v.row = sec
  BY <1>3, SignInTypes DEF Visit
<1>5. work' = [work EXCEPT ![b] = v]
  BY <1>2, <1>3 DEF Reads
<1> QED
  BY <1>1, <1>2, <1>4, <1>5, Unused, ReadKeeps

(* What a request that is no failure read is the row still.                  *)
LEMMA ReadRow ==
  ASSUME SignInIInv, NEW b \in Browsers, work[b].op \in {"disable", "confirm"}, Done(b)
  PROVE  /\ Rested /\ work' \in [Browsers -> Visit] /\ work[b].row \in Security
         /\ serial => work[b].row = sec /\ sec.failed = failures /\ KeepsLock(sec) /\ CodesGone(spent, sec)
<1>1. Rested /\ work' \in [Browsers -> Visit] /\ work[b].row \in Security
  BY DoneRests, SignInTypes, VisitIs
<1>2. ASSUME serial PROVE work[b].row = sec /\ sec.failed = failures /\ KeepsLock(sec) /\ CodesGone(spent, sec)
  <2>1. Waits(work, sec) /\ Counted(work, sec, failures) /\ KeepsLock(sec) /\ CodesGone(spent, sec)
    BY <1>2 DEF SignInIInv, Serially
  <2>2. work[b].row = sec /\ \A c \in Browsers : work[c].op # "fail"
    BY <2>1 DEF Waits
  <2> QED
    BY <2>1, <2>2 DEF Counted
<1> QED
  BY <1>1, <1>2

LEMMA DisableTotpKeeps == ASSUME SignInIInv, NEW b \in Browsers, DisableTotp(b) PROVE SignInIInv'
<1>1. /\ work[b].op = "disable" /\ Done(b) /\ sec' = [work[b].row EXCEPT !.totp = FALSE]
      /\ UNCHANGED <<serial, clock, used, otp, web, failures, spent, again>>
  BY DEF DisableTotp, Same
<1>2. /\ Rested /\ work' \in [Browsers -> Visit] /\ work[b].row \in Security
      /\ serial => work[b].row = sec /\ sec.failed = failures /\ KeepsLock(sec) /\ CodesGone(spent, sec)
  BY <1>1, ReadRow
<1>3. PICK no \in BOOLEAN : no = FALSE
  OBVIOUS
<1>4. PICK row : row = [work[b].row EXCEPT !.totp = no]
  OBVIOUS
<1>5. /\ row \in Security /\ row.failed = work[b].row.failed /\ row.last = work[b].row.last
      /\ row.until = work[b].row.until /\ row.codes = work[b].row.codes
  BY <1>2, <1>4 DEF Security
<1>6. sec' = row
  BY <1>1, <1>3, <1>4
<1>7. serial => /\ row.failed = failures /\ KeepsLock(row) /\ CodesGone(spent, row)
  BY <1>2, <1>5 DEF KeepsLock, CodesGone
<1> QED
  BY <1>1, <1>2, <1>5, <1>6, <1>7, SaveKeeps

LEMMA ConfirmTotpKeeps == ASSUME SignInIInv, NEW b \in Browsers, ConfirmTotp(b) PROVE SignInIInv'
<1>1. /\ work[b].op = "confirm" /\ Done(b) /\ UNCHANGED <<serial, clock, used, otp, web, failures, spent, again>>
  BY DEF ConfirmTotp, Same
<1>2. PICK codes \in SUBSET Codes : Fresh(codes) /\ sec' = [work[b].row EXCEPT !.totp = TRUE, !.codes = codes]
  BY DEF ConfirmTotp
<1>3. /\ Rested /\ work' \in [Browsers -> Visit] /\ work[b].row \in Security
      /\ serial => work[b].row = sec /\ sec.failed = failures /\ KeepsLock(sec) /\ CodesGone(spent, sec)
  BY <1>1, ReadRow
<1>4. PICK yes \in BOOLEAN : yes = TRUE
  OBVIOUS
<1>5. PICK row : row = [work[b].row EXCEPT !.totp = yes, !.codes = codes]
  OBVIOUS
<1>6. /\ row \in Security /\ row.failed = work[b].row.failed /\ row.last = work[b].row.last
      /\ row.until = work[b].row.until /\ row.codes = codes
  BY <1>2, <1>3, <1>5 DEF Security
<1>7. sec' = row
  BY <1>2, <1>4, <1>5
<1>8. serial => /\ row.failed = failures /\ KeepsLock(row) /\ CodesGone(spent, row)
  BY <1>2, <1>3, <1>6 DEF KeepsLock, CodesGone, Fresh
<1> QED
  BY <1>1, <1>3, <1>6, <1>7, <1>8, SaveKeeps

LEMMA RegenerateKeeps == ASSUME SignInIInv, NEW b \in Browsers, Regenerate(b) PROVE SignInIInv'
<1>1. Free(b) /\ UNCHANGED <<serial, clock, used, otp, web, work, failures, spent, again>>
  BY DEF Regenerate, In, Same
<1>2. PICK codes \in SUBSET Codes : Fresh(codes) /\ sec' = [sec EXCEPT !.codes = codes]
  BY DEF Regenerate
<1>3. Rested /\ work' \in [Browsers -> Visit]
  BY <1>1, FreeRests
<1>4. PICK row : row = [sec EXCEPT !.codes = codes]
  OBVIOUS
<1>5. /\ row \in Security /\ row.failed = sec.failed /\ row.last = sec.last /\ row.until = sec.until /\ row.codes = codes
  BY <1>2, <1>4, SignInTypes DEF Security
<1>6. serial => sec.failed = failures /\ KeepsLock(sec)
  BY <1>1, <1>3 DEF SignInIInv, Serially, Counted, Rested
<1>7. serial => /\ row.failed = failures /\ KeepsLock(row) /\ CodesGone(spent, row)
  BY <1>2, <1>5, <1>6 DEF KeepsLock, CodesGone, Fresh
<1> QED
  BY <1>1, <1>2, <1>3, <1>4, <1>5, <1>7, SaveKeeps

LEMMA SessionsKeep == ASSUME SignInIInv, NEW b \in Browsers, RevokeOthers(b) \/ Leave(b) PROVE SignInIInv'
<1>1. UNCHANGED <<serial, clock, sec, used, otp, work, failures, spent, again>>
  BY DEF RevokeOthers, Leave, Same
<1>2. web' \in [Browsers -> Session]
  <2>1. CASE RevokeOthers(b)
    <3>1. \A c \in Browsers : [web[c] EXCEPT !.stage = "revoked"] \in Session
      BY SignInTypes DEF Session
    <3> QED
      BY <2>1, <3>1, SignInTypes DEF RevokeOthers
  <2>2. CASE Leave(b)
    <3>1. Anonymous \in Session
      BY SignInConstants DEF Anonymous, Session
    <3> QED
      BY <2>2, <3>1, SignInTypes DEF Leave
  <2> QED
    BY <2>1, <2>2
<1> QED
  BY <1>1, <1>2, SignInTypes, Unused, OthersKeep

LEMMA TimeKeeps == ASSUME SignInIInv, TimePasses \/ UNCHANGED signInVars PROVE SignInIInv'
<1>1. UNCHANGED <<serial, sec, used, otp, web, work, failures, spent, again>> /\ clock' \in 1..EndOfTime
  BY SignInTypes, SignInConstants DEF TimePasses, signInVars
<1> QED
  BY <1>1, SignInTypes, Unused, OthersKeep

(* register_failure: from MaxFailures on, locked for LockTime or longer.     *)
LEMMA Rounds ==
  ASSUME NEW n \in Nat, NEW m \in Nat \ {0}
  PROVE  n \div m \in Nat /\ n \div m <= n /\ (n >= m => n \div m >= 1)
<1>1. PICK q, r \in Int : q = n \div m /\ r = n % m
  OBVIOUS
<1>2. n = m * q + r /\ 0 <= r /\ r < m
  BY <1>1
<1>3. q >= 0
  BY <1>2
<1>4. q <= n
  BY <1>2, <1>3
<1>5. n >= m => q >= 1
  BY <1>2
<1> QED
  BY <1>1, <1>3, <1>4, <1>5

LEMMA LockedLong ==
  ASSUME SignInIInv, NEW row \in Security
  PROVE  /\ LockedUntil(row) \in 0..(EndOfTime + LockCap)
         /\ row.failed + 1 >= MaxFailures => LockedUntil(row) >= clock + LockTime
<1>1. PICK rounds \in Nat : rounds = (row.failed + 1) \div MaxFailures
  BY SecurityTypes, SignInConstants, Rounds
<1>2. rounds <= row.failed + 1 /\ (row.failed + 1 >= MaxFailures => rounds # 0)
  BY <1>1, SecurityTypes, SignInConstants, Rounds
<1>3. CASE rounds = 0
  <2>1. LockedUntil(row) = row.until
    BY <1>1, <1>3 DEF LockedUntil
  <2> QED
    BY <1>2, <1>3, <2>1, SecurityTypes
<1>4. CASE rounds # 0
  <2>1. rounds - 1 \in 0..MaxCount
    BY <1>2, <1>4, SecurityTypes, SignInConstants
  <2>2. PICK p \in Nat \ {0} : p = 2^(rounds - 1)
    BY <2>1, PowersOfTwo
  <2>3. PICK wait \in Nat : wait = LockTime * p
    BY SignInConstants
  <2>4. wait >= LockTime
    BY <2>2, <2>3, SignInConstants
  <2>5. LockedUntil(row) = clock + (IF wait < LockCap THEN wait ELSE LockCap)
    BY <1>1, <1>4, <2>2, <2>3 DEF LockedUntil
  <2> QED
    BY <2>4, <2>5, SignInTypes, SignInConstants
<1> QED
  BY <1>3, <1>4

LEMMA SaveFailureKeeps == ASSUME SignInIInv, NEW b \in Browsers, SaveFailure(b) PROVE SignInIInv'
<1>1. work[b].op = "fail" /\ Done(b) /\ UNCHANGED <<serial, clock, used, otp, web, failures, spent, again>>
  BY DEF SaveFailure, Same
<1>2. Rested /\ work' \in [Browsers -> Visit] /\ work[b].row \in Security
  BY <1>1, DoneRests, SignInTypes, VisitIs
<1>3. PICK old \in Security : old = work[b].row
  BY <1>2
<1>4. PICK until \in 0..(EndOfTime + LockCap) : until = LockedUntil(old)
  BY LockedLong
<1>5. PICK row : row = [old EXCEPT !.failed = Bump(old.failed), !.last = clock, !.until = until]
  OBVIOUS
<1>6. sec' = row
  BY <1>3, <1>4, <1>5 DEF SaveFailure, Bump
<1>7. Bump(old.failed) \in 0..MaxCount /\ clock \in 0..EndOfTime
  BY SecurityTypes, SignInTypes, SignInConstants DEF Bump
<1>8. row \in Security /\ row.failed = Bump(old.failed) /\ row.last = clock /\ row.until = until /\ row.codes = old.codes
  BY <1>5, <1>7 DEF Security
<1>9. ASSUME serial PROVE row.failed = failures /\ KeepsLock(row) /\ CodesGone(spent, row)
  <2>1. old = sec /\ failures = Bump(sec.failed) /\ CodesGone(spent, sec)
    BY <1>1, <1>3, <1>9 DEF SignInIInv, Serially, Waits, Counted
  <2>2. Bump(old.failed) >= MaxFailures => old.failed + 1 >= MaxFailures
    BY SecurityTypes, SignInConstants DEF Bump
  <2>3. KeepsLock(row)
    BY <1>4, <1>8, <2>2, LockedLong DEF KeepsLock
  <2> QED
    BY <1>8, <2>1, <2>3 DEF CodesGone
<1> QED
  BY <1>1, <1>2, <1>6, <1>8, <1>9, SaveKeeps

-----------------------------------------------------------------------------
(* SignIn: the theorems.                                                     *)

LEMMA SignInStart == ASSUME SignInInit PROVE SignInIInv
<1>1. PICK m \in FirstMethods : sec = [failed |-> 0, last |-> 0, until |-> 0, totp |-> "totp" \in m,
                                       codes |-> IF "recovery" \in m THEN Codes ELSE {}]
  BY DEF SignInInit
<1>2. 0 \in 0..MaxCount /\ 0 \in 0..EndOfTime /\ 0 \in 0..(EndOfTime + LockCap) /\ 0 \in 0..(EndOfTime + UsedTtl)
      /\ 0 \in 0..MaxAttempts /\ 0 \in 0..(EndOfTime + OtpTtl)
  BY SignInConstants
<1>3. PICK yes, codes : yes = ("totp" \in m) /\ codes = IF "recovery" \in m THEN Codes ELSE {}
  OBVIOUS
<1>12. yes \in BOOLEAN /\ codes \in SUBSET Codes
  BY <1>3
<1>4. sec = [failed |-> 0, last |-> 0, until |-> 0, totp |-> yes, codes |-> codes]
  BY <1>1, <1>3
<1>5. sec \in Security /\ sec.failed = 0
  BY <1>2, <1>4, <1>12 DEF Security
<1>6. Anonymous \in Session /\ [state |-> "none", attempts |-> 0, until |-> 0] \in Challenge
  BY <1>2 DEF Anonymous, Session, Challenge
<1>7. work = [b \in Browsers |-> Resting]
  BY DEF SignInInit, Resting
<1>8. SignInTypeOK
  <2>1. clock \in 1..EndOfTime /\ DOMAIN work = Browsers
    BY <1>7, SignInConstants DEF SignInInit
  <2>2. used \in [Steps -> 0..(EndOfTime + UsedTtl)] /\ otp \in [Browsers -> Challenge] /\ web \in [Browsers -> Session]
    BY <1>2, <1>6 DEF SignInInit
  <2> QED
    BY <1>2, <1>5, <2>1, <2>2 DEF SignInInit, SignInTypeOK
<1>9. SignInTyped
  BY <1>7, <1>8, RestingIs DEF SignInTyped
<1>10. StepsUsed /\ EmailsUsed /\ OneTimeSecrets
  BY DEF SignInInit, StepsUsed, EmailsUsed, OneTimeSecrets
<1>11. Serially
  BY <1>5, <1>7, RestingIs, SignInConstants DEF SignInInit, Serially, Waits, CodesGone, Counted, KeepsLock
<1> QED
  BY <1>9, <1>10, <1>11 DEF SignInIInv

LEMMA SignInStep == ASSUME SignInIInv, [SignInNext]_signInVars PROVE SignInIInv'
<1>1. CASE TimePasses \/ UNCHANGED signInVars
  BY <1>1, TimeKeeps
<1>2. ASSUME NEW b \in Browsers, Step(b) PROVE SignInIInv'
  <2>1. CASE PasswordWrong(b) \/ FactorWrong(b) \/ EmailWrong(b) \/ SaveFailure(b)
    BY <2>1, WrongKeeps, EmailWrongKeeps, SaveFailureKeeps
  <2>2. CASE PasswordEnough(b) \/ PasswordThenFactor(b) \/ PasswordThenEmail(b) \/ EmailRight(b)
    BY <2>2, PasswordEnoughKeeps, PasswordThenFactorKeeps, PasswordThenEmailKeeps, EmailRightKeeps
  <2>3. CASE \E s \in Steps : Totp(b, s)
    BY <2>3, TotpKeeps
  <2>4. CASE (\E c \in Codes : ReadRecovery(b, c)) \/ SaveRecovery(b)
    BY <2>4, ReadRecoveryKeeps, SaveRecoveryKeeps
  <2>5. CASE ReadFactor(b) \/ DisableTotp(b) \/ ConfirmTotp(b) \/ Regenerate(b) \/ RevokeOthers(b) \/ Leave(b)
    BY <2>5, ReadFactorKeeps, DisableTotpKeeps, ConfirmTotpKeeps, RegenerateKeeps, SessionsKeep
  <2> QED
    BY <1>2, <2>1, <2>2, <2>3, <2>4, <2>5 DEF Step
<1> QED
  BY <1>1, <1>2 DEF SignInNext

LEMMA SignInFollow == SignInIInv => SignInTypeOK /\ SignInHolds
<1>1. ASSUME SignInIInv, serial, failures >= MaxFailures, \A b \in Browsers : work[b].op = "idle"
      PROVE  sec.until >= sec.last + LockTime
  BY <1>1 DEF SignInIInv, Serially, Counted, KeepsLock
<1>2. SignInIInv => LockIsKept
  BY <1>1 DEF LockIsKept
<1>3. SignInIInv => SignInTypeOK
  <2>1. ASSUME SignInIInv PROVE DOMAIN work = Browsers
    BY <2>1, SignInTypes
  <2> QED
    BY <2>1 DEF SignInIInv, SignInTyped
<1> QED
  BY <1>2, <1>3 DEF SignInIInv, SignInHolds

(* SignInIInv holds of every state that the requests of an account reach.    *)
THEOREM SignInInvariant == SignInSpec => []SignInIInv
  BY SignInStart, SignInStep, PTL DEF SignInSpec

(* The security row, the cache, the challenges and the sessions keep their   *)
(* types. *)
THEOREM SignInTypeCorrect == SignInSpec => []SignInTypeOK
<1>1. SignInIInv => SignInTypeOK
  BY SignInFollow
<1> QED
  BY <1>1, SignInInvariant, PTL

(* verify_totp, otp.verify: a code opens one session however requests        *)
(* overlap; use_recovery_code, register_failure: so does a recovery code,    *)
(* and no failure is lost, while they do not.                                *)
THEOREM SecretsOnce == SignInSpec => []SignInHolds
<1>1. SignInIInv => SignInHolds
  BY SignInFollow
<1> QED
  BY <1>1, SignInInvariant, PTL
=============================================================================
