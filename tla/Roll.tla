--------------------------------- MODULE Roll ---------------------------------
(***************************************************************************)
(* The voter roll of an institutional election: who gets on it (imports,   *)
(* access codes, self-registration), what is written to whom, and the      *)
(* organization's tree of units it refers to. What a cast and a change of  *)
(* status do to one voter's authorizations is module Casting.              *)
(*                                                                         *)
(* Grain of atomicity.  An import loads the roll and writes whole rows     *)
(* back, a registration looks for the person and inserts later, a round of *)
(* invitations works off the rows it loaded. "queued" tells whether        *)
(* handlers wait for each other; both are checked.                         *)
(***************************************************************************)
EXTENDS Naturals, FiniteSets, SequencesExt

CONSTANTS
    Clerks,       \* handlers in progress
    Ids, Mails,   \* voter IDs, e-mail addresses
    Units,        \* primary keys of constituencies, each with a code of its own
    NameOf,       \* unit -> the unit whose code is its name, or None
    None,         \* NULL
    Files,        \* uploads: whether a header is known, and the rows
    Institution,  \* the addresses of the domain that may register
    PlanLimit,    \* max_voters_per_election
    MaxPersons, MaxIssued, MaxSteps   \* bounds

Persons == 1..MaxPersons
FileRow == [id : Ids \cup {None}, email : Mails \cup {None}, unit : Units \cup {None}]

ASSUME RollAssumption ==
    /\ Units \subseteq Nat /\ None \notin Units \cup Ids \cup Mails
    /\ NameOf \in [Units -> Units \cup {None}]
    /\ IsFiniteSet(Units) /\ Institution \subseteq Mails
    /\ Files \subseteq [header : BOOLEAN, rows : Seq(FileRow)]
    /\ PlanLimit \in Nat /\ MaxPersons \in Nat /\ MaxIssued \in Nat /\ MaxSteps \in Nat

VARIABLES
    queued,  \* handlers do not overlap
    poll,    \* the election: are codes used, may voters register, is the roll editable
    tree,    \* unit -> parent and path, or NoUnit
    bound,   \* the unit a position is restricted to, and the unit of a rule
    people,  \* person -> row, or NoPerson
    issued,  \* codes issued so far: each is a new number
    dead,    \* a code was mailed that did not open the ballot (not in the code)
    voted,   \* who voted (not in the code)
    clerk,   \* handler -> what it does next
    steps    \* how many operations there were

rollVars == <<queued, poll, tree, bound, people, issued, dead, voted, clerk, steps>>

NoUnit == [parent |-> None, path |-> <<>>]
NoPerson == [id |-> None, email |-> None, unit |-> None, status |-> "", code |-> 0]
VoterStates == {"ELIGIBLE", "VERIFIED", "VOTED", "SUSPENDED", "INELIGIBLE"}
Free == [op |-> "none"]

Known == {u \in Units : tree[u] # NoUnit}
Enrolled == {p \in Persons : people[p] # NoPerson}
Vacant(rows) == {p \in Persons : rows[p] = NoPerson}
First(set) == CHOOSE p \in set : \A q \in set : p <= q

Alone == queued => \A h \in Clerks : clerk[h] = Free
Counted == steps' = steps + 1
UnitsOnly == UNCHANGED <<queued, poll, people, issued, dead, voted, clerk>>
RollOnly == UNCHANGED <<queued, poll, tree, bound, clerk>>

-----------------------------------------------------------------------------
(* Units. *)

Path(u) == tree[u].path
Within(u, v) == IsPrefix(Path(v), Path(u))

(* Constituency.save: a new path is handed down to every row under the old.  *)
PathUnder(parent, u) == Append(IF parent = None THEN <<>> ELSE Path(parent), u)

HandedDown(u, path) ==
    [w \in Units |->
        IF w \in Known /\ Within(w, u)
        THEN [tree[w] EXCEPT !.path = path \o SubSeq(@, Len(Path(u)) + 1, Len(@))]
        ELSE tree[w]]

AddUnit(u, parent) ==
    /\ Alone /\ Counted /\ u \notin Known /\ parent \in Known \cup {None}
    /\ tree' = [tree EXCEPT ![u] = [parent |-> parent, path |-> PathUnder(parent, u)]]
    /\ UnitsOnly /\ UNCHANGED bound

(* Through the admin site; a unit is not put under itself.                   *)
MoveUnit(u, parent) ==
    /\ Alone /\ Counted /\ u \in Known /\ parent \in Known \cup {None}
    /\ parent # None => ~Within(parent, u)
    /\ tree' = [HandedDown(u, PathUnder(parent, u)) EXCEPT ![u].parent = parent]
    /\ UnitsOnly /\ UNCHANGED bound

Below(u) == {w \in Known : Within(w, u)}
InUse(u) == bound.position = u \/ \E p \in Enrolled : people[p].unit = u

(* Only the unit itself is asked for; the units below go with it, rules too, *)
(* and whoever referred to them refers to none.                              *)
DeleteUnit(u) ==
    /\ Alone /\ Counted /\ u \in Known /\ ~InUse(u)
    /\ LET gone == Below(u)
           Unless(v) == IF v \in gone THEN None ELSE v
       IN /\ tree' = [w \in Units |-> IF w \in gone THEN NoUnit ELSE tree[w]]
          /\ bound' = [position |-> Unless(bound.position), rule |-> Unless(bound.rule)]
          /\ people' = [p \in Persons |-> [people[p] EXCEPT !.unit = Unless(@)]]
    /\ UNCHANGED <<queued, poll, issued, dead, voted, clerk>>

(* A position for one unit, a rule about one unit, or none.                  *)
RestrictTo(what, u) ==
    /\ Alone /\ Counted /\ u \in Known \cup {None}
    /\ bound' = [bound EXCEPT ![what] = u]
    /\ UnitsOnly /\ UNCHANGED tree

(* ballot_style: the restriction and the rule of a position.                 *)
MayAnswer(p) ==
    /\ people[p].status \notin {"SUSPENDED", "INELIGIBLE"}
    /\ \A u \in {bound.position, bound.rule} \ {None} : people[p].unit # None /\ Within(people[p].unit, u)

-----------------------------------------------------------------------------
(* Imports. *)

(* parse_upload: without a known column in the first row there is no header, *)
(* and of each row the first two cells are ID and address.                   *)
Uploaded(file) ==
    IF file.header THEN file.rows
    ELSE [i \in DOMAIN file.rows |-> [file.rows[i] EXCEPT !.unit = None]]

(* _constituency_lookup: by code or name; in the order of the paths, the     *)
(* last one counts.                                                          *)
Before(u, v) ==
    \/ Path(u) # Path(v) /\ IsPrefix(Path(u), Path(v))
    \/ \E i \in DOMAIN Path(u) \cap DOMAIN Path(v) :
          /\ Path(u)[i] < Path(v)[i]
          /\ \A j \in 1..(i - 1) : Path(u)[j] = Path(v)[j]
Lookup(label) ==
    LET hits == {u \in Known : u = label \/ NameOf[u] = label}
    IN IF hits = {} THEN None ELSE CHOOSE u \in hits : \A v \in hits \ {u} : Before(v, u)

WithinPlan(more) == Cardinality(Enrolled) + more <= PlanLimit

ImportLoad(h, file) ==
    /\ clerk[h] = Free /\ Alone /\ Counted
    /\ poll.editable /\ WithinPlan(Len(file.rows))
    /\ clerk' = [clerk EXCEPT ![h] = [op |-> "import", rows |-> Uploaded(file),
          units |-> [u \in Units |-> Lookup(u)],
          seen |-> [p \in {q \in Enrolled : people[q].id # None} |-> people[p]]]]
    /\ UNCHANGED <<queued, poll, tree, bound, people, issued, dead, voted>>

(* A row without ID and address, or with a unit nobody knows, is an error.   *)
Erroneous(row, units) ==
    (row.id = None /\ row.email = None) \/ (row.unit # None /\ units[row.unit] = None)

Given(row, units, old) ==
    [old EXCEPT !.email = IF row.email = None THEN @ ELSE row.email,
                !.unit = IF row.unit = None THEN @ ELSE units[row.unit]]

(* The voter with that ID as it was loaded; by address only without an ID.   *)
SamePerson(row, made) ==
    IF row.id # None THEN {p \in DOMAIN made.seen : made.seen[p].id = row.id}
    ELSE {p \in Persons : made.people[p] # NoPerson /\ made.people[p].email = row.email}

(* One row: skipped, saved over the row loaded, or inserted (unless the ID   *)
(* was taken meanwhile). "issued" numbers the codes.                         *)
ImportRow(row, units, made) ==
    LET same == SamePerson(row, made)
        p == First(same)
        old == IF row.id # None THEN made.seen[p] ELSE made.people[p]
        n == First(Vacant(made.people))
        new == Given(row, units, [id |-> row.id, email |-> None, unit |-> None, status |-> "ELIGIBLE",
                                  code |-> IF poll.codes THEN made.issued + 1 ELSE 0])
    IN CASE Erroneous(row, units) -> made
         [] ~Erroneous(row, units) /\ same # {} ->
              IF old.status = "VOTED" THEN made
              ELSE [made EXCEPT !.people[p] = Given(row, units, old),
                                !.seen = [q \in DOMAIN @ |-> IF q = p THEN Given(row, units, old) ELSE @[q]]]
         [] OTHER ->
              IF Vacant(made.people) = {} \/ \E q \in Persons : row.id # None /\ made.people[q].id = row.id
              THEN made
              ELSE [people |-> [made.people EXCEPT ![n] = new],
                    issued |-> IF poll.codes THEN made.issued + 1 ELSE made.issued,
                    seen |-> IF row.id = None THEN made.seen
                             ELSE [q \in DOMAIN made.seen \cup {n} |-> IF q = n THEN new ELSE made.seen[q]]]

(* The loop of import_voters in one transaction, which a unit deleted        *)
(* meanwhile undoes.                                                         *)
Imported(rows, units, start) ==
    LET after[i \in 0..Len(rows)] == IF i = 0 THEN start ELSE ImportRow(rows[i], units, after[i - 1])
    IN after[Len(rows)]

ImportStore(h) ==
    /\ clerk[h].op = "import"
    /\ LET made == Imported(clerk[h].rows, clerk[h].units,
                            [people |-> people, issued |-> issued, seen |-> clerk[h].seen])
       IN IF {made.people[p].unit : p \in Persons} \subseteq Known \cup {None}
          THEN people' = made.people /\ issued' = made.issued
          ELSE UNCHANGED <<people, issued>>
    /\ clerk' = [clerk EXCEPT ![h] = Free]
    /\ UNCHANGED <<queued, poll, tree, bound, dead, voted, steps>>

-----------------------------------------------------------------------------
(* Others who get on the roll, and who leave it. *)

Insert(row, coded) ==
    /\ Vacant(people) # {}
    /\ people' = [people EXCEPT ![First(Vacant(people))] =
                   [row EXCEPT !.code = IF coded THEN issued + 1 ELSE 0]]
    /\ issued' = IF coded THEN issued + 1 ELSE issued

(* generate_anonymous_codes: a code and nobody's name.                       *)
GenerateCode ==
    /\ Alone /\ Counted /\ poll.editable /\ WithinPlan(1)
    /\ Insert([NoPerson EXCEPT !.status = "ELIGIBLE"], TRUE)
    /\ RollOnly /\ UNCHANGED <<dead, voted>>

(* Mutant of Registered: the roll is searched for the ID only.                *)
RegisteredId(id, email) == \E p \in Enrolled : id # None /\ people[p].id = id

Registered(id, email) == \E p \in Enrolled : people[p].email = email \/ (id # None /\ people[p].id = id)

(* self_register: from the registration page, or (without an ID) on sign-on. *)
RegisterCheck(h, id, email) ==
    /\ clerk[h] = Free /\ Alone /\ Counted
    /\ poll.register /\ poll.editable /\ email \in Institution
    /\ ~Registered(id, email) /\ WithinPlan(1)
    /\ clerk' = [clerk EXCEPT ![h] = [op |-> "register", id |-> id, email |-> email]]
    /\ UNCHANGED <<queued, poll, tree, bound, people, issued, dead, voted>>

(* The database refuses a second row with the ID, not one with the address.  *)
RegisterSave(h) ==
    /\ clerk[h].op = "register"
    /\ IF \E p \in Enrolled : clerk[h].id # None /\ people[p].id = clerk[h].id
       THEN UNCHANGED <<people, issued>>
       ELSE Insert([NoPerson EXCEPT !.id = clerk[h].id, !.email = clerk[h].email, !.status = "VERIFIED"], poll.codes)
    /\ clerk' = [clerk EXCEPT ![h] = Free]
    /\ UNCHANGED <<queued, poll, tree, bound, dead, voted, steps>>

RemoveVoter(p) ==
    /\ Alone /\ Counted /\ poll.editable /\ p \in Enrolled /\ people[p].status # "VOTED"
    /\ people' = [people EXCEPT ![p] = NoPerson]
    /\ RollOnly /\ UNCHANGED <<issued, dead, voted>>

(* clear_unvoted.                                                            *)
Clear ==
    /\ Alone /\ Counted /\ poll.editable
    /\ people' = [p \in Persons |-> IF people[p].status = "VOTED" THEN people[p] ELSE NoPerson]
    /\ RollOnly /\ UNCHANGED <<issued, dead, voted>>

(* freeze, unfreeze, and the opening of the election.                        *)
FreezeRoll ==
    /\ Alone /\ Counted
    /\ poll' = [poll EXCEPT !.editable = ~@]
    /\ UNCHANGED <<queued, tree, bound, people, issued, dead, voted, clerk>>

SetStatus(p, status) ==
    /\ Alone /\ Counted /\ p \in Enrolled /\ people[p].status # "VOTED"
    /\ people' = [people EXCEPT ![p].status = status]
    /\ RollOnly /\ UNCHANGED <<issued, dead, voted>>

-----------------------------------------------------------------------------
(* Codes and letters. *)

NewCode(p) == people' = [people EXCEPT ![p].code = issued + 1] /\ issued' = issued + 1

(* reset_credential, whose letter carries the new code.                      *)
Reset(p) ==
    /\ Alone /\ Counted /\ p \in Enrolled /\ people[p].status # "VOTED"
    /\ NewCode(p)
    /\ RollOnly /\ UNCHANGED <<dead, voted>>

(* resend_credential_public: to the address on the roll, if there is one.      *)
Resend(p) ==
    /\ Alone /\ Counted /\ p \in Enrolled /\ people[p].id # None
    /\ people[p].status \in {"ELIGIBLE", "VERIFIED"} /\ people[p].email # None /\ poll.codes
    /\ NewCode(p)
    /\ RollOnly /\ UNCHANGED <<dead, voted>>

(* reset_all_unused_credentials: new codes for all who had one; no letters.   *)
ResetAll ==
    /\ Alone /\ Counted
    /\ LET holders == {p \in Enrolled : people[p].status # "VOTED" /\ people[p].code # 0}
           Nth(p) == issued + Cardinality({q \in holders : q <= p})
       IN /\ people' = [p \in Persons |-> IF p \in holders THEN [people[p] EXCEPT !.code = Nth(p)] ELSE people[p]]
          /\ issued' = issued + Cardinality(holders)
    /\ RollOnly /\ UNCHANGED <<dead, voted>>

(* send_invitations: the rows are loaded first, then one letter each.        *)
InviteLoad(h, some) ==
    /\ clerk[h] = Free /\ Alone /\ Counted /\ some # {}
    /\ clerk' = [clerk EXCEPT ![h] = [op |-> "invite", left |-> [p \in some |-> people[p]]]]
    /\ UNCHANGED <<queued, poll, tree, bound, people, issued, dead, voted>>

(* The code in a letter, if there is one, is that of its reader.             *)
Fits(letter, row) == letter.code # 0 => letter.code = row.code

InviteNext(h) ==
    /\ clerk[h].op = "invite"
    /\ LET left == clerk[h].left
           p == First(DOMAIN left)
           rest == DOMAIN left \ {p}
       IN /\ dead' = (dead \/ (left[p].email # None /\ ~Fits(left[p], people[p])))
          /\ clerk' = [clerk EXCEPT ![h] = IF rest = {} THEN Free
                                           ELSE [@ EXCEPT !.left = [q \in rest |-> left[q]]]]
    /\ UNCHANGED <<queued, poll, tree, bound, people, issued, voted, steps>>

(* A cast wipes the readable code.                                           *)
Cast(p) ==
    /\ Alone /\ Counted /\ p \in Enrolled /\ people[p].status \in {"ELIGIBLE", "VERIFIED"} /\ MayAnswer(p)
    /\ people' = [people EXCEPT ![p].status = "VOTED", ![p].code = 0]
    /\ voted' = voted \cup {p}
    /\ RollOnly /\ UNCHANGED <<issued, dead>>

-----------------------------------------------------------------------------

RollInit ==
    /\ queued \in BOOLEAN
    /\ poll \in [codes : BOOLEAN, register : BOOLEAN, editable : {TRUE}]
    /\ tree = [u \in Units |-> NoUnit]
    /\ bound = [position |-> None, rule |-> None]
    /\ people = [p \in Persons |-> NoPerson]
    /\ issued = 0 /\ dead = FALSE /\ voted = {} /\ steps = 0
    /\ clerk = [h \in Clerks |-> Free]

Waiting == {p \in Enrolled : people[p].status # "VOTED"}

RollNext ==
    \/ \E u \in Units : DeleteUnit(u)
    \/ \E u \in Units, v \in Units \cup {None} : AddUnit(u, v) \/ MoveUnit(u, v)
    \/ \E u \in Units \cup {None} : RestrictTo("position", u) \/ RestrictTo("rule", u)
    \/ \E h \in Clerks :
          \/ \E file \in Files : ImportLoad(h, file)
          \/ \E id \in Ids \cup {None}, email \in Mails : RegisterCheck(h, id, email)
          \/ InviteLoad(h, Waiting)
          \/ \E p \in Enrolled : InviteLoad(h, {p})
          \/ ImportStore(h) \/ RegisterSave(h) \/ InviteNext(h)
    \/ GenerateCode \/ Clear \/ FreezeRoll \/ ResetAll
    \/ \E p \in Persons :
          \/ RemoveVoter(p) \/ Reset(p) \/ Resend(p) \/ Cast(p)
          \/ \E status \in VoterStates \ {"VOTED"} : SetStatus(p, status)

RollSpec == RollInit /\ [][RollNext]_rollVars

-----------------------------------------------------------------------------
(* Correctness. *)

UnitRow == [parent : Units \cup {None}, path : Seq(Units)]
PersonRow == [id : Ids \cup {None}, email : Mails \cup {None}, unit : Units \cup {None},
              status : VoterStates, code : Nat]
Loaded == UNION {[some -> PersonRow] : some \in SUBSET Persons}
Work == {Free} \cup [op : {"invite"}, left : Loaded]
               \cup [op : {"register"}, id : Ids \cup {None}, email : Mails]
               \cup [op : {"import"}, rows : Seq(FileRow), units : [Units -> Units \cup {None}], seen : Loaded]
RollTypeOK ==
    /\ queued \in BOOLEAN /\ dead \in BOOLEAN
    /\ poll \in [codes : BOOLEAN, register : BOOLEAN, editable : BOOLEAN]
    /\ tree \in [Units -> UnitRow]
    /\ bound \in [position : Units \cup {None}, rule : Units \cup {None}]
    /\ people \in [Persons -> {NoPerson} \cup PersonRow]
    /\ issued \in Nat /\ steps \in Nat /\ voted \subseteq Persons
    /\ clerk \in [Clerks -> Work]

(* The units a unit belongs to by its parents: what every set has that holds *)
(* the unit and the parent of whatever it holds.                             *)
Chain(u) ==
    {v \in Known : \A S \in SUBSET Known :
        u \in S /\ (\A w \in S : tree[w].parent \in S \cup {None}) => v \in S}

(* Constituency.is_within: the path, which eligibility goes by, says what    *)
(* the parents say, after units were moved and deleted.                      *)
PathsFollowParents ==
    /\ \A u \in Known : tree[u].parent \in Known \cup {None}
    /\ \A u, v \in Known : Within(u, v) <=> v \in Chain(u)
    /\ {bound.position, bound.rule} \cup {people[p].unit : p \in Enrolled} \subseteq Known \cup {None}

(* import_voters, self_register: whoever is known by an address alone is on  *)
(* the roll once, with one code and one ballot.                              *)
OncePerAddress ==
    \A p, q \in Enrolled :
        people[p].email # None /\ people[p].email = people[q].email
        /\ people[p].id = None /\ people[q].id = None => p = q

(* turnout(): no unit and no election has more votes than voters, and the    *)
(* units add up to the whole.                                                *)
InUnit(u) == {p \in Enrolled : people[p].unit = u}
VotedIn(set) == {p \in set : people[p].status = "VOTED"}
Turnout ==
    [eligible |-> Cardinality({p \in Enrolled : people[p].status \notin {"SUSPENDED", "INELIGIBLE"}}),
     voted |-> Cardinality(VotedIn(Enrolled)),
     units |-> [u \in Units \cup {None} |-> Cardinality(VotedIn(InUnit(u)))]]
TurnoutAddsUp ==
    /\ Turnout.voted <= Turnout.eligible
    /\ Turnout.voted = FoldFunction(LAMBDA a, b : a + b, 0, Turnout.units)
    /\ voted = VotedIn(Enrolled)

(* Of the tree always; of the roll when handlers do not overlap: the plan    *)
(* is kept, everybody who voted stays so, and no letter carries a code that  *)
(* was dead when it was written.                                             *)
RollHolds ==
    /\ PathsFollowParents
    /\ queued => OncePerAddress /\ TurnoutAddsUp /\ ~dead /\ Cardinality(Enrolled) <= PlanLimit
=============================================================================
