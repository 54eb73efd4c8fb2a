----------------------------- MODULE Nominations -----------------------------
(***************************************************************************)
(* The ballot paper and the people on it: positions with their rules,      *)
(* candidates with status and position, the candidates' portal with its    *)
(* invitations, and what must not be lost on the way: the structure that   *)
(* was signed, a disqualification, a vote that was given.                  *)
(*                                                                         *)
(* Grain of atomicity.  A handler loads the election and the row it is     *)
(* about, judges them, and saves the whole row later.  "oneByOne" tells    *)
(* whether handlers wait for each other; both are checked.                 *)
(***************************************************************************)
EXTENDS Naturals, FiniteSets

CONSTANTS
    Staff,       \* handlers in progress
    Positions, Candidates,
    Unassigned,  \* no position (NULL)
    People,      \* e-mail addresses, each with the account of its owner
    NoAccount,   \* user is NULL
    Kinds,       \* the voting modes
    Forms,       \* the rules posted for a position
    MaxChanges   \* bound on the changes made

LiveStates == {"OPEN", "PAUSED"}
LockedStates == {"CLOSED", "TALLYING"}    \* and what comes after
Standing == {"ACTIVE", "DISQUALIFIED"}    \* WITHDRAWN, ELIMINATED: as DISQUALIFIED
Rules == [min : Nat, max : Nat, seats : Nat]

ASSUME NominationsAssumption ==
    /\ Unassigned \notin Positions /\ NoAccount \notin People
    /\ Kinds \subseteq {"institutional", "paid"}
    /\ Forms \subseteq Rules /\ \A f \in Forms : f.max > 0 /\ f.seats > 0
    /\ MaxChanges \in Nat

VARIABLES
    oneByOne,  \* handlers do not overlap
    contest,   \* the election: kind, status, freezes
    posts,     \* position -> its rules, or NoPost
    stand,     \* candidate -> its row, or NoRow
    signedPaper, \* the structure in the latest signed configuration
    invited,   \* invitations sent: candidate and address, both in the token
    paid,      \* candidates with a payment, whatever its status
    ledger,    \* candidates with successful votes
    given,     \* those that were given votes (not in the code)
    ruled,     \* candidate -> the last ruling about it (not in the code)
    misled,    \* profiles linked through an address they no longer had (not in the code)
    office,    \* handler -> what it saves next
    changes    \* how many changes were made

nominationsVars == <<oneByOne, contest, posts, stand, signedPaper, invited, paid, ledger,
                     given, ruled, misled, office, changes>>

NoPost == [min |-> 0, max |-> 0, seats |-> 0]
NoRow == [position |-> Unassigned, name |-> "", status |-> "", email |-> NoAccount, user |-> NoAccount]
CandidateRow == [position : Positions \cup {Unassigned}, name : {"first", "second"}, status : Standing,
        email : People \cup {NoAccount}, user : People \cup {NoAccount}]
AtDesk == [op |-> "none"]

There == {p \in Positions : posts[p] # NoPost}
Nominees == {c \in Candidates : stand[c] # NoRow}
Place(c) == stand[c].position

(* configuration_document, without the names: edit_candidate changes them     *)
(* without a reset.                                                          *)
Paper == [posts |-> posts,
          stand |-> [c \in Candidates |-> [position |-> Place(c), status |-> stand[c].status]]]

-----------------------------------------------------------------------------
(* The election, as far as editing it is concerned. *)

(* configuration_problems, for a position of type MULTIPLE.                  *)
Active(p) == {c \in Nominees : Place(c) = p /\ stand[c].status = "ACTIVE"}
Contested(p) == LET n == Cardinality(Active(p))
                IN /\ 0 < n /\ posts[p].min <= n /\ posts[p].seats <= n
                   /\ posts[p].min <= posts[p].max
Ready ==
    /\ There # {} \/ Nominees # {}
    /\ contest.kind = "institutional" =>
          /\ There # {} /\ \A c \in Nominees : Place(c) # Unassigned
          /\ \A p \in There : Contested(p)

Becomes(status) == contest' = [contest EXCEPT !.status = status]
Freezes(scopes) == contest' = [contest EXCEPT !.frozen = @ \cup scopes]
Elsewhere == UNCHANGED <<oneByOne, posts, stand, invited, paid, ledger, given, ruled, misled, office, changes>>
Waits == oneByOne => \A h \in Staff : office[h] = AtDesk

Submits == contest.status = "DRAFT" /\ Ready /\ Becomes("REVIEW") /\ UNCHANGED signedPaper
Returns == contest.status = "REVIEW" /\ Becomes("DRAFT") /\ UNCHANGED signedPaper
Approves == contest.status = "REVIEW" /\ Becomes("APPROVED") /\ signedPaper' = Paper
Schedules == contest.status = "APPROVED" /\ Ready /\ Becomes("SCHEDULED") /\ UNCHANGED signedPaper

(* _effect_open freezes an institutional election, _effect_close any.        *)
Opens == /\ contest.status = "SCHEDULED"
         /\ contest' = [contest EXCEPT !.status = "OPEN",
                          !.frozen = IF contest.kind = "paid" THEN @ ELSE {"ballot", "candidates"}]
         /\ UNCHANGED signedPaper
Pauses == contest.status = "OPEN" /\ Becomes("PAUSED") /\ UNCHANGED signedPaper
Closes == /\ contest.status \in LiveStates
          /\ contest' = [contest EXCEPT !.status = "CLOSED", !.frozen = {"ballot", "candidates"}]
          /\ UNCHANGED signedPaper
Tallies == contest.status = "CLOSED" /\ Becomes("TALLYING") /\ UNCHANGED signedPaper

(* freeze, and an unfreeze that was approved.                                *)
Freezing == /\ "candidates" \notin contest.frozen /\ Freezes({"candidates"})
            /\ UNCHANGED signedPaper
Unfreezing == /\ contest.frozen # {} /\ contest.status \notin LockedStates
              /\ contest' = [contest EXCEPT !.frozen = {}]
              /\ UNCHANGED signedPaper

Moves == /\ Waits
         /\ \/ Submits \/ Returns \/ Approves \/ Schedules \/ Opens \/ Pauses \/ Closes \/ Tallies
            \/ Freezing \/ Unfreezing
         /\ Elsewhere

(* edit_policy: a change of the structure takes an approval back; a profile  *)
(* is no part of the structure.                                              *)
MayEdit(scope) ==
    /\ contest.status \notin LockedStates \cup {"REVIEW"}
    /\ (IF scope = "profile" THEN "candidates" ELSE scope) \notin contest.frozen
    /\ contest.status \in LiveStates => scope = "profile" \/ contest.kind = "paid"
ResetBy(scope) == scope # "profile" /\ contest.status \in {"APPROVED", "SCHEDULED"}

(* require_editable. *)
Require(scope) ==
    /\ MayEdit(scope)
    /\ contest' = IF ResetBy(scope) THEN [contest EXCEPT !.status = "DRAFT"] ELSE contest

-----------------------------------------------------------------------------
(* The officials' forms: judged, then saved. *)

Begin(h, task) ==
    /\ office[h] = AtDesk /\ Waits
    /\ office' = [office EXCEPT ![h] = task]
    /\ UNCHANGED <<oneByOne, posts, stand, signedPaper, invited, paid, ledger, given, ruled, misled, changes>>
Finish(h) ==
    /\ office' = [office EXCEPT ![h] = AtDesk]
    /\ changes' = changes + 1
    /\ UNCHANGED <<oneByOne, contest, signedPaper, invited, paid, given, misled>>

(* parse_ballot_rules: the maximum is raised to the minimum.                 *)
Parsed(form) == [form EXCEPT !.max = IF @ < form.min THEN form.min ELSE @]

(* A position is added or edited in the console ...                          *)
JudgePost(h, p, form) ==
    /\ Require("ballot")
    /\ Begin(h, [op |-> "post", position |-> p, rules |-> Parsed(form)])

(* ... or added through the API, which stores what it is sent.               *)
CreatePosition(h, p, form) ==
    /\ p \notin There /\ Require("ballot")
    /\ Begin(h, [op |-> "post", position |-> p, rules |-> form])

(* add_category and edit_category: created, or saved whole.                  *)
SavePost(h) ==
    /\ office[h].op = "post"
    /\ posts' = [posts EXCEPT ![office[h].position] = office[h].rules]
    /\ UNCHANGED <<stand, ledger, ruled>>
    /\ Finish(h)

(* Mutant of Votes: of the candidates of the position only those who still   *)
(* stand are asked for votes.                                                *)
VotesOfStanding(p) == {c \in ledger : Place(c) = p /\ stand[c].status = "ACTIVE"}

Votes(p) == {c \in ledger : Place(c) = p}

JudgeRemoval(h, p) ==
    /\ p \in There /\ Require("ballot")
    /\ Votes(p) = {}
    /\ Begin(h, [op |-> "remove", position |-> p])

(* delete_category takes the candidates and their votes with it, unless one  *)
(* of them has a payment (on_delete=PROTECT): then nothing is deleted.       *)
SaveRemoval(h) ==
    /\ office[h].op = "remove"
    /\ LET p == office[h].position
           gone == {c \in Nominees : Place(c) = p}
       IN IF gone \cap paid # {} THEN UNCHANGED <<posts, stand, ledger, ruled>>
          ELSE /\ posts' = [posts EXCEPT ![p] = NoPost]
               /\ stand' = [c \in Candidates |-> IF c \in gone THEN NoRow ELSE stand[c]]
               /\ ledger' = ledger \ gone
               /\ ruled' = [c \in Candidates |-> IF c \in gone THEN "" ELSE ruled[c]]
    /\ Finish(h)

(* Rows to save, and whether their status was decided with them.             *)
Stand(rows, decided) == [op |-> "stand", rows |-> rows, decided |-> decided]
Newcomer(p, email) == [position |-> p, name |-> "first", status |-> "ACTIVE", email |-> email, user |-> NoAccount]

(* add_candidate, and create_candidate of the API.                          *)
JudgeNominee(h, c, p, email) ==
    /\ c \notin Nominees /\ p \in There \cup {Unassigned}
    /\ Require("candidates")
    /\ Begin(h, Stand([d \in {c} |-> Newcomer(p, email)], TRUE))

(* A list of names, without addresses; an unknown position is none.          *)
JudgeList(h, p) ==
    /\ Candidates \ Nominees # {} /\ Require("candidates")
    /\ LET place == IF p \in There THEN p ELSE Unassigned
       IN Begin(h, Stand([d \in Candidates \ Nominees |-> Newcomer(place, NoAccount)], TRUE))

(* Mutant of Structural: the status is taken for a part of the profile.      *)
MovesOnly(old, new) == old.position # new.position

(* edit_candidate: a position or a status is part of the structure.          *)
Structural(old, new) == old.position # new.position \/ old.status # new.status

(* A form changes one thing about a candidate, or leaves it as it is.        *)
Changed(c) ==
    {[stand[c] EXCEPT !.position = p] : p \in There \cup {Unassigned}} \cup
    {[stand[c] EXCEPT !.status = s] : s \in Standing} \cup
    {[stand[c] EXCEPT !.email = e] : e \in People} \cup {[stand[c] EXCEPT !.name = "second"]}

JudgeCandidate(h, c) ==
    /\ c \in Nominees
    /\ \E new \in Changed(c) :
          /\ Require(IF Structural(stand[c], new) THEN "candidates" ELSE "profile")
          /\ Begin(h, Stand([d \in {c} |-> new], stand[c].status # new.status))

(* portal_candidate: the linked account saves the row it loaded, with a      *)
(* profile of its own.                                                       *)
JudgeProfile(h, c) ==
    /\ c \in Nominees /\ stand[c].user # NoAccount
    /\ MayEdit("profile") /\ UNCHANGED contest
    /\ Begin(h, Stand([d \in {c} |-> stand[c]], FALSE))

(* candidate.save(): every column; a row deleted meanwhile is inserted       *)
(* again, a position deleted meanwhile is an error.                          *)
SaveCandidate(h) ==
    /\ office[h].op = "stand"
    /\ LET rows == office[h].rows
           saved == {c \in DOMAIN rows : rows[c].position \in There \cup {Unassigned}}
       IN /\ stand' = [c \in Candidates |-> IF c \in saved THEN rows[c] ELSE stand[c]]
          /\ ruled' = [c \in Candidates |-> IF c \in saved /\ (office[h].decided \/ c \notin Nominees)
                                             THEN rows[c].status ELSE ruled[c]]
    /\ UNCHANGED <<posts, ledger>>
    /\ Finish(h)

-----------------------------------------------------------------------------
(* The portal's invitations. *)

(* invite_candidate: to the address of now, which the token names.           *)
Invite(c) ==
    /\ Waits /\ c \in Nominees
    /\ stand[c].email # NoAccount /\ <<c, stand[c].email>> \notin invited
    /\ invited' = invited \cup {<<c, stand[c].email>>}
    /\ changes' = changes + 1
    /\ UNCHANGED <<oneByOne, contest, posts, stand, signedPaper, paid, ledger, given, ruled, misled, office>>

(* Mutant of Addressed: the address in the token is not compared.            *)
Bearer(c, who) == TRUE

Addressed(c, who) == stand[c].email = who

(* accept_invitation: signed in, it links a profile nobody else has; signed  *)
(* out, it opens a new account and links that, whoever has it.               *)
Accept(c, who, signedIn) ==
    /\ Waits /\ c \in Nominees
    /\ <<c, who>> \in invited /\ Addressed(c, who)
    /\ signedIn => stand[c].user \in {NoAccount, who}
    /\ stand' = [stand EXCEPT ![c].user = who]
    /\ misled' = IF stand[c].email # who THEN misled \cup {c} ELSE misled
    /\ changes' = changes + 1
    /\ UNCHANGED <<oneByOne, contest, posts, signedPaper, invited, paid, ledger, given, ruled, office>>

-----------------------------------------------------------------------------
(* Votes of a paid election: bought, credited later, or given for a ticket.  *)

VotesOn(c) == /\ contest.kind = "paid" /\ contest.status = "OPEN"
              /\ c \in Nominees /\ stand[c].status = "ACTIVE"
Around == UNCHANGED <<oneByOne, contest, posts, stand, signedPaper, invited, ruled, misled, office, changes>>

Checkout(c) == Waits /\ VotesOn(c) /\ paid' = paid \cup {c} /\ Around /\ UNCHANGED <<ledger, given>>
Credit(c) == /\ Waits /\ c \in paid
             /\ ledger' = ledger \cup {c} /\ given' = given \cup {c}
             /\ Around /\ UNCHANGED paid
TicketVote(c) == /\ Waits /\ VotesOn(c)
                 /\ ledger' = ledger \cup {c} /\ given' = given \cup {c}
                 /\ Around /\ UNCHANGED paid

-----------------------------------------------------------------------------

(* A draft with one position, for it one candidate, and one without.         *)
NominationsInit ==
    /\ oneByOne \in BOOLEAN
    /\ contest \in [kind : Kinds, status : {"DRAFT"}, frozen : {{}}]
    /\ \E p \in Positions, c \in Candidates, who \in People :
          /\ posts = [q \in Positions |-> IF q = p THEN [min |-> 1, max |-> 1, seats |-> 1] ELSE NoPost]
          /\ stand = [d \in Candidates |->
                IF d = c THEN [position |-> p, name |-> "first", status |-> "ACTIVE",
                               email |-> who, user |-> NoAccount] ELSE NoRow]
    /\ signedPaper = Paper
    /\ invited = {} /\ paid = {} /\ ledger = {} /\ given = {} /\ misled = {}
    /\ ruled = [c \in Candidates |-> stand[c].status]
    /\ office = [h \in Staff |-> AtDesk]
    /\ changes = 0

Handles(h) ==
    \/ \E p \in Positions : \/ \E f \in Forms : JudgePost(h, p, f) \/ CreatePosition(h, p, f)
                            \/ JudgeRemoval(h, p) \/ JudgeList(h, p)
    \/ \E c \in Candidates : \/ JudgeCandidate(h, c) \/ JudgeProfile(h, c)
                             \/ \E p \in Positions \cup {Unassigned} :
                                   \E who \in People \cup {NoAccount} : JudgeNominee(h, c, p, who)
    \/ SavePost(h) \/ SaveRemoval(h) \/ SaveCandidate(h)

NominationsNext ==
    \/ Moves
    \/ \E h \in Staff : Handles(h)
    \/ \E c \in Candidates : \/ Invite(c) \/ Checkout(c) \/ Credit(c) \/ TicketVote(c)
                             \/ \E who \in People, signedIn \in BOOLEAN : Accept(c, who, signedIn)

NominationsSpec == NominationsInit /\ [][NominationsNext]_nominationsVars

-----------------------------------------------------------------------------
(* Correctness. *)

NominationsTypeOK ==
    /\ oneByOne \in BOOLEAN
    /\ posts \in [Positions -> Rules]
    /\ stand \in [Candidates -> CandidateRow \cup {NoRow}]
    /\ invited \subseteq Candidates \X People
    /\ ledger \subseteq Nominees
    /\ changes \in Nat

Calm == \A h \in Staff : office[h] = AtDesk

(* integrity.configuration_document, lifecycle.edit_policy: from its         *)
(* approval on, the ballot of an institutional election is the one that was  *)
(* signed, positions, rules, candidates and their status; and from its       *)
(* opening on, every position can be filled.                                 *)
BallotAsSigned ==
    contest.kind = "institutional" /\ Calm =>
        /\ contest.status \in {"APPROVED", "SCHEDULED"} \cup LiveStates \cup LockedStates => Paper = signedPaper
        /\ contest.status \in {"SCHEDULED"} \cup LiveStates \cup LockedStates => Ready

(* edit_candidate: a disqualified candidate stays so until an official       *)
(* decides otherwise, whatever the portal saves.                             *)
RulingsStand == \A c \in Nominees : stand[c].status = ruled[c]

(* delete_category: "This position already has votes and cannot be deleted." *)
VotesStay == given \subseteq ledger

(* All of it when handlers do not overlap, and no profile is linked through  *)
(* an address that was corrected; even when they do overlap, nobody with a   *)
(* payment is deleted.                                                       *)
NominationsHold ==
    /\ oneByOne => BallotAsSigned /\ RulingsStand /\ VotesStay /\ misled = {}
    /\ paid \subseteq Nominees
=============================================================================
