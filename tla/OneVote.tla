------------------------------ MODULE OneVote ------------------------------
(***************************************************************************)
(* What the ballot box of a secret-ballot election promises, with no       *)
(* tokens, sessions, locks or status columns: a person is either on the    *)
(* list of those who have voted or not, the box holds anonymous ballots,   *)
(* and the only step there is adds one person and one ballot together.     *)
(* Nothing ever leaves either set, and nothing relates a member of one to  *)
(* a member of the other.  Casting is shown to implement it.               *)
(***************************************************************************)
CONSTANTS Voters,    \* the people on the roll
          Ballots    \* identities a ballot row may get

VARIABLES voted,     \* the people whose one ballot is in the box
          box        \* the ballots on the bulletin board

vars == <<voted, box>>

Init == voted = {} /\ box = {}

(* One person who has not voted puts one new ballot in the box. *)
Vote(v, b) ==
    /\ v \notin voted
    /\ b \notin box
    /\ voted' = voted \cup {v}
    /\ box' = box \cup {b}

Next == \E v \in Voters, b \in Ballots : Vote(v, b)

Spec == Init /\ [][Next]_vars
=============================================================================
