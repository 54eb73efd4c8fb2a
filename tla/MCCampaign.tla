----------------------------- MODULE MCCampaign -----------------------------
(* The lifecycle of an election and the candidates it is about, side by side: *)
(* they share no state, "campaign" tells which of them moves.                 *)
EXTENDS MCLifecycle, Nominations

CONSTANTS h1, h2, president, secretary, ann, ben, x, y

VARIABLE campaign

MCForms == {[min |-> 1, max |-> 1, seats |-> 1], [min |-> 2, max |-> 1, seats |-> 1]}

MCInit ==
    /\ Init /\ NominationsInit
    /\ campaign \in {"lifecycle", "nominations"}
    /\ posts[president] # NoPost /\ stand[ann].email = x    \* interchangeable
    /\ campaign = "lifecycle" => oneByOne /\ contest.kind = "paid"

(* One handler is enough where they do not overlap; overlapping ones are of  *)
(* interest where a payment may come between. The portal is looked at apart  *)
(* from votes, and freezes apart from either.                                *)
NominationsBound ==
    /\ changes <= IF invited # {} THEN MaxChanges ELSE 2
    /\ IF oneByOne THEN office[h2] = AtDesk
       ELSE /\ contest.kind = "paid" /\ invited = {} /\ contest.frozen = {} /\ changes <= 1
            /\ AtDesk \notin {office[h1], office[h2]} => \E h \in Staff : office[h].op = "remove"
            /\ contest.status \in {"DRAFT", "OPEN"} \/ (office[h2] = AtDesk /\ changes = 0)
    /\ contest.kind = "paid" => \A h \in Staff : office[h] # AtDesk /\ office[h].op = "stand" =>
          \A c \in DOMAIN office[h].rows : LET row == office[h].rows[c]
              IN row.name = "first" /\ row.email \in {NoAccount} \cup {stand[d].email : d \in Nominees}

MCNext ==
    /\ UNCHANGED campaign
    /\ \/ campaign = "lifecycle" /\ Next /\ UNCHANGED nominationsVars
       \/ campaign = "nominations" /\ NominationsNext /\ NominationsBound' /\ UNCHANGED vars

MCSpec == MCInit /\ [][MCNext]_<<campaign, vars, nominationsVars>>
=============================================================================
