--------------------------- MODULE RecordedVotes ----------------------------
(***************************************************************************)
(* What a voter who posts a vote is promised, with no keys, locks, jobs or *)
(* retries: the ballot enters the box and the log in one step, for good,   *)
(* and only then is the voter told, once.  VoteRequest is shown to         *)
(* implement it, whatever fails in between.                                *)
(***************************************************************************)
EXTENDS Sequences

CONSTANTS Voters,
          Bodies,      \* selections
          NoBallot

VARIABLES box,     \* voter -> the selections in the box
          log,     \* whose ballots were cast, in order: it only grows
          told     \* the voters whose confirmation is in the outbox

vars == <<box, log, told>>

Init ==
    /\ box = [v \in Voters |-> NoBallot]
    /\ log = <<>>
    /\ told = {}

Record(v, b) ==
    /\ box[v] = NoBallot
    /\ box' = [box EXCEPT ![v] = b]
    /\ log' = Append(log, v)
    /\ UNCHANGED told

Tell(v) ==
    /\ box[v] # NoBallot
    /\ v \notin told
    /\ told' = told \cup {v}
    /\ UNCHANGED <<box, log>>

Next == \E v \in Voters : Tell(v) \/ \E b \in Bodies : Record(v, b)

Spec == Init /\ [][Next]_vars
=============================================================================
