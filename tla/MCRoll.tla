-------------------------------- MODULE MCRoll --------------------------------
(* Casting and the roll it draws on, side by side: they share no state,      *)
(* "desk" tells which of them moves.                                         *)
EXTENDS MCCasting, Roll

CONSTANTS c1, c2, id1, mail1, mail2

VARIABLE desk

(* The third unit has the name that is the first one's code.                 *)
MCUnits == 1..3
MCNameOf == [u \in MCUnits |-> IF u = 3 THEN 1 ELSE None]

(* One by ID and one by address; no header; a row without either.            *)
Line == [id |-> None, email |-> None, unit |-> None]
MCFiles ==
    {[header |-> TRUE, rows |-> <<[Line EXCEPT !.id = id1, !.unit = 1], [Line EXCEPT !.email = mail1]>>],
     [header |-> FALSE, rows |-> <<[Line EXCEPT !.id = id1, !.email = mail1, !.unit = 2]>>],
     [header |-> TRUE, rows |-> <<[Line EXCEPT !.email = mail1, !.unit = 1], Line>>]}

MCInit ==
    /\ Init /\ RollInit
    /\ desk \in {"casting", "roll"}
    /\ desk = "casting" => queued /\ poll.codes /\ poll.register

(* The tree with hardly a voter, voters without units, and both with one     *)
(* unit and one handler.                                                     *)
RollBound ==
    /\ issued <= MaxIssued
    /\ IF queued THEN steps <= MaxSteps /\ clerk[c2] = Free ELSE steps < MaxSteps /\ Known # Units
    /\ \/ Cardinality(Enrolled) <= 1 /\ issued <= 1 /\ poll.editable /\ ~poll.codes /\ ~poll.register
       \/ Known = {}
       \/ Known = {1} /\ queued

MCNext ==
    /\ UNCHANGED desk
    /\ \/ desk = "casting" /\ Next /\ UNCHANGED rollVars
       \/ desk = "roll" /\ RollNext /\ RollBound' /\ UNCHANGED vars

MCSpec == MCInit /\ [][MCNext]_<<desk, vars, rollVars>>
=============================================================================
