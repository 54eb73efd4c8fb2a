-------------------------------- MODULE Count --------------------------------
(***************************************************************************)
(* One position of a secret-ballot election: which selections its rules    *)
(* accept, and how the closed box is counted: plurality (single choice,    *)
(* block, multiple, approval), scores, a referendum, the instant run-off   *)
(* and the single transferable vote.                                       *)
(*                                                                         *)
(* The functions of tally.py do not depend on the order of the ballots:    *)
(* the box is a bag.  They are deterministic: what varies is the position, *)
(* the ballots and, for the ranked methods, how far the count has come,    *)
(* one round a step.  Weights are exact fractions in the code; here they   *)
(* are numerators over one common denominator, "unit".                     *)
(***************************************************************************)
EXTENDS Integers, Sequences, FiniteSets, Bags, FiniteSetsExt

CONSTANTS
    Candidates,   \* by their order on the ballot (_rank: by name)
    Lot,          \* candidate -> the rank of _lot_key
    Positions     \* the positions that may be configured

Types == {"SINGLE", "FPTP", "MULTIPLE", "APPROVAL", "RANKED", "SCORE", "REFERENDUM"}
Position == [type : Types, standing : SUBSET Candidates, min : Nat, max : Nat, seats : Nat,
             score : Nat, threshold : Nat, abstain : BOOLEAN, ballots : Nat]

ASSUME CountAssumption ==
    /\ Candidates \subseteq Nat /\ IsFiniteSet(Candidates)
    /\ Lot \in [Candidates -> Nat]
    /\ \A c, d \in Candidates : Lot[c] = Lot[d] => c = d
    /\ Positions \subseteq Position

VARIABLES
    position,    \* the Category row, its active candidates, and a bound on the ballots
    box,         \* the selections recorded
    phase,       \* "voting", "count" (the rounds of a ranked count), "done"
    winners,     \* the result: winners, in the ranked methods those elected so far ...
    ties,        \* ... and the ties it reports, tie_breaks included
    continuing,  \* ranked: the candidates still in the count
    weight,      \* ranked: selection -> what one ballot with it still weighs ...
    unit         \* ... over this denominator

countVars == <<position, box, phase, winners, ties, continuing, weight, unit>>

AtMost(a, b) == IF a <= b THEN a ELSE b
AtLeast(a, b) == IF a >= b THEN a ELSE b

-----------------------------------------------------------------------------
(* ballot.py: the rules of a position. *)

(* effective_limits. *)
Most(p) ==
    CASE p.type \in {"SINGLE", "REFERENDUM"} -> 1
      [] p.type \in {"APPROVAL", "SCORE"} -> AtLeast(Cardinality(p.standing), 1)
      [] p.type = "FPTP" -> AtLeast(p.max, p.seats)
      [] p.type \in {"MULTIPLE", "RANKED"} -> AtLeast(p.max, p.min)

Fewest(p) ==
    CASE p.type = "REFERENDUM" -> 1
      [] p.type \in {"SINGLE", "APPROVAL", "FPTP"} -> AtMost(p.min, Most(p))
      [] OTHER -> p.min

(* configuration_problems, of the position: what keeps an election from      *)
(* being submitted.                                                          *)
Problem(p) ==
    /\ p.type # "REFERENDUM"
    /\ LET count == Cardinality(p.standing)
           choosesSome == p.type \in {"MULTIPLE", "RANKED", "FPTP"}
       IN \/ count = 0
          \/ choosesSome /\ Fewest(p) > count
          \/ p.seats > AtLeast(count, 1)
          \/ choosesSome /\ p.min > p.max

(* What voters may send: nothing, or one selection of the shape the type     *)
(* asks for (any other shape is rejected); a name twice and a name that is   *)
(* not on the ballot included.                                               *)
Empty(p) == IF p.type = "REFERENDUM" THEN "" ELSE <<>>

Raw(p) ==
    CASE p.type = "REFERENDUM" -> {"", "YES", "NO", "MAYBE"}
      [] p.type = "SCORE" -> UNION {[C -> 0..(p.score + 1)] : C \in SUBSET Candidates}
      [] OTHER -> UNION {[1..n -> Candidates] : n \in 0..Cardinality(Candidates)}

Named(p, raw) == IF p.type = "SCORE" THEN DOMAIN raw ELSE {raw[i] : i \in DOMAIN raw}

(* normalize_selection: an abstention if allowed, or a valid selection.      *)
Accepts(p, raw) ==
    IF raw = Empty(p) THEN p.abstain
    ELSE IF p.type = "REFERENDUM" THEN raw \in {"YES", "NO"}
    ELSE /\ Named(p, raw) \subseteq p.standing
         /\ IF p.type = "SCORE"
            THEN Cardinality(DOMAIN raw) >= Fewest(p) /\ \A c \in DOMAIN raw : raw[c] <= p.score
            ELSE /\ Cardinality(Named(p, raw)) = Len(raw)
                 /\ Len(raw) \in Fewest(p)..Most(p)

(* ... and the form it is recorded in: the order matters only when ranked.   *)
Recorded(p, raw) ==
    IF p.type \in {"REFERENDUM", "SCORE", "RANKED"} THEN raw ELSE Named(p, raw)

Abstention == Recorded(position, Empty(position))
Forms == BagToSet(box) \ {Abstention}
Copies(of) == MapThenSumSet(LAMBDA s : box[s] * of[s], Forms)
Valid == Copies([s \in Forms |-> 1])

-----------------------------------------------------------------------------
(* tally.py: plurality, score, referendum. *)

(* The marks or the points of a candidate.                                   *)
Votes(c) ==
    IF position.type = "SCORE" THEN Copies([s \in Forms |-> IF c \in DOMAIN s THEN s[c] ELSE 0])
    ELSE Copies([s \in Forms |-> IF c \in s THEN 1 ELSE 0])

Seats == IF position.type = "SINGLE" THEN 1 ELSE position.seats

(* The first so many of _rank: by votes, then by name.                       *)
FirstRanked(votes, n) ==
    {c \in DOMAIN votes : Cardinality({d \in DOMAIN votes :
        votes[d] > votes[c] \/ (votes[d] = votes[c] /\ d < c)}) < n}

(* _winners_with_ties: a tie for the last seat leaves it open.               *)
WinnersWithTies(votes) ==
    LET first == FirstRanked(votes, Seats)
        cutoff == CHOOSE n \in {votes[c] : c \in first} : \A c \in first : n <= votes[c]
        tied == {c \in DOMAIN votes : votes[c] = cutoff}
    IN IF first # {} /\ ~(tied \subseteq first)
       THEN <<{c \in first : votes[c] > cutoff}, tied>>
       ELSE <<first, {}>>

Answers(a) == Copies([s \in Forms |-> IF s = a THEN 1 ELSE 0])

(* _pct, in hundredths of a percent.                                         *)
Pct(part, whole) == IF whole = 0 THEN 0 ELSE (20000 * part + whole) \div (2 * whole)

(* referendum. *)
Passed == Valid > 0 /\ Pct(Answers("YES"), Valid) > 100 * position.threshold

Result ==
    IF position.type = "REFERENDUM"
    THEN <<{IF Passed THEN "YES" ELSE "NO"},
           IF Valid > 0 /\ Answers("YES") = Answers("NO") THEN {"YES", "NO"} ELSE {}>>
    ELSE WinnersWithTies([c \in position.standing |-> Votes(c)])

-----------------------------------------------------------------------------
(* tally.py: ranked. *)

(* Seats are at most as many as candidates; more than one makes it an STV.   *)
RankedSeats == AtLeast(1, AtMost(position.seats, Cardinality(position.standing)))
Stv == RankedSeats > 1

(* A ballot is for the first of its preferences still in the count.          *)
For(s, c) == \E i \in DOMAIN s : s[i] = c /\ \A j \in 1..(i - 1) : s[j] \notin continuing

(* current_tallies. *)
Tallies == [c \in continuing |-> Copies([s \in Forms |-> IF For(s, c) THEN weight[s] ELSE 0])]
FirstPrefs(c) == Copies([s \in Forms |-> IF s[1] = c THEN 1 ELSE 0])

(* valid / (seats + 1), a whole number of units.                             *)
Quota == (Valid * unit) \div (RankedSeats + 1)

(* Those who have reached the quota, or more than half of what continues.    *)
Reached(t) ==
    IF Stv THEN {c \in continuing : t[c] >= Quota}
    ELSE {c \in continuing : 2 * t[c] > MapThenSumSet(LAMBDA d : t[d], continuing)}

(* The most votes, then the lot.                                             *)
Best(t, C) == CHOOSE c \in C : \A d \in C : t[c] > t[d] \/ (t[c] = t[d] /\ Lot[c] <= Lot[d])

(* The fewest votes; of these the fewest first preferences; then the lot.    *)
Lowest(t) == {c \in continuing : \A d \in continuing : t[c] <= t[d]}
Loser(t) ==
    LET fewest == {c \in Lowest(t) : \A d \in Lowest(t) : FirstPrefs(c) <= FirstPrefs(d)}
    IN CHOOSE c \in fewest : \A d \in fewest : Lot[c] <= Lot[d]

(* Mutant of Kept: the ballots of a winner go on at full weight.             *)
KeptWhole(tally) == tally

(* What a winner's ballots keep: the surplus over the quota.                 *)
Kept(tally) == IF tally > Quota THEN tally - Quota ELSE 0

Counting == phase = "count" /\ continuing # {} /\ Cardinality(winners) < RankedSeats

(* The remaining candidates fill the remaining seats.                        *)
Fill ==
    /\ Counting
    /\ Cardinality(continuing) <= RankedSeats - Cardinality(winners)
    /\ winners' = winners \cup continuing
    /\ phase' = "done"
    /\ UNCHANGED <<position, box, ties, continuing, weight, unit>>

Elect ==
    /\ Counting
    /\ Cardinality(continuing) > RankedSeats - Cardinality(winners)
    /\ LET t == Tallies IN
       /\ Reached(t) # {}
       /\ LET w == Best(t, Reached(t)) IN
          /\ winners' = winners \cup {w}
          /\ continuing' = continuing \ {w}
          /\ IF Stv
             THEN /\ unit' = unit * t[w]
                  /\ weight' = [s \in Forms |-> weight[s] * (IF For(s, w) THEN Kept(t[w]) ELSE t[w])]
             ELSE UNCHANGED <<unit, weight>>
    /\ UNCHANGED <<position, box, phase, ties>>

Eliminate ==
    /\ Counting
    /\ Cardinality(continuing) > RankedSeats - Cardinality(winners)
    /\ LET t == Tallies IN
       /\ Reached(t) = {}
       /\ continuing' = continuing \ {Loser(t)}
       /\ ties' = IF Cardinality(Lowest(t)) > 1 THEN ties \cup Lowest(t) ELSE ties
    /\ UNCHANGED <<position, box, phase, winners, weight, unit>>

Finish ==
    /\ phase = "count" /\ ~Counting
    /\ phase' = "done"
    /\ UNCHANGED <<position, box, winners, ties, continuing, weight, unit>>

-----------------------------------------------------------------------------
CountInit ==
    /\ position \in {p \in Positions : ~Problem(p)}
    /\ box = EmptyBag /\ phase = "voting"
    /\ winners = {} /\ ties = {} /\ continuing = {}
    /\ weight = <<>> /\ unit = 1

(* validate_ballot: what is not accepted is not recorded at all.             *)
Cast(raw) ==
    /\ phase = "voting" /\ BagCardinality(box) < position.ballots
    /\ Accepts(position, raw)
    /\ box' = box (+) SetToBag({Recorded(position, raw)})
    /\ UNCHANGED <<position, phase, winners, ties, continuing, weight, unit>>

(* tally_position, when the box is closed: by the type of the ballot.        *)
TallyPosition ==
    /\ phase = "voting" /\ position.type # "RANKED"
    /\ phase' = "done"
    /\ winners' = Result[1] /\ ties' = Result[2]
    /\ UNCHANGED <<position, box, continuing, weight, unit>>

TallyRanked ==
    /\ phase = "voting" /\ position.type = "RANKED"
    /\ phase' = "count"
    /\ continuing' = position.standing
    /\ unit' = IF Stv THEN RankedSeats + 1 ELSE 1
    /\ weight' = [s \in Forms |-> unit']
    /\ UNCHANGED <<position, box, winners, ties>>

CountNext ==
    \/ \E raw \in Raw(position) : Cast(raw)
    \/ TallyPosition \/ TallyRanked \/ Fill \/ Elect \/ Eliminate \/ Finish

CountSpec == CountInit /\ [][CountNext]_countVars

-----------------------------------------------------------------------------
(* Correctness. *)

(* Types: what is in the box has the form validate_ballot records, and a     *)
(* count moves candidates of the position from those in it to those elected. *)
CountTypeOK ==
    /\ position \in Positions /\ ~Problem(position)
    /\ IsFiniteSet(DOMAIN box) /\ \A s \in DOMAIN box : box[s] \in Nat
    /\ \A s \in Forms : /\ position.type = "SCORE" => \A c \in DOMAIN s : s[c] \in Nat
                        /\ position.type = "RANKED" => s \in Seq(Candidates)
    /\ phase \in {"voting", "count", "done"}
    /\ phase = "voting" => winners = {}
    /\ phase = "count" => /\ position.type = "RANKED"
                          /\ continuing \subseteq position.standing /\ winners \subseteq position.standing
                          /\ winners \cap continuing = {}
                          /\ weight \in [Forms -> Nat] /\ unit \in Nat

(* tally.py: "Ties that decide a seat are never broken silently".  In the    *)
(* methods without rounds a candidate has a seat exactly if fewer than       *)
(* "seats" others have as many votes, and is reported as tied exactly if it  *)
(* has a claim to a seat but not a sure one.  A motion passes only if its    *)
(* share of the valid votes exceeds the threshold, and does pass if it does  *)
(* by a hundredth of a percent; between the two, _pct's rounding decides.    *)
NotBehindOf(votes, c) == {d \in DOMAIN votes \ {c} : votes[d] >= votes[c]}
MoreThan(votes, c) == {d \in DOMAIN votes : votes[d] > votes[c]}

SeatsAreEarned ==
    phase = "done" /\ position.type # "RANKED" =>
        IF position.type = "REFERENDUM"
        THEN /\ "YES" \in winners => 100 * Answers("YES") > position.threshold * Valid
             /\ Valid > 0 /\ 10000 * Answers("YES") >= (100 * position.threshold + 1) * Valid
                  => "YES" \in winners
        ELSE LET votes == [c \in position.standing |-> Votes(c)] IN
             /\ winners = {c \in position.standing : Cardinality(NotBehindOf(votes, c)) < Seats}
             /\ ties = {c \in position.standing \ winners : Cardinality(MoreThan(votes, c)) < Seats}

(* ranked: whatever the order of eliminations, the lots and the transfers,   *)
(* the seats are filled, and voters who all prefer the same candidates to    *)
(* all the others get the seats their number entitles them to: with more     *)
(* than k quotas, k of their candidates (or all of them) are elected. With   *)
(* one seat: the choice of a majority wins.                                  *)
InFront(s, C) == Len(s) >= Cardinality(C) /\ {s[i] : i \in 1..Cardinality(C)} = C
Solid(C) == Copies([s \in Forms |-> IF InFront(s, C) THEN 1 ELSE 0])

SolidCoalitions ==
    phase = "done" /\ position.type = "RANKED" =>
        /\ Cardinality(winners) = RankedSeats
        /\ \A C \in (SUBSET position.standing) \ {{}}, k \in 1..RankedSeats :
              Solid(C) * (RankedSeats + 1) > k * Valid
                => Cardinality(winners \cap C) >= AtMost(k, Cardinality(C))

(* All of them.                                                              *)
CountHolds == CountTypeOK /\ SeatsAreEarned /\ SolidCoalitions
=============================================================================
