------------------------------- MODULE Bulletin --------------------------------
(***************************************************************************)
(* What anybody may check of one secret-ballot election: the configuration *)
(* signed at its approval, the board of ballot trackers with its Merkle    *)
(* root and proofs, the tallied result, its signed certificate, recounts,  *)
(* and the trustees' parts of the ballot key.  Two programs do the         *)
(* checking, the public page and the offline verifier, and a third looks   *)
(* at what is stored.                                                      *)
(*                                                                         *)
(* A hash is the value it was computed from, a signature the key it was    *)
(* made with.  Overlapping handlers and late ballots are the subject of    *)
(* Results and Casting.                                                    *)
(***************************************************************************)
EXTENDS Integers, Sequences, FiniteSetsExt, SequencesExt

CONSTANTS
    People,          \* the voters
    Trackers,        \* a set of naturals, ordered as the code orders digests
    SigningKeys,
    FirstKey,
    Prime,           \* the field of the secret sharing
    Custodies,       \* [threshold, shares] of the ballot key
    MaxEdits, MaxSnapshots, MaxTallies   \* bounds

ASSUME BulletinAssumption ==
    /\ Trackers \subseteq Nat /\ IsFiniteSet(Trackers) /\ FirstKey \in SigningKeys
    /\ Prime \in Nat /\ 1 < Prime /\ \A d \in 2..(Prime - 1) : Prime % d # 0
    /\ Custodies \subseteq [threshold : Nat, shares : Nat] /\ Custodies # {}
    /\ \A c \in Custodies : 1 <= c.threshold /\ c.threshold <= c.shares /\ c.shares < Prime
    /\ {MaxEdits, MaxSnapshots, MaxTallies} \subseteq Nat

VARIABLES
    heedful,    \* nobody signs by hand after the certification, retired keys are listed
    stage,      \* Event.status
    edits,      \* how often the configuration was changed
    electorate, \* voter -> status
    board,      \* trackers of the ballots
    receipts,   \* voter -> the tracker on the receipt, or 0
    snapshots,  \* the ElectionConfigSnapshot rows, oldest first
    tallies,    \* the official ElectionResult rows, oldest first
    recounted,  \* the last Recount, or NoRecount
    certificate,   \* the unrevoked ResultCertification, or NoCertificate
    signer,     \* SIGNING_PRIVATE_KEY and SIGNING_PREVIOUS_PUBLIC_KEYS
    polynomial  \* what split_secret drew: the secret and the other coefficients

bulletinVars == <<heedful, stage, edits, electorate, board, receipts, snapshots, tallies,
                  recounted, certificate, signer, polynomial>>

NoRecount == [matches |-> TRUE]
NoCertificate == [result |-> 0]
Tallied == {"TALLYING", "CERTIFIED", "PUBLISHED", "ARCHIVED"}
Public == {"PUBLISHED", "ARCHIVED"}

-----------------------------------------------------------------------------
(* The Merkle tree over the sorted trackers. *)

Leaf(tracker) == <<"leaf", tracker>>
HashPair(left, right) == <<"pair", left, right>>

(* A level with an odd number of nodes gets its last node twice.             *)
Evened(level) == IF Len(level) % 2 = 1 THEN Append(level, Last(level)) ELSE level

Parents(level) ==
    LET even == Evened(level)
    IN [i \in 1..(Len(even) \div 2) |-> HashPair(even[2 * i - 1], even[2 * i])]

(* All levels above the leaves, as many as there can be nodes.               *)
Levels(trackers) ==
    LET up[h \in 0..Len(trackers)] ==
            IF h = 0 THEN [i \in DOMAIN trackers |-> Leaf(trackers[i])]
            ELSE IF Len(up[h - 1]) <= 1 THEN up[h - 1] ELSE Parents(up[h - 1])
    IN up

MerkleRoot(trackers) ==
    IF trackers = <<>> THEN <<"empty">> ELSE Head(Levels(trackers)[Len(trackers)])

(* merkle_proof: from the leaf up, the other node of each pair.              *)
MerkleProof(trackers, index) ==
    LET levels == Levels(trackers)
        height == Cardinality({h \in DOMAIN levels : Len(levels[h]) > 1})
        at[h \in DOMAIN levels] == IF h = 0 THEN index ELSE at[h - 1] \div 2
        Step(h) ==
            LET sibling == IF at[h] % 2 = 0 THEN at[h] + 1 ELSE at[h] - 1
            IN [hash |-> Evened(levels[h])[sibling + 1], side |-> IF sibling < at[h] THEN "left" ELSE "right"]
    IN [i \in 1..height |-> Step(i - 1)]

VerifyMerkleProof(tracker, proof, root) ==
    LET Climbs(node, step) == IF step.side = "left" THEN HashPair(step.hash, node) ELSE HashPair(node, step.hash)
        current[i \in 0..Len(proof)] == IF i = 0 THEN Leaf(tracker) ELSE Climbs(current[i - 1], proof[i])
    IN current[Len(proof)] = root

(* bulletin_trackers: sorted.                                                *)
Sorted(trackers) ==
    CHOOSE s \in [1..Cardinality(trackers) -> trackers] :
        Range(s) = trackers /\ \A i, j \in DOMAIN s : i < j => s[i] < s[j]

-----------------------------------------------------------------------------
(* Secret sharing over the integers modulo Prime. *)

SumModulo(f, S) == FoldFunctionOnSet(LAMBDA a, b : (a + b) % Prime, 0, f, S)
ProductModulo(f, S) == FoldFunctionOnSet(LAMBDA a, b : (a * b) % Prime, 1, f, S)

(* split_secret: the polynomial at 1, 2, ..., with the secret at 0.          *)
Shares(coefficients, shares) ==
    LET terms == Len(coefficients)
        At(x) == LET y[i \in 0..terms] ==
                         IF i = 0 THEN 0 ELSE (y[i - 1] * x + coefficients[terms + 1 - i]) % Prime
                 IN y[terms]
    IN [x \in 1..shares |-> At(x)]

Reciprocal(n) == CHOOSE k \in 1..(Prime - 1) : (k * n) % Prime = 1

(* combine_shares: Lagrange interpolation at 0.                              *)
Combine(share, chosen) ==
    LET Weight(i) ==
            LET others == chosen \ {i}
                numerator == ProductModulo([j \in others |-> -j], others)
                denominator == ProductModulo([j \in others |-> i - j], others)
            IN numerator * Reciprocal(denominator)
    IN SumModulo([i \in chosen |-> share[i] * Weight(i)], chosen)

-----------------------------------------------------------------------------
(* Signing, tallying, publishing. *)

BulletinInit ==
    /\ heedful \in BOOLEAN
    /\ stage = "REVIEW" /\ edits = 0
    /\ electorate = [p \in People |-> "ELIGIBLE"]
    /\ board = {} /\ receipts = [p \in People |-> 0]
    /\ snapshots = <<>> /\ tallies = <<>>
    /\ recounted = NoRecount /\ certificate = NoCertificate
    /\ signer = [own |-> FirstKey, previous |-> {}]
    /\ polynomial = [custody |-> CHOOSE c \in Custodies : TRUE, coefficients |-> <<>>]

InState(status) == {p \in People : electorate[p] = status}

(* configuration_document: the settings and the roll in digest.              *)
ConfigurationDocument ==
    [edits |-> edits, statuses |-> [s \in {"ELIGIBLE", "VOTED", "SUSPENDED"} |-> Cardinality(InState(s))]]

Signs == snapshots' = Append(snapshots, [config |-> ConfigurationDocument, key |-> signer.own])

Approves ==
    /\ stage = "REVIEW" /\ stage' = "APPROVED"
    /\ Len(snapshots) < MaxSnapshots /\ Signs
    /\ UNCHANGED <<heedful, edits, electorate, board, receipts, tallies, recounted, certificate, signer, polynomial>>

(* "Sign configuration now" on the integrity page, whatever the status.      *)
SignsByHand ==
    /\ Len(snapshots) < MaxSnapshots
    /\ heedful => stage \notin {"CERTIFIED", "PUBLISHED", "ARCHIVED"}
    /\ Signs
    /\ UNCHANGED <<heedful, stage, edits, electorate, board, receipts, tallies, recounted, certificate, signer, polynomial>>

(* An edit takes the approval back.                                          *)
EditsConfiguration ==
    /\ stage = "APPROVED" /\ edits < MaxEdits
    /\ stage' = "DRAFT" /\ edits' = edits + 1
    /\ UNCHANGED <<heedful, electorate, board, receipts, snapshots, tallies, recounted, certificate, signer, polynomial>>

(* ensure_election_key, when the election is scheduled.                      *)
Schedules ==
    /\ stage = "APPROVED" /\ stage' = "SCHEDULED"
    /\ \E c \in Custodies : \E coefficients \in [1..c.threshold -> 0..(Prime - 1)] :
           /\ coefficients[1] # 0
           /\ polynomial' = [custody |-> c, coefficients |-> coefficients]
    /\ UNCHANGED <<heedful, edits, electorate, board, receipts, snapshots, tallies, recounted, certificate, signer>>

(* Transitions that only move the election. *)
Moves ==
    /\ \E move \in {<<"DRAFT", "REVIEW">>, <<"SCHEDULED", "OPEN">>, <<"OPEN", "CLOSED">>,
                   <<"CERTIFIED", "PUBLISHED">>, <<"PUBLISHED", "ARCHIVED">>, <<"CLOSED", "ARCHIVED">>} :
           stage = move[1] /\ stage' = move[2]
    /\ UNCHANGED <<heedful, edits, electorate, board, receipts, snapshots, tallies, recounted, certificate, signer, polynomial>>

Votes(p) ==
    /\ stage = "OPEN" /\ electorate[p] = "ELIGIBLE"
    /\ \E t \in Trackers \ board : board' = board \cup {t} /\ receipts' = [receipts EXCEPT ![p] = t]
    /\ electorate' = [electorate EXCEPT ![p] = "VOTED"]
    /\ UNCHANGED <<heedful, stage, edits, snapshots, tallies, recounted, certificate, signer, polynomial>>

(* set_status asks for no status of the election.                            *)
SuspendsOrRestores(p) ==
    /\ electorate[p] # "VOTED"
    /\ electorate' = [electorate EXCEPT ![p] = IF @ = "ELIGIBLE" THEN "SUSPENDED" ELSE "ELIGIBLE"]
    /\ UNCHANGED <<heedful, stage, edits, board, receipts, snapshots, tallies, recounted, certificate, signer, polynomial>>

(* compute_institutional_tally: ballots, turnout, root.                      *)
Counted == [ballots |-> board, cast |-> Cardinality(InState("VOTED")),
            eligible |-> Cardinality(People \ InState("SUSPENDED")), root |-> MerkleRoot(Sorted(board))]

(* private_key_for_tally takes shares until there are enough.                *)
KeyRecovered ==
    LET share == Shares(polynomial.coefficients, polynomial.custody.shares)
    IN \E chosen \in kSubset(polynomial.custody.threshold, DOMAIN share) :
           Combine(share, chosen) = polynomial.coefficients[1]

Superseded == [i \in DOMAIN tallies |-> IF tallies[i].status = "PENDING_REVIEW"
                                        THEN [tallies[i] EXCEPT !.status = "SUPERSEDED"] ELSE tallies[i]]

RunsTally ==
    /\ stage \in {"CLOSED", "TALLYING"} /\ stage' = "TALLYING"
    /\ KeyRecovered /\ Len(tallies) < MaxTallies
    /\ tallies' = Append(Superseded, [status |-> "PENDING_REVIEW", data |-> Counted])
    /\ UNCHANGED <<heedful, edits, electorate, board, receipts, snapshots, recounted, certificate, signer, polynomial>>

(* Mutant of LatestSnapshot: the query in ascending order.                   *)
FirstSnapshot == Head(snapshots).config
LatestSnapshot == Last(snapshots).config

Payload(data) == [resultHash |-> data, root |-> data.root, configHash |-> LatestSnapshot]

CertifiesResult ==
    /\ stage = "TALLYING" /\ stage' = "CERTIFIED"
    /\ \E i \in DOMAIN tallies :
           /\ tallies[i].status = "PENDING_REVIEW"
           /\ tallies' = [tallies EXCEPT ![i].status = "APPROVED"]
           /\ certificate' = [result |-> i, payload |-> Payload(tallies[i].data),
                              signed |-> Payload(tallies[i].data), key |-> signer.own]
    /\ UNCHANGED <<heedful, edits, electorate, board, receipts, snapshots, recounted, signer, polynomial>>

RevokesCertificate ==
    /\ stage \in {"CERTIFIED", "PUBLISHED"} /\ stage' = "TALLYING"
    /\ tallies' = [tallies EXCEPT ![certificate.result].status = "SUPERSEDED"]
    /\ certificate' = NoCertificate
    /\ UNCHANGED <<heedful, edits, electorate, board, receipts, snapshots, recounted, signer, polynomial>>

(* The result a recount is compared to: the certified one, or the newest.    *)
Reference ==
    IF certificate # NoCertificate THEN certificate.result
    ELSE LET standing == {i \in DOMAIN tallies : tallies[i].status # "SUPERSEDED"}
         IN IF standing = {} THEN 0 ELSE CHOOSE i \in standing : \A j \in standing : j <= i

RecountsBallots ==
    /\ stage \in Tallied /\ KeyRecovered /\ Reference # 0
    /\ recounted' = [matches |-> tallies[Reference].data = Counted, data |-> Counted, official |-> tallies[Reference].data]
    /\ UNCHANGED <<heedful, stage, edits, electorate, board, receipts, snapshots, tallies, certificate, signer, polynomial>>

(* A new SIGNING_PRIVATE_KEY, and a restart; the old public key is listed    *)
(* in SIGNING_PREVIOUS_PUBLIC_KEYS, as the manual asks, or forgotten.        *)
ReplacesSigningKey ==
    /\ \E k \in SigningKeys \ ({signer.own} \cup signer.previous) :
           signer' \in {[own |-> k, previous |-> signer.previous \cup {signer.own}]}
                       \cup IF heedful THEN {} ELSE {[signer EXCEPT !.own = k]}
    /\ UNCHANGED <<heedful, stage, edits, electorate, board, receipts, snapshots, tallies, recounted, certificate, polynomial>>

BulletinNext ==
    \/ Approves \/ SignsByHand \/ EditsConfiguration \/ Schedules \/ Moves
    \/ \E p \in People : Votes(p) \/ SuspendsOrRestores(p)
    \/ RunsTally \/ CertifiesResult \/ RevokesCertificate \/ RecountsBallots \/ ReplacesSigningKey

BulletinSpec == BulletinInit /\ [][BulletinNext]_bulletinVars

-----------------------------------------------------------------------------
(* The bundle, and who checks it. *)

TrustedKeys == {signer.own} \cup signer.previous

VerificationBundle ==
    [config |-> Last(snapshots).config, configSigned |-> Last(snapshots).config,
     certificate |-> certificate, trackers |-> Sorted(board), root |-> MerkleRoot(Sorted(board)),
     hasResult |-> stage \in Public, result |-> tallies[certificate.result].data, trusted |-> TrustedKeys]

(* verify_bundle, on the public page of a certified election.                *)
VerifyBundle(b) ==
    /\ b.config = b.configSigned
    /\ b.certificate.payload = b.certificate.signed
    /\ MerkleRoot(b.trackers) = b.certificate.payload.root
    /\ b.hasResult => b.result = b.certificate.payload.resultHash
    /\ b.certificate.payload.configHash = b.config
    /\ b.certificate.key \in b.trusted

(* tools/verify_election.py, with the keys in the bundle.                    *)
VerifyOffline(b) ==
    /\ b.config = b.configSigned
    /\ MerkleRoot(b.trackers) = b.root
    /\ b.certificate.payload = b.certificate.signed
    /\ b.certificate.payload.root = b.root
    /\ b.certificate.payload.configHash = b.config
    /\ b.hasResult => b.result = b.certificate.payload.resultHash
    /\ b.certificate.key \in b.trusted

(* manage.py verify_integrity, of the certificate that stands.               *)
VerifyIntegrity ==
    /\ certificate.payload = certificate.signed
    /\ tallies[certificate.result].data = certificate.payload.resultHash
    /\ MerkleRoot(Sorted(board)) = certificate.payload.root

(* What the results page shows as certified. *)
PublicResults == IF stage \in Public /\ certificate # NoCertificate
                 THEN {tallies[certificate.result].data} ELSE {}

(* The inclusion proof a voter gets for a tracker.                           *)
TrackerProof(tracker) ==
    LET trackers == Sorted(board)
    IN IF tracker \in board
       THEN [included |-> TRUE, root |-> MerkleRoot(trackers),
             proof |-> MerkleProof(trackers, (CHOOSE i \in DOMAIN trackers : trackers[i] = tracker) - 1)]
       ELSE [included |-> FALSE, root |-> MerkleRoot(trackers)]

(* The verification page with a tracker filled in.                           *)
VerifyPage(tracker) == [ok |-> VerifyBundle(VerificationBundle), proof |-> TrackerProof(tracker)]

-----------------------------------------------------------------------------
(* docs/PRD.md:168: every certified result verifies, on the page and offline *)
(* (results.py:389, tools/verify_election.py).                               *)
EveryCertifiedResultVerifies ==
    certificate # NoCertificate =>
        /\ VerifyOffline(VerificationBundle)
        /\ \A data \in PublicResults : data = certificate.payload.resultHash
        /\ \A p \in People : receipts[p] # 0 =>
               LET page == VerifyPage(receipts[p]) IN page.ok /\ page.proof.included

RootOf == [trackers \in SUBSET Trackers |-> MerkleRoot(Sorted(trackers))]

(* Proofs of the ballots on the board lead to its root, no other tracker     *)
(* passes by one, and no other board has that root (crypto.py:458-498).      *)
BoardProven ==
    board # {} =>
        LET root == MerkleRoot(Sorted(board))
        IN /\ \A t \in board : \A other \in Trackers :
                  VerifyMerkleProof(other, TrackerProof(t).proof, root) <=> other = t
           /\ \A other \in SUBSET Trackers : RootOf[other] = root => other = board

(* A bundle with another board, result or configuration passes neither       *)
(* verifier.                                                                 *)
AlterationsShow ==
    certificate # NoCertificate =>
        LET b == VerificationBundle
            Fails(altered) == ~VerifyBundle(altered) /\ ~VerifyOffline(altered)
        IN /\ \A other \in (SUBSET Trackers) \ {board} :
                  Fails([b EXCEPT !.trackers = Sorted(other), !.root = RootOf[other]])
           /\ stage \in Public => \A t \in board : Fails([b EXCEPT !.result.ballots = @ \ {t}])
           /\ Fails([b EXCEPT !.config.edits = @ + 1])

(* Whichever shares come together, enough of them give the key back          *)
(* (crypto.py:405-450).                                                      *)
SharesRecover ==
    polynomial.coefficients # <<>> =>
        LET share == Shares(polynomial.coefficients, polynomial.custody.shares)
        IN \A chosen \in kSubset(polynomial.custody.threshold, DOMAIN share) :
               Combine(share, chosen) = polynomial.coefficients[1]

(* A recount differs from the official result only if officials changed the  *)
(* status of voters in between (results.py:320); ballots never do.           *)
RecountsAgree ==
    recounted # NoRecount =>
        /\ recounted.data.ballots = recounted.official.ballots
        /\ ~recounted.matches => recounted.data.eligible # recounted.official.eligible

(* What the public is told can be checked: certified results verify as long  *)
(* as nobody signs a later configuration or forgets a retired key; what is   *)
(* stored verifies in any case; boards, proofs, shares and recounts agree.   *)
VerificationHolds ==
    /\ heedful => EveryCertifiedResultVerifies
    /\ certificate # NoCertificate => VerifyIntegrity
    /\ BoardProven /\ AlterationsShow /\ SharesRecover /\ RecountsAgree
=============================================================================
