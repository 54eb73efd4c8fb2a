------------------------------- MODULE MCStaff -------------------------------
(* The small instances of Approvals, SignIn and Fraud that TLC checks. They  *)
(* share no state, so they are checked side by side, not interleaved: "part" *)
(* tells which of them moves.                                                *)
EXTENDS Approvals, SignIn, Fraud, TLC

CONSTANTS o1, o2, o3, r1, r2, d1, b1, b2, c1, p1, p2, g1, g2, a1, a2, device, payer, card

VARIABLE part

MCOfficials == {o1, o2, o3}
MCApprovers == {o2, o3}
MCRequests == {r1, r2}
MCDisputes == {d1}

MCBrowsers == {b1, b2}
MCCodes == {c1}
MCMethods == {{}, {"totp", "recovery"}}

MCDeals == {p1, p2}
MCTenants == {g1, g2}
MCTenant == p1 :> g1 @@ p2 :> g2
MCWorksFor == a1 :> g1 @@ a2 :> Platform
MCDevice == p1 :> device @@ p2 :> device
MCEmail == p1 :> payer @@ p2 :> payer
MCCard == p1 :> card @@ p2 :> card

MCInit ==
    /\ Init /\ SignInInit /\ FraudInit
    /\ part \in {"approvals", "signin", "fraud"}
    /\ part # "approvals" => ~overlap /\ ~dual
    /\ part # "signin" => serial /\ ~sec.totp

(* Overlapping handlers are about one request under dual control; two        *)
(* requests, both for more time, are made in turn. Casework and freezes are  *)
(* of interest for the requests about them.                                  *)
ApprovalsBound ==
    /\ overlap => dual
    /\ asked[r2].status # "NONE"
         => ~overlap /\ asked[r1].status # "NONE" /\ {asked[r1].action, asked[r2].action} = {"extend"}
    /\ {asked[r1].by, asked[r2].by} # MCApprovers
    /\ (event.hold \/ disputes # {}) => ~overlap /\ asked[r1].action = "release"
    /\ event.frozen \/ asked[r1].action = "unfreeze"

(* Two one-time secrets are enough to use one twice, a step of the           *)
(* authenticator spent on enrolling among them; failures are counted where   *)
(* requests do not overlap.                                                  *)
SignInBound ==
    LET gone == Cardinality({s \in Steps : used[s] # 0}) + Cardinality(spent \ ({"totp"} \X Steps))
    IN IF serial THEN gone <= 1 ELSE gone <= 2 /\ failures = 0

(* Entries list the device, and p1's payer with it, for one scope. Analysts  *)
(* overlap about one payment; of two payments each has an alert, and one is  *)
(* settled, or p1 is charged back before.                                    *)
FraudBound ==
    LET busy == {a \in Analysts : reviewing[a] # NotReviewing}
        Settled(d) == deal[d].status \notin {"none", "PENDING"}
        about == {alerts[i].on : i \in DOMAIN alerts}
        Charged(d) == deal[d].status \in {"DISPUTED", "REVERSED"}
    IN /\ listed # {} =>
             /\ busy = {} /\ attempts[device] <= 1 /\ ~Charged(p1) /\ ~Charged(p2)
             /\ Len(alerts) = 2 => alerts[1].status = "CONFIRMED" /\ alerts[1].on # alerts[2].on
             /\ \E s \in Tenants \cup {Platform} : /\ [value |-> device, scope |-> s] \in listed
                                                  /\ listed \subseteq {[value |-> v, scope |-> s] : v \in {device, payer}}
       /\ busy # {} => attempts[device] <= 1
       /\ Cardinality(busy) = 2 => ~Charged(p1) /\ ~Charged(p2)
       /\ about = MCDeals => busy = {}
       /\ NoDeal \notin {deal[p1], deal[p2]} => about = MCDeals
       /\ Settled(p1) /\ Settled(p2) => deal[p1].status = "DISPUTED"

MCNext ==
    /\ UNCHANGED part
    /\ \/ part = "approvals" /\ Next /\ ApprovalsBound' /\ UNCHANGED <<signInVars, fraudVars>>
       \/ part = "signin" /\ SignInNext /\ SignInBound' /\ UNCHANGED <<vars, fraudVars>>
       \/ part = "fraud" /\ FraudNext /\ FraudBound' /\ UNCHANGED <<vars, signInVars>>

MCSpec == MCInit /\ [][MCNext]_<<part, vars, signInVars, fraudVars>>

(* The approvers may be exchanged, and the browsers.                         *)
MCSymmetry == Permutations(MCApprovers) \cup Permutations(MCBrowsers)
=============================================================================
