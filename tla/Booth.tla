-------------------------------- MODULE Booth ---------------------------------
(***************************************************************************)
(* A voter at a browser: signing in to an election by one of its methods,  *)
(* the second factor, the ballot in progress and its confirmation.  The    *)
(* browser is used by several voters, one after the other or mixed up, and *)
(* for several elections at a time; all of it lives in one session.        *)
(*                                                                         *)
(* Grain of atomicity.  The requests of one browser follow each other, so  *)
(* each is one action; what other devices do comes between them.  Requests *)
(* that overlap on the voter row are module Casting's subject.             *)
(***************************************************************************)
EXTENDS Integers, Sequences

CONSTANTS
    Elections,
    Covered,       \* election -> those whose number begins with its number
    Voters,
    Nobody,
    Home,          \* voter -> the election it is on the roll of
    Contacts,      \* voter -> subset of {"EMAIL", "SMS"}
    SignInMethods, \* election -> auth_methods
    TwoFactor,     \* elections with require_second_factor
    SelfService,   \* elections with allow_self_registration
    Offices,       \* election -> positions on its ballot
    Rules,         \* active EligibilityRules: [office, kind, holds]
    WholeElection, \* the office of a rule about the whole election
    SessionTtl,    \* SESSION_TTL_SECONDS, in steps of ten minutes
    OtpLife,       \* OTP_TTL
    PassTtl,       \* AUTHORIZATION_TTL
    MaxGuesses,    \* max_attempts
    MaxChallenges, \* bound on the codes sent
    MaxPasses,     \* bound on the authorizations issued
    MaxForms,      \* bound on the review forms shown
    LastHour       \* bound on the clock

ASSUME BoothAssumption ==
    /\ Nobody \notin Voters \cup Elections /\ Home \in [Voters -> Elections]
    /\ \A e \in Elections : e \in Covered[e] /\ Covered[e] \subseteq Elections
    /\ {SessionTtl, OtpLife, PassTtl, MaxGuesses, MaxForms, LastHour} \subseteq Nat

VARIABLES
    hour,      \* in steps of ten minutes
    voter,     \* the roll: voter -> status and verified contacts
    codes,     \* the OTPChallenge rows, in the order of creation
    passes,    \* the VoteAuthorization rows
    signed,    \* session 'fv_voter': election -> who signed in, how and when
    slot,      \* session 'fv_voter_otp'
    progress,  \* session 'fv_ballot_...': election -> token, selections, form
    forms,     \* review forms shown so far
    casts      \* ballots cast from this browser (not in the code)

boothVars == <<hour, voter, codes, passes, signed, slot, progress, forms, casts>>

Channels == {"EMAIL", "SMS"}
CodeMethods == {"EMAIL_OTP", "SMS_OTP"}
CodeBy == [EMAIL_OTP |-> "EMAIL", SMS_OTP |-> "SMS"]
OnRoll == [status : {"ABSENT", "ELIGIBLE", "VERIFIED", "VOTED"}, verified : SUBSET Channels]
NotSigned == [voter |-> Nobody]
NoSlot == [election |-> Nobody]
NoBallot == [token |-> 0, style |-> {}, form |-> 0]

BoothInit ==
    /\ hour = 0
    /\ voter \in [Voters -> {[status |-> "ELIGIBLE", verified |-> {}], [status |-> "ABSENT", verified |-> {}]}]
    /\ \A v \in Voters : voter[v].status = "ABSENT" => Home[v] \in SelfService /\ "EMAIL" \in Contacts[v]
    /\ codes = <<>> /\ passes = <<>>
    /\ signed = [e \in Elections |-> NotSigned]
    /\ slot = NoSlot
    /\ progress = [e \in Elections |-> NoBallot]
    /\ forms = 0 /\ casts = {}

MayCast(v) == voter[v].status \in {"ELIGIBLE", "VERIFIED"}

-----------------------------------------------------------------------------
(* Codes by email or SMS. *)

(* start_otp, otp.issue: the next code, for this purpose.                    *)
Sends(v, channel, purpose) ==
    /\ channel \in Contacts[v] /\ Len(codes) < MaxChallenges
    /\ codes' = Append(codes, [voter |-> v, purpose |-> purpose, channel |-> channel,
                               state |-> "live", guesses |-> 0, at |-> hour])

(* No address on file, or a code was sent to the voter just now.             *)
RefusesToSend(v, channel, purpose) ==
    /\ \/ channel \notin Contacts[v]
       \/ \E i \in DOMAIN codes : codes[i].voter = v /\ codes[i].purpose = purpose /\ codes[i].at = hour
    /\ UNCHANGED codes

Awaits(e, v, channel, purpose) ==
    slot' = [election |-> e, voter |-> v, code |-> Len(codes'), channel |-> channel, purpose |-> purpose]

(* otp.verify takes the code of the slot while it is live.                   *)
Takes(c) == codes[c].state = "live" /\ hour < codes[c].at + OtpLife /\ codes[c].guesses < MaxGuesses

-----------------------------------------------------------------------------
(* The session. *)

(* logout_voter: what is kept under a key that begins with the election's    *)
(* number goes, that of election 10 with that of election 1.                 *)
LogoutVoter(e) ==
    /\ signed' = [signed EXCEPT ![e] = NotSigned]
    /\ progress' = [f \in Elections |-> IF f \in Covered[e] THEN NoBallot ELSE progress[f]]

NeedsSecondFactor(e, method, second) == e \in TwoFactor /\ ~second /\ method \notin CodeMethods

(* login_voter. *)
LoginVoter(e, v, method, second) ==
    signed' = [signed EXCEPT ![e] = [voter |-> v, method |-> method, mfa |-> second, at |-> hour]]

(* Mutant of NoCodeSent: the voter stays signed in, waiting for a code.      *)
StaysSignedIn(e, v, method) == LoginVoter(e, v, method, FALSE) /\ UNCHANGED progress

(* ... a second factor that cannot be asked for ends the sign-in.            *)
NoCodeSent(e, v, method) == LogoutVoter(e)

(* _after_primary_auth. *)
AfterPrimaryAuth(e, v, method) ==
    IF ~NeedsSecondFactor(e, method, FALSE)
    THEN LoginVoter(e, v, method, FALSE) /\ UNCHANGED <<codes, slot, progress>>
    ELSE LET channel == IF "EMAIL" \in Contacts[v] THEN "EMAIL" ELSE "SMS" IN
         \/ /\ Sends(v, channel, "VOTER_2FA") /\ Awaits(e, v, channel, "VOTER_2FA")
            /\ LoginVoter(e, v, method, FALSE) /\ UNCHANGED progress
         \/ /\ RefusesToSend(v, channel, "VOTER_2FA") /\ NoCodeSent(e, v, method)
            /\ UNCHANGED slot

(* current_voter, _require_voter. *)
Present(e) ==
    LET s == signed[e] IN
    /\ s # NotSigned /\ hour - s.at <= SessionTtl
    /\ ~NeedsSecondFactor(e, s.method, s.mfa)

-----------------------------------------------------------------------------
(* vote_start. *)

(* By access code, directory or account: _check_status lets in who may vote. *)
SignsIn(e, v, method) ==
    /\ method \in SignInMethods[e] \ (CodeMethods \cup {"SSO"})
    /\ Home[v] = e /\ MayCast(v)
    /\ AfterPrimaryAuth(e, v, method)
    /\ UNCHANGED <<hour, voter, passes, forms, casts>>

(* voter_from_sso: the address the provider verified is verified from now on *)
(* whether or not the voter is let in; self-registration as Registers below. *)
SignsInBySso(e, v) ==
    /\ "SSO" \in SignInMethods[e]
    /\ Home[v] = e /\ voter[v].status # "ABSENT" /\ "EMAIL" \in Contacts[v]
    /\ voter' = [voter EXCEPT ![v].verified = @ \cup {"EMAIL"}]
    /\ IF MayCast(v) THEN AfterPrimaryAuth(e, v, "SSO")
       ELSE UNCHANGED <<codes, signed, slot, progress>>
    /\ UNCHANGED <<hour, passes, forms, casts>>

(* A code is asked for; who cannot vote is told the same and sent nothing.   *)
AsksForCode(e, v, method) ==
    /\ method \in SignInMethods[e] \cap CodeMethods /\ Home[v] = e
    /\ LET channel == CodeBy[method] IN
       IF MayCast(v)
       THEN \/ Sends(v, channel, "VOTER_LOGIN") /\ Awaits(e, v, channel, "VOTER_LOGIN")
            \/ RefusesToSend(v, channel, "VOTER_LOGIN") /\ UNCHANGED slot
       ELSE /\ slot' = [election |-> e, voter |-> Nobody, code |-> 0, channel |-> channel,
                        purpose |-> "VOTER_LOGIN"]
            /\ UNCHANGED codes
    /\ UNCHANGED <<hour, voter, passes, signed, progress, forms, casts>>

-----------------------------------------------------------------------------
(* vote_otp. *)
AtCode(e) == slot.election = e /\ slot.voter # Nobody

Resends(e) ==
    /\ AtCode(e)
    /\ Sends(slot.voter, slot.channel, slot.purpose)
    /\ Awaits(e, slot.voter, slot.channel, slot.purpose)
    /\ UNCHANGED <<hour, voter, passes, signed, progress, forms, casts>>

GuessesWrong(e) ==
    /\ AtCode(e) /\ Takes(slot.code)
    /\ codes' = [codes EXCEPT ![slot.code].guesses = @ + 1]
    /\ UNCHANGED <<hour, voter, passes, signed, slot, progress, forms, casts>>

(* mark_second_factor: of whoever is signed in; the session starts anew.     *)
MarkSecondFactor(e) ==
    signed' = [signed EXCEPT ![e] = IF @ = NotSigned THEN @ ELSE [@ EXCEPT !.mfa = TRUE, !.at = hour]]

(* verify_otp, then on with the sign-in.                                     *)
EntersCode(e) ==
    /\ AtCode(e) /\ Takes(slot.code)
    /\ LET v == slot.voter IN
       /\ codes' = [codes EXCEPT ![slot.code].state = "used"]
       /\ voter' = [voter EXCEPT ![v].verified = @ \cup {slot.channel},
                                 ![v].status = IF @ = "ELIGIBLE" THEN "VERIFIED" ELSE @]
       /\ slot' = NoSlot
       /\ IF slot.purpose = "VOTER_2FA" THEN MarkSecondFactor(e)
          ELSE LoginVoter(e, v, IF slot.channel = "EMAIL" THEN "EMAIL_OTP" ELSE "SMS_OTP", TRUE)
    /\ UNCHANGED <<hour, passes, progress, forms, casts>>

(* register, self_register: the address is proved first, by a code of its    *)
(* own kind, and the voter enters the roll signed in.                        *)
Registers(e, v) ==
    /\ Home[v] = e /\ e \in SelfService /\ voter[v].status = "ABSENT"
    /\ Len(codes) < MaxChallenges
    /\ codes' = Append(codes, [voter |-> v, purpose |-> "VOTER_REGISTRATION", channel |-> "EMAIL",
                               state |-> "used", guesses |-> 0, at |-> hour])
    /\ voter' = [voter EXCEPT ![v] = [status |-> "VERIFIED", verified |-> {"EMAIL"}]]
    /\ LoginVoter(e, v, "EMAIL_OTP", TRUE)
    /\ UNCHANGED <<hour, passes, slot, progress, forms, casts>>

-----------------------------------------------------------------------------
(* Eligibility. *)

(* rule_passes: whether an address is verified changes, the constituency and *)
(* the attributes stay as they are.                                          *)
RulePasses(rule, v) ==
    CASE rule.kind = "VERIFIED_EMAIL" -> "EMAIL" \in voter[v].verified
      [] rule.kind = "VERIFIED_PHONE" -> "SMS" \in voter[v].verified
      [] OTHER -> v \in rule.holds

Passes(office, v) == \A rule \in Rules : rule.office = office => RulePasses(rule, v)

(* ballot_style. *)
BallotStyle(e, v) == IF Passes(WholeElection, v) THEN {o \in Offices[e] : Passes(o, v)} ELSE {}

-----------------------------------------------------------------------------
(* vote_ballot. *)

LiveToken(t, v) == t # 0 /\ passes[t].voter = v /\ passes[t].status = "ISSUED" /\ hour < passes[t].until

(* _authorization: the token of the session, or a new one.                   *)
PassFor(e, v, token) ==
    IF LiveToken(progress[e].token, v)
    THEN token = progress[e].token /\ UNCHANGED passes
    ELSE /\ MayCast(v) /\ BallotStyle(e, v) # {} /\ Len(passes) < MaxPasses
         /\ token = Len(passes) + 1
         /\ passes' = Append([i \in DOMAIN passes |->
                                IF passes[i].voter = v /\ passes[i].status = "ISSUED"
                                THEN [passes[i] EXCEPT !.status = "REVOKED"] ELSE passes[i]],
                             [voter |-> v, status |-> "ISSUED", style |-> BallotStyle(e, v),
                              until |-> hour + PassTtl])

(* The page shows the ballot ...                                             *)
ShowsBallot(e) ==
    /\ Present(e)
    /\ \E token \in 1..MaxPasses :
          PassFor(e, signed[e].voter, token) /\ progress' = [progress EXCEPT ![e].token = token]
    /\ UNCHANGED <<hour, voter, codes, signed, slot, forms, casts>>

(* ... and takes valid selections, for the form that asks to confirm them.   *)
Selects(e) ==
    /\ Present(e) /\ forms < MaxForms
    /\ \E token \in 1..MaxPasses :
          /\ PassFor(e, signed[e].voter, token)
          /\ progress' = [progress EXCEPT ![e] = [token |-> token, form |-> forms + 1,
                                                  style |-> passes'[token].style]]
    /\ forms' = forms + 1
    /\ UNCHANGED <<hour, voter, codes, signed, slot, casts>>

(* Who has voted or may vote on nothing is signed out.                       *)
TurnsAway(e) ==
    /\ Present(e)
    /\ LET v == signed[e].voter
       IN ~LiveToken(progress[e].token, v) /\ (~MayCast(v) \/ BallotStyle(e, v) = {})
    /\ LogoutVoter(e)
    /\ UNCHANGED <<hour, voter, codes, passes, slot, forms, casts>>

-----------------------------------------------------------------------------
(* vote_review: the form shown last is confirmed, not one of an older tab.   *)
Shown(e, form) == progress[e].form = form

(* cast_ballot: one ballot for the token, if validate_ballot finds it within  *)
(* the positions of the token; its voter is signed out.                      *)
ConfirmsForm(e, form) ==
    LET s == signed[e]  b == progress[e]  t == b.token IN
    /\ Present(e) /\ b.form # 0 /\ LiveToken(t, s.voter) /\ MayCast(s.voter)
    /\ Shown(e, form)
    /\ b.style \subseteq passes[t].style
    /\ passes' = [passes EXCEPT ![t].status = "CONSUMED"]
    /\ voter' = [voter EXCEPT ![s.voter].status = "VOTED"]
    /\ casts' = casts \cup {[voter |-> passes[t].voter, signed |-> s.voter, form |-> form,
                             selected |-> b.form, style |-> passes[t].style]}
    /\ LogoutVoter(e)
    /\ UNCHANGED <<hour, codes, slot, forms>>

(* vote_logout. *)
LeavesBooth(e) ==
    /\ signed[e] # NotSigned
    /\ LogoutVoter(e)
    /\ UNCHANGED <<hour, voter, codes, passes, slot, forms, casts>>

(* The voter votes from another device.                                      *)
VotesElsewhere(v) ==
    /\ MayCast(v) /\ BallotStyle(Home[v], v) # {}
    /\ voter' = [voter EXCEPT ![v].status = "VOTED"]
    /\ passes' = [i \in DOMAIN passes |-> IF passes[i].voter = v /\ passes[i].status = "ISSUED"
                                          THEN [passes[i] EXCEPT !.status = "REVOKED"] ELSE passes[i]]
    /\ UNCHANGED <<hour, codes, signed, slot, progress, forms, casts>>

HourPasses ==
    /\ hour < LastHour /\ hour' = hour + 1
    /\ UNCHANGED <<voter, codes, passes, signed, slot, progress, forms, casts>>

BoothNext ==
    \/ HourPasses
    \/ \E v \in Voters : VotesElsewhere(v)
    \/ \E e \in Elections :
          \/ \E v \in Voters, m \in SignInMethods[e] : SignsIn(e, v, m) \/ AsksForCode(e, v, m)
          \/ \E v \in Voters : SignsInBySso(e, v) \/ Registers(e, v)
          \/ Resends(e) \/ GuessesWrong(e) \/ EntersCode(e)
          \/ ShowsBallot(e) \/ Selects(e) \/ TurnsAway(e)
          \/ \E form \in 1..MaxForms : ConfirmsForm(e, form)
          \/ LeavesBooth(e)

BoothSpec == BoothInit /\ [][BoothNext]_boothVars

-----------------------------------------------------------------------------
(* Correctness. *)

BoothTypeOK ==
    /\ hour \in 0..LastHour /\ forms \in 0..MaxForms
    /\ voter \in [Voters -> OnRoll]
    /\ \A e \in Elections : signed[e] = NotSigned \/ signed[e].voter \in Voters

(* needs_second_factor: where two factors are required, nobody is issued a   *)
(* ballot without having entered a code sent to them - although the session  *)
(* keeps the sign-in and the code awaited apart, and voters take turns.      *)
SecondFactorIsTheirs ==
    \A i \in DOMAIN passes :
       Home[passes[i].voter] \in TwoFactor =>
          \E c \in DOMAIN codes : codes[c].voter = passes[i].voter /\ codes[c].state = "used"

(* vote_review, cast_ballot: a ballot is cast for the voter signed in, with  *)
(* the selections of the form that was confirmed, on positions the voter is  *)
(* eligible for, and by nobody twice.                                        *)
ConfirmedIsCast ==
    /\ \A b \in casts : /\ b.voter = b.signed /\ b.form = b.selected
                        /\ b.style \subseteq BallotStyle(Home[b.voter], b.voter)
    /\ \A b, c \in casts : b.voter = c.voter => b = c

(* logout_voter: where nobody is signed in, no selections are left behind.   *)
NothingLeftBehind == \A e \in Elections : signed[e] = NotSigned => progress[e] = NoBallot

(* The three of them.                                                        *)
BoothHolds == SecondFactorIsTheirs /\ ConfirmedIsCast /\ NothingLeftBehind
=============================================================================
