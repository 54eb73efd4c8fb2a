-------------------------------- MODULE SignIn --------------------------------
(***************************************************************************)
(* How a member of staff signs in: the password and the lockout after too  *)
(* many failures, the second factor (authenticator code, recovery code, a  *)
(* code by email), the settings of that factor, and the sessions opened.   *)
(* One account, several browsers, each with one request in progress.       *)
(*                                                                         *)
(* Grain of atomicity.  A failure, a recovery code and a change of the     *)
(* authenticator read the UserSecurity row and save it later (whole, or    *)
(* the codes alone); the email code is checked under a row lock and the    *)
(* authenticator code with one atomic cache.add.  "serial" tells whether   *)
(* the requests of the account wait for each other; both are checked.      *)
(***************************************************************************)
EXTENDS Integers, FiniteSets

CONSTANTS
    Browsers,
    Codes,         \* the recovery codes there can be
    MaxFailures,   \* LOGIN_MAX_FAILURES
    LockTime,      \* LOGIN_LOCKOUT_SECONDS, in steps of 30 seconds
    LockCap,       \* 24 hours
    PendingTtl,    \* PENDING_TTL
    OtpTtl,        \* OTP_TTL
    MaxAttempts,   \* OTPChallenge.max_attempts
    FirstMethods,  \* what the account may be protected with to begin with
    MaxCount,      \* bound on the failures counted
    EndOfTime      \* bound on the clock, which starts at 1

ASSUME SignInAssumption ==
    /\ {MaxFailures, LockTime, LockCap, MaxAttempts, EndOfTime} \subseteq Nat \ {0}
    /\ {PendingTtl, OtpTtl, MaxCount} \subseteq Nat
    /\ FirstMethods \subseteq SUBSET {"totp", "recovery"}
    /\ LockTime <= LockCap \* 15 minutes, a day

(* Arithmetic that the provers have no rules for; TLC computes it.           *)
ASSUME PowersOfTwo == \A n \in 0..MaxCount : 2^n \in Nat \ {0}

VARIABLES
    serial,    \* the requests of the account do not overlap
    clock,     \* in steps of 30 seconds, the steps of the authenticator
    sec,       \* the UserSecurity row
    used,      \* cache 'totp-used': step -> when the entry expires
    otp,       \* browser -> its STAFF_STEPUP challenge
    web,       \* browser -> its session
    work,      \* browser -> what its request does next, and the row it read
    failures,  \* failures since the last success (not in the code)
    spent,     \* one-time secrets that opened a session (not in the code)
    again      \* those that opened two (not in the code)

signInVars == <<serial, clock, sec, used, otp, web, work, failures, spent, again>>

Steps == 0..(EndOfTime + 1)
Methods == {"totp", "recovery", "email"}
Secrets == ({"totp"} \X Steps) \cup ({"recovery"} \X Codes) \cup ({"email"} \X Browsers)

Security == [failed : 0..MaxCount, last : 0..EndOfTime, until : 0..(EndOfTime + LockCap),
             totp : BOOLEAN, codes : SUBSET Codes]
Session == [stage : {"anon", "pending", "in", "revoked"}, at : 0..EndOfTime, methods : SUBSET Methods]
Challenge == [state : {"none", "live", "used"}, attempts : 0..MaxAttempts, until : 0..(EndOfTime + OtpTtl)]
Anonymous == [stage |-> "anon", at |-> 0, methods |-> {}]

SignInInit ==
    /\ serial \in BOOLEAN
    /\ clock = 1
    /\ \E m \in FirstMethods :
          sec = [failed |-> 0, last |-> 0, until |-> 0, totp |-> "totp" \in m,
                 codes |-> IF "recovery" \in m THEN Codes ELSE {}]
    /\ used = [s \in Steps |-> 0]
    /\ otp = [b \in Browsers |-> [state |-> "none", attempts |-> 0, until |-> 0]]
    /\ web = [b \in Browsers |-> Anonymous]
    /\ work = [b \in Browsers |-> [op |-> "idle"]]
    /\ failures = 0 /\ spent = {} /\ again = {}

Free(b) == /\ work[b].op = "idle"
           /\ serial => \A c \in Browsers : work[c].op = "idle"
Done(b) == work' = [work EXCEPT ![b] = [op |-> "idle"]]

(* security_for: the row is read, to be saved later.                         *)
Reads(b, op) == work' = [work EXCEPT ![b] = [op |-> op, row |-> sec]]

Same == UNCHANGED <<serial, clock>>

(* complete_login, on_login: the session is opened, the failures forgotten.  *)
Opens(b, row) ==
    /\ web' = [web EXCEPT ![b] = [Anonymous EXCEPT !.stage = "in"]]
    /\ sec' = [row EXCEPT !.failed = 0, !.until = 0]
    /\ failures' = 0
Spends(secret) == /\ spent' = spent \cup {secret}
                  /\ again' = again \cup (spent \cap {secret})
Counts == failures' = IF failures < MaxCount THEN failures + 1 ELSE failures

-----------------------------------------------------------------------------
(* login_view. *)

(* UserSecurity.is_locked. *)
Locked == sec.until > clock

(* mfa_methods. *)
Enabled == {m \in Methods : \/ m = "totp" /\ sec.totp
                            \/ m = "recovery" /\ sec.codes # {}}

PasswordWrong(b) ==
    /\ Free(b) /\ web[b].stage \in {"anon", "pending"} /\ ~Locked
    /\ Reads(b, "fail") /\ Counts
    /\ UNCHANGED <<sec, used, otp, web, spent, again>> /\ Same

(* begin_login: signed in at once ...                                        *)
PasswordEnough(b) ==
    /\ Free(b) /\ web[b].stage \in {"anon", "pending"} /\ ~Locked
    /\ Enabled = {}
    /\ Opens(b, sec)
    /\ UNCHANGED <<used, otp, work, spent, again>> /\ Same

(* ... or asked for a second factor ...                                      *)
SecondFactor(b, methods) ==
    web' = [web EXCEPT ![b] = [stage |-> "pending", at |-> clock, methods |-> methods]]

PasswordThenFactor(b) ==
    /\ Free(b) /\ web[b].stage \in {"anon", "pending"} /\ ~Locked
    /\ Enabled # {}
    /\ SecondFactor(b, Enabled)
    /\ UNCHANGED <<sec, used, otp, work, failures, spent, again>> /\ Same

(* ... or, on a suspicious connection, sent a code by email (otp.issue). The *)
(* device, the failures and the fraud engine decide what is suspicious; the  *)
(* limits on codes may refuse it, and then the password was enough.          *)
PasswordThenEmail(b) ==
    /\ Free(b) /\ web[b].stage \in {"anon", "pending"} /\ ~Locked
    /\ Enabled = {} /\ otp[b].state = "none"
    /\ SecondFactor(b, {"email"})
    /\ otp' = [otp EXCEPT ![b] = [state |-> "live", attempts |-> 0, until |-> clock + OtpTtl]]
    /\ UNCHANGED <<sec, used, work, failures, spent, again>> /\ Same

(* register_failure: exponential back-off on repeated lockouts, up to a cap. *)
LockedUntil(row) ==
    LET rounds == (row.failed + 1) \div MaxFailures
        wait == LockTime * 2^(rounds - 1)
    IN IF rounds = 0 THEN row.until ELSE clock + (IF wait < LockCap THEN wait ELSE LockCap)

(* register_failure saves the whole row it read.                             *)
SaveFailure(b) ==
    /\ work[b].op = "fail"
    /\ LET row == work[b].row
       IN sec' = [row EXCEPT !.failed = IF @ < MaxCount THEN @ + 1 ELSE @,
                             !.last = clock, !.until = LockedUntil(row)]
    /\ Done(b)
    /\ UNCHANGED <<used, otp, web, failures, spent, again>> /\ Same

-----------------------------------------------------------------------------
(* The view mfa. *)

(* pending_user: the password was given less than PENDING_TTL ago.           *)
Pending(b, method) == /\ Free(b) /\ web[b].stage = "pending"
                      /\ clock - web[b].at <= PendingTtl
                      /\ method \in web[b].methods

FactorWrong(b) ==
    /\ \E m \in Methods : Pending(b, m)
    /\ Reads(b, "fail") /\ Counts
    /\ UNCHANGED <<sec, used, otp, web, spent, again>> /\ Same

(* Mutant of UsedTtl: an entry lives as long as its code is shown.           *)
ShownFor == 2

(* verify_totp: the entry in the cache lives 120 seconds.                    *)
UsedTtl == 4

(* The codes shown now and 30 seconds before and after are accepted.         *)
Totp(b, s) ==
    /\ Pending(b, "totp") /\ sec.totp
    /\ s \in (clock - 1)..(clock + 1)
    /\ IF used[s] <= clock
       THEN /\ used' = [used EXCEPT ![s] = clock + UsedTtl]
            /\ Opens(b, sec) /\ Spends(<<"totp", s>>)
            /\ UNCHANGED work
       ELSE /\ Reads(b, "fail") /\ Counts
            /\ UNCHANGED <<sec, used, web, spent, again>>
    /\ UNCHANGED otp /\ Same

(* use_recovery_code reads the codes ...                                     *)
ReadRecovery(b, c) ==
    /\ Pending(b, "recovery")
    /\ c \in sec.codes
    /\ work' = [work EXCEPT ![b] = [op |-> "recovery", row |-> sec, code |-> c]]
    /\ UNCHANGED <<sec, used, otp, web, failures, spent, again>> /\ Same

CodesLeft(b) == work[b].row.codes \ {work[b].code}

(* ... and saves those that are left.                                        *)
SaveRecovery(b) ==
    /\ work[b].op = "recovery"
    /\ Opens(b, [sec EXCEPT !.codes = CodesLeft(b)])
    /\ Spends(<<"recovery", work[b].code>>)
    /\ Done(b)
    /\ UNCHANGED <<used, otp>> /\ Same

(* otp.verify, under the lock of the challenge: a code may be tried while it *)
(* is live, young and has attempts left.                                     *)
Tries(b) == /\ Pending(b, "email")
            /\ otp[b].state = "live" /\ otp[b].until > clock /\ otp[b].attempts < MaxAttempts

EmailRight(b) ==
    /\ Tries(b)
    /\ otp' = [otp EXCEPT ![b].state = "used", ![b].attempts = @ + 1]
    /\ Opens(b, sec) /\ Spends(<<"email", b>>)
    /\ UNCHANGED <<used, work>> /\ Same

EmailWrong(b) ==
    /\ Tries(b)
    /\ otp' = [otp EXCEPT ![b].attempts = @ + 1]
    /\ Reads(b, "fail") /\ Counts
    /\ UNCHANGED <<sec, used, web, spent, again>> /\ Same

-----------------------------------------------------------------------------
(* security_action, in a session. *)
In(b) == Free(b) /\ web[b].stage = "in"

(* totp_disable reads the row, and totp_confirm when its code was accepted,  *)
(* which uses the code up as a sign-in does ...                              *)
ReadFactor(b) ==
    /\ In(b)
    /\ IF sec.totp
       THEN Reads(b, "disable") /\ UNCHANGED used
       ELSE \E s \in (clock - 1)..(clock + 1) :
               /\ used[s] <= clock
               /\ used' = [used EXCEPT ![s] = clock + UsedTtl]
               /\ Reads(b, "confirm")
    /\ UNCHANGED <<sec, otp, web, failures, spent, again>> /\ Same

(* ... and save it whole.                                                    *)
DisableTotp(b) ==
    /\ work[b].op = "disable"
    /\ sec' = [work[b].row EXCEPT !.totp = FALSE]
    /\ Done(b)
    /\ UNCHANGED <<used, otp, web, failures, spent, again>> /\ Same

(* A confirmed authenticator comes with new recovery codes.                  *)
Fresh(codes) == codes # {} /\ \A c \in codes : c \notin sec.codes /\ <<"recovery", c>> \notin spent

ConfirmTotp(b) ==
    /\ work[b].op = "confirm"
    /\ \E codes \in SUBSET Codes :
          Fresh(codes) /\ sec' = [work[b].row EXCEPT !.totp = TRUE, !.codes = codes]
    /\ Done(b)
    /\ UNCHANGED <<used, otp, web, failures, spent, again>> /\ Same

(* generate_recovery_codes writes the codes alone.                           *)
Regenerate(b) ==
    /\ In(b)
    /\ \E codes \in SUBSET Codes : Fresh(codes) /\ sec' = [sec EXCEPT !.codes = codes]
    /\ UNCHANGED <<used, otp, web, work, failures, spent, again>> /\ Same

(* sessions_revoke_others. *)
RevokeOthers(b) ==
    /\ In(b)
    /\ \E c \in Browsers \ {b} : web[c].stage = "in"
    /\ web' = [c \in Browsers |-> IF c # b /\ web[c].stage = "in"
                                  THEN [web[c] EXCEPT !.stage = "revoked"] ELSE web[c]]
    /\ UNCHANGED <<sec, used, otp, work, failures, spent, again>> /\ Same

(* logout, or a request in a revoked session (SessionSecurityMiddleware).    *)
Leave(b) ==
    /\ work[b].op = "idle" /\ web[b].stage \in {"in", "revoked"}
    /\ web' = [web EXCEPT ![b] = Anonymous]
    /\ UNCHANGED <<sec, used, otp, work, failures, spent, again>> /\ Same

TimePasses ==
    /\ clock < EndOfTime
    /\ clock' = clock + 1
    /\ UNCHANGED <<serial, sec, used, otp, web, work, failures, spent, again>>

Step(b) ==
    \/ PasswordWrong(b) \/ PasswordEnough(b) \/ PasswordThenFactor(b) \/ PasswordThenEmail(b)
    \/ SaveFailure(b) \/ FactorWrong(b)
    \/ \E s \in Steps : Totp(b, s)
    \/ \E c \in Codes : ReadRecovery(b, c)
    \/ SaveRecovery(b) \/ EmailRight(b) \/ EmailWrong(b)
    \/ ReadFactor(b) \/ DisableTotp(b) \/ ConfirmTotp(b) \/ Regenerate(b)
    \/ RevokeOthers(b) \/ Leave(b)

SignInNext == TimePasses \/ \E b \in Browsers : Step(b)

SignInSpec == SignInInit /\ [][SignInNext]_signInVars

-----------------------------------------------------------------------------
(* Correctness. *)

SignInTypeOK ==
    /\ serial \in BOOLEAN /\ clock \in 1..EndOfTime
    /\ sec \in Security
    /\ used \in [Steps -> 0..(EndOfTime + UsedTtl)]
    /\ otp \in [Browsers -> Challenge]
    /\ web \in [Browsers -> Session]
    /\ DOMAIN work = Browsers
    /\ failures \in 0..MaxCount
    /\ spent \subseteq Secrets /\ again \subseteq spent

(* verify_totp, otp.verify, use_recovery_code: a one-time secret opens one   *)
(* session. An authenticator code or a code by email does so however the     *)
(* requests interleave and the clock moves; a recovery code does when the    *)
(* requests do not overlap.                                                  *)
OneTimeSecrets == again = {} \/ (~serial /\ again \subseteq {"recovery"} \X Codes)

(* register_failure: when requests do not overlap no failure is lost: after  *)
(* LOGIN_MAX_FAILURES failures in a row the account is locked from the last  *)
(* one on for the lock time or longer, whichever factor failed.              *)
LockIsKept ==
    serial /\ failures >= MaxFailures /\ (\A b \in Browsers : work[b].op = "idle")
        => sec.until >= sec.last + LockTime

(* Both: one secret, one session; and failures that nobody loses.            *)
SignInHolds == OneTimeSecrets /\ LockIsKept
=============================================================================
