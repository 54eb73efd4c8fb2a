# A verification project for FlexyVotes

FlexyVotes runs institutional (secret-ballot) and paid (pay-per-vote) elections
on Django, PostgreSQL at READ COMMITTED, Celery and Redis. These modules model
the parts of it whose correctness depends on the order in which web requests,
job workers, the scheduler, the payment gateway and the clock take their steps,
and the rules by which ballots are counted. TLC checks them on small instances;
TLAPS proves most of what the runs check for every instance.

Paths below are relative to the repository (`src/` here).

| Module | What it is | Proofs |
|---|---|---|
| `Casting` | the ballot box: roll, tokens, ballots and everything that writes to them while voting is open | `Casting_proofs` |
| `OneVote` | what the ballot box promises, abstractly; `Casting` implements it | `Casting_proofs` |
| `Roll` | who gets on the roll: imports, registration, letters, the tree of units | `Casting_proofs` |
| `Booth` | a voter at a browser: sign-in, second factor, ballot in progress | `Office_proofs` |
| `Lifecycle` | one election from draft to archive: officials, edits, freezes, the scheduler | `Lifecycle_proofs` |
| `Nominations` | positions, candidates and their portal; the paper that was signed | `Lifecycle_proofs` |
| `Count` | what a ballot may hold and how every method counts it | `Office_proofs` |
| `Results` | tallies, trustees' shares, review, certification, decertification | `Results_proofs` |
| `Bulletin` | what the public checks: signed configuration, board, certificate, recount | `Results_proofs` |
| `Approvals` | dual control of exceptional actions, legal hold, disputes | `Approvals_proofs` |
| `Payments` | one purchase of votes, its credit, chargeback and refunds | `Payments_proofs` |
| `PaidVotes` | what a purchase promises, abstractly; `Payments` implements it | `Payments_proofs` |
| `Limits` | the caps per payer and the discount code | `Office_proofs` |
| `Fraud` | the risk engine, holds, alerts and their review | `Approvals_proofs` |
| `Books` | reconciliation with the gateway, revenue | `Books_proofs` |
| `Billing` | an organization's subscription, renewals, invoices | `Books_proofs` |
| `Tickets` | tickets of one type: sold, confirmed, admitted, voted with | `Office_proofs` |
| `SignIn` | a staff account: password, lock-out, second factors, sessions | `Approvals_proofs` |
| `Roles` | who may do what; the team page that grants and revokes roles | `Office_proofs` |
| `DataKeys` | encryption at rest: data keys, their wrapping, rotation | `Office_proofs` |
| `AuditChain` | the hash-chained audit log and its verification | `VoteRequest_proofs` |
| `VoteRequest` | a vote over the API: idempotency key, casting transaction with its audit entry, confirmation mail (composes `AuditChain`) | `VoteRequest_proofs` |
| `RecordedVotes` | what who posts a vote is promised, abstractly; `VoteRequest` implements it | `VoteRequest_proofs` |
| `MC*` | model values, settings, bounds and symmetry for TLC | |

Each `.cfg` is one run; `PROJECT.json` lists the runs, the source lines every
definition stands for, the hazards and the theorems.

## 1. Inventory

What each part of the system keeps, does and promises, and why it is hard.

**Ballot casting** (`elections/casting.py`, `voters.py`, `voter_auth.py`,
`core/tasks.py`). State: `Voter` rows (status, access code), `VoteAuthorization`
rows (token digest, status, expiry), `Ballot` rows that name neither voter nor
token. Operations: sign in (issue a token, revoking earlier ones), cast, re-send
or reset a code, set a voter's status, import, remove, clear, expire. Two locks
(authorization row, then voter row) and one partial unique index carry the
one-vote rule; the election row is read without a lock, and several roll
operations check before they lock or write back rows they loaded. Correct when:
at most one ballot per person, ballot and consumption always together, one
usable token per person, none for a barred voter.

**The voter roll** (`elections/voters.py`, the roll and unit pages of the
console). State: voters, codes, the organization's tree of constituencies.
Operations: imports with and without a header, self-registration, letters,
resets, units created, moved and deleted. Correct when: a unit's path follows its
parents, one row per address, the plan's limit is kept, turnout adds up, no letter
carries a dead code. Hard: an import works on a roll it loaded.

**Voting booth and eligibility** (`elections/views_voter.py`, `voter_auth.py`,
`eligibility.py`). State: one browser session with the sign-ins, the code awaited
and the ballots in progress of several elections; `OTPChallenge` rows. Correct
when: two factors are two factors of the same person, and what is cast is what
was confirmed. Hard: voters share browsers, and the session's parts are kept
apart.

**Election lifecycle** (`elections/lifecycle.py`, `tasks.py`, the console's
settings). State: the `Event` row, an `ElectionKey`, signed
`ElectionConfigSnapshot`s. Operations: 16 named transitions under the row lock,
edits judged by `edit_policy`, freeze and unfreeze, and `tick`, every minute and
on every page view. Hard: edits and ticks work on rows loaded earlier and save
them whole; the scheduler may be down for the whole window. Correct when: what is
put to the vote is what was approved, by someone else than its author; a live
election has its key; nothing goes back to draft after it opened; windows that
passed end.

**Positions, candidates and the portal** (`voting/views.py`, `elections/views_portal.py`,
`api/`). State: `Category` and `Candidate` rows, invitations, profiles. Correct
when: an approved paper stays as signed, rulings stand, no vote or payment
disappears with what it hangs on. Hard: the portal and the console save the same
row whole.

**Ballot rules and tally algorithms** (`elections/ballot.py`, `tally.py`). Pure:
plurality, approval, score, referendum, ranked (instant run-off, single
transferable vote), ties, lots by a seed. Hard at ties, thresholds, rounding.

**Results and key custody** (`elections/results.py`, `keys.py`). State:
`ElectionResult`, `ResultCertification`, `TrusteeShare`. Operations: automatic and
manual tally, recount, review, certify, reject, decertify, publish; trustees
collect and submit shares. Hard: every service function reads and checks before
its transaction. Correct when: a certified election has one live certification
of an approved result, and shares that suffice do recover the key.

**Verification** (`elections/integrity.py`, `core/crypto.py`,
`tools/verify_election.py`). State: snapshots, the board, the certificate.
Correct when: what was certified verifies on the page, offline and in the
integrity command, and what was altered does not.

**Approvals, disputes, incidents, evidence** (`elections/integrity.py`). State:
`ApprovalRequest`, `Dispute`, legal hold. Hard: `decide` and its executors work
on unlocked rows and in separate transactions. Correct when: two people, one
execution, an outcome that is told truthfully.

**Payments** (`payments/service.py`, `models.py`, `tasks.py`, webhooks in
`payments/views.py`). State: `Payment`, `VoteTransaction`, `Refund`,
`WebhookEvent`. Operations: checkout, return, webhooks of six kinds, hold and
release, refunds with approval, chargebacks, expiry, reconciliation. Hard: the
gateway repeats, delays and reorders messages; some handlers lock the row,
others do not. Correct when: one credit per payment, only for money taken, none
lost, refunds sent once and only after an approval.

**Prices, limits, discounts** (`payments/service.py: quote`), **reconciliation
and revenue** (`payments/service.py`), **billing** (`billing/service.py`),
**tickets and USSD** (`voting/views.py`). Hard: limits, seats and counters are
read before they are written; a run works off a list as old as its start; tasks
die between an invoice and the row it is for.

**Fraud engine** (`fraud/engine.py`, `service.py`). State: `FraudEvent`s,
`BlocklistEntry`s, velocity counters. Verdict at checkout and settlement, review.
Hard: assessment and payment are two transactions, analysts act on loaded rows.

**Staff accounts** (`core/auth.py`, `otp.py`). State: failure counter and lock-out,
TOTP secret, recovery codes, one-time codes, sessions. Hard: counters and codes
are changed on loaded rows; replays. **Roles and tenancy** (`core/rbac.py`,
`tenancy.py`). **Cryptography** (`core/crypto.py`, `fields.py`,
`management/commands/keys.py`): data keys, rotation in steps that may die.

**Idempotency keys, audit log, notification outbox** (`core/idempotency.py`,
`core/audit.py`, `notifications/service.py`, `tasks.py`, `elections/tasks.py`).
Hard: crashes between commit and response, between commit and job, between
sending and recording it. Correct when: a receipt is the asker's own, ballot and
audit entry stay together, nobody is told of a ballot that is not there, one
confirmation goes out and none is stuck.

**API, console, portal, public pages** (`api/`, `*/views*.py`): handlers around the
services above. **Deployment** (`deploy/`, `tools/`): configuration and I/O.

How they interact: views call services; services lock rows, append to the audit
log inside their transaction and send jobs after the commit; beat starts the
tick (60 s), reconciliation (15 min), expiry (10 min), the outbox sweep
(10 min), chain verification (6 h), housekeeping (daily). Jobs are acknowledged
late, so a job whose worker dies comes again. `Lifecycle` decides when `Casting`
accepts ballots and when `Results` may tally; `Casting` feeds `AuditChain` and
the outbox, as `VoteRequest` composes them. `Approvals` releases what `Lifecycle`
executes.

## 2. The modules

In all of them an action is one committed statement or `atomic()` block, because
requests run without `ATOMIC_REQUESTS`; a handler that takes several is in several
steps, between which it keeps the rows it has loaded. Many modules have a setting,
chosen in the initial state, that tells whether handlers may overlap (`overlap`,
`serial`, `calm`, `oneByOne`, `orderly`, `queued`, `rough`): some properties are
claimed of both, some only of handlers that wait for each other, and the
overlapping counterexamples are in section 4.

### Casting, OneVote

*State.* `status` (the election's), `roll` (person -> status and whether a
plaintext code is stored), `auth` (token -> row), `ballots` (token -> ballot
rows its casts inserted: bookkeeping of the model, as the code stores no link),
`counted` (the official result), `req` (handler -> where it is, and what it
read). *Actions.* `_cast` is `CastLock` (authorization locked and checked,
election read) and `CastCommit` (voter locked and checked, ballot inserted,
authorization consumed, voter marked: one commit). A statement that would touch a
row a cast has locked waits for it. `set_status`, `reset_credential`,
`import_voters`, `remove_voter`, `clear_unvoted` and `verify_otp` are each a read
and their later writes. `Abandon` is any failure: the open transaction is undone,
what was committed stays. *OneVote* knows neither tokens nor statuses: one step
adds a person to those who voted and a ballot to the box, and nothing leaves.
`Casting` implements it by taking the owners of consumed tokens and the tokens
with ballots.

*Properties.* `OneBallotPerVoter`, the refinement `ImplementsOneVote` and (proved)
`BoxMatchesRegister` (ballots = consumed tokens) hold under a frozen roll, which
is what opening an election sets. With an editable roll the weaker
`BoxCoversRegister` holds. `OneLiveToken`: one usable token per person, however
many devices sign in. `NoBallotFromBarredVoter`: no step adds a ballot of someone
whose committed status bars them. `ClosesAtTheEnd`, `UnusedTokensExpire`:
liveness of the periodic jobs although they wait for locks.

### Roll, Booth

`Roll`: an import is load and write-back, a registration is look-up and insert, a
round of letters works off loaded rows; units form a tree of materialized paths,
moved with all their descendants. `RollHolds`: paths follow parents, always;
where handlers do not overlap, one row per address, turnout that adds up, no
dead letter, the plan's limit kept.

`Booth`: one browser, several voters, several elections, one session. The sign-ins
(`signed`), the code awaited (`slot`) and the ballots (`progress`) are separate
keys of it, and logging out of one election wipes those its number is a prefix of
(`Covered`), as the code does. Steps elsewhere (another device votes, revokes) are
actions of their own. `BoothHolds`: `SecondFactorIsTheirs`, `ConfirmedIsCast`,
`NothingLeftBehind`.

### Lifecycle, Nominations

`Lifecycle`, *state*: `event` (the row, with mode, status, window, who submitted
and reviewed, frozen scopes and the version of the settings), `ballot` (version of
positions and candidates, which live in tables of their own), `key`, `signed`
(versions at the approval), `asked` (pending requests), `req`. *Actions*: one per
entry of `ACTIONS`: `transition` re-reads the row under its lock. An edit is load
and judge (`EditStart`), approval taken back (`EditReset`, an unconditional
update), save of the whole loaded row (`EditSave`). `tick` is read, then open
and/or close. *Properties.* Serial: `ApprovedIsUnchanged`, `NoWayBack`, `CatchUp`.
Two overlapping handlers: `FourEyes`, `LiveHasKey`, which survive the whole-row
saves.

`Nominations`: the rows behind `ballot`. A handler loads a position or candidates,
judges by the edit policy, saves them whole; the portal saves a profile the same
way. `NominationsHold`: the paper stays as signed and can be filled in, rulings
stand, votes stay, nobody is linked by an address that was corrected; payments
protect candidates even from overlapping deletions.

### Count, Results, Bulletin

`Count` configures a position, fills a box (a bag of selections) and counts it; a
ranked count takes one step a round, with weights as numerators over a common
denominator (the code's `Fraction`). `CountHolds` = `SeatsAreEarned` (a seat goes
to whom fewer than the number of seats equal or beat, a claim that is not sure is
reported as a tie, a motion passes above its threshold) and `SolidCoalitions` (the proportionality a transferable vote promises), stated
against reference definitions that do not use the algorithm.

`Results`: the election's status, the rows of results and certifications in order,
trustees' shares, the automatic tally's job. Each service function is its read and
check, kept in `req`, and its transaction; the one that stores a tally is two
steps, since its UPDATE sees only what was committed before. Which of the rows
with a submission date the key is rebuilt from is a free choice: the query has no
order. `CertificationsHold` = `CertifiedHasCertificate` (for overlapping handlers)
and `OneCurrentCertification` (serial); `CertifiedStaysApproved` (serial). They set
aside somebody who posts `certify` or `decertify` to the console by name, which
moves the status and nothing else.

`Bulletin`: an election from its key to its published board under edits, key
rotation, recounts and suspensions; hashes and signatures are symbolic, secret
sharing is computed modulo `Prime`, TLC's being 5. `VerificationHolds`: what was certified
verifies, Merkle proofs prove and detect alterations, enough shares recover the
key, a recount differs only where the roll did.

### Approvals, Fraud, SignIn

`Approvals`: load, decide (a save of the whole loaded row), execute, record, each a
step after which the worker may die. `ApprovalsHold` = `TwoPeople` (with overlap)
and `OutcomeIsTold` (serial); `ExtensionsLengthen`.

`Fraud`: assessment and payment are two transactions; settling assesses again;
chargebacks raise alerts; analysts act on what they loaded. `ReviewHolds` =
`HeldUntilReviewed`, `HeldHasAlert`, `BlocksStayAtHome`, all with overlap.

`SignIn`: one account, several browsers. The authenticator's step is spent with an
atomic `cache.add`, the mailed code under a row lock, recovery codes and failures
on a loaded row. `SignInHolds` = `OneTimeSecrets`, `LockIsKept`.

### Payments, PaidVotes, Limits, Books, Billing, Tickets

`Payments`: one `Payment`, its ledger (counted and reversed votes), `Refund` rows,
the gateway's truth (charge, dispute, money returned), webhooks in flight,
handlers. The gateway is outside the repository and modelled by what the code asks
of it. *Settings*: calm, where webhooks keep their order and handlers neither
overlap nor die, and rough, where they do. `PaidVotes` knows no statuses, handlers
or messages: money is taken, then votes are counted, once, then perhaps reversed,
for good. `Payments` implements it (`ImplementsPaidVotes`) by taking the gateway's
charge and the ledger. That and `CreditedOnce` hold in every setting;
`DisputedVotesReversed`, `RefundSentOnce` and `PaidIsCredited` are claimed of the
calm one. That only money taken is counted (`CountedWasPaid`) is implied, and proved.

`Limits`: a quote reads what counts, the payment is saved later, settled, held,
refunded or disputed later still. `Books`: one reconciliation run over all the
payments of a window, in its steps, with the changes that race it. `Billing`: one
subscription; requests and the renewal save the row they loaded at their end.
`Tickets`: one type of ticket; seats are reserved under its lock, the gateway is
asked outside it, whoever hears first confirms.

### Roles, DataKeys

`Roles`: the checks and the lists as the code computes them, side by side, and the
team page with its check-then-write. `DataKeys`: processes with caches of unwrapped
keys and the settings they started with, the commands `rotate` and `rewrap` in
their steps, an operator who follows the runbook. `KeysHold` = `Readable`,
`WritesKept`.

### AuditChain, VoteRequest, RecordedVotes

*State.* Committed entries, the head, each transaction's uncommitted entry (its
writer holds the head's lock), the verification under way; per voter the
idempotency record, the ballot and the outbox row; handlers, jobs in the broker,
workers, and `sent`, which counts what the provider delivered. *Actions.* `begin`
is `Claim` or `Replay`; the casting transaction is `Cast` (up to the audit entry,
which takes the lock of the head) and `Commit`, or `Refuse`/`Rollback`; then
`AfterCast` (the job), `Complete`. `deliver` sends inside the transaction that
records the outcome: `DeliverStarts`, `Send`, `DeliverEnds`. A job stays in the
broker until its worker has finished it. A handler or worker dies, the broker
refuses or loses a job, and a provider's answer is lost, `MaxFaults` times in all.
*RecordedVotes* has two steps: a ballot enters the box and its voter the end of the
log, together and for good; a voter whose ballot is there is told, once.
`VoteRequest` implements it by what the entries of the chain tell of, and by taking
whoever has a row in the outbox as told.
*Properties.* `ReceiptIsMine`, `AuditTellsEveryBallot`, `AlarmOnlyInARace`,
`ImplementsRecordedVotes` (it implies `NoConfirmationWithoutBallot`, also proved),
`ConfirmedOnce`, `EveryConfirmationSettles`.

## 3. The runs

Runs that must find nothing. Several modules that share no state are checked side
by side in one run: a variable of the `MC` module, chosen in the initial state,
tells which of them moves, so their states add up and do not multiply.

| Run | What it asks | Instance |
|---|---|---|
| `casting_safety` | is the box one ballot per person under a frozen roll, does it implement `OneVote`; do tree, roll and letters agree | 2 people, 2 tokens, 2 handlers, clock 0..2; roll: 2 clerks, 3 units, 3 persons, 4 files, 5 operations |
| `casting_open_roll` | what do imports, removals and clearing leave intact; do voting and tokens end | 1 person, 2 tokens, 2 handlers, editable roll |
| `lifecycle_serial` | is what is voted on what was approved; does a late scheduler catch up | 2 officials, 1 handler, both modes, 1 edit |
| `lifecycle_concurrent` | do separation of duties and the key survive stale saves; does the paper stay as signed | 2 officials, 2 handlers, 1 edit; 2 positions, 2 candidates, 2 people, 3 changes |
| `results_review` | is a certified election certified, once, of an approved result; does what is published verify | 2 officials, 1 trustee, 2 handlers; 2 tallies overlapping, 3 one by one; boards of up to 5 ballots, 2 keys, 3 custodies over the field of 5 |
| `payments_credit` | are votes credited once, only for money, and never again once reversed (`PaidVotes`) | 1 purchase of 2 units, 2 handlers, 1 refund, calm and rough |
| `vote_pipeline` | do ballot, audit entry, receipt and mail agree, whatever fails (`RecordedVotes`) | 2 voters and 2 handlers, or 1 voter, 2 handlers, 2 workers; 2 faults |
| `staff_control` | two people and one outcome; one secret, one session; held until reviewed | 3 officials, 2 requests; 2 browsers, 4 failures; 2 payments, 2 analysts, 2 alerts |
| `office_desks` | roles, subscription, tickets, limits, count, booth, data keys, books | two of everything that races: users, tasks, purchases, processes, payments; 3 voters in 2 elections; every box of up to 3 to 6 ballots, by method |

Why these bounds show the interesting cases: every hazard listed is a race of two
handlers over one row, so two handlers and one or two people reach it; a second
token is what a re-issue needs; one edit suffices to invalidate an approval; a
third serial tally is what a decertification and a recount need; a third data key
is what a rotation after a creation needs; two attempts let retry and sweep meet
at the limit; two faults let a crash hit the recovery of a crash. The clock bounds
cover before, at and after every deadline. Where the product of two independent
complications says nothing new, the `MC` module excludes it by a `...Bound` that
the next state must satisfy, with a comment that says which; the theorems of
section 5 have no such bound. Symmetry is used only in runs without liveness
properties. Deadlock is not checked: every one of these systems may legitimately
come to rest (an archived election, a settled payment, everybody has voted).

Runs that find a disagreement between the code and what its documentation,
comments or messages say (each in `PROJECT.json`, with the sentence quoted):

| Run | What happens |
|---|---|
| `casting_late_ballot` | `_cast` reads the election without a lock: it commits after close, tally and certification, and the certified result misses a ballot its voter has a receipt for |
| `results_stale_share` | wiping a share leaves its submission date, so a recount may pick a wiped row though enough trustees submitted again |
| `payments_refund` | a refund's webhook completes the latest open refund of the payment, also one that waits for approval |

### Fairness

None is assumed of people. Assumed is: beat starts `tick`, housekeeping,
reconciliation and the outbox sweep again and again (they are periodic in the
celery settings), and a handler that began goes on unless it dies. Weak
fairness of a handler's steps is enough where nothing takes them back, and for
the expiry UPDATE in `Casting`, which waits for casts that end and whose tokens
no new cast accepts. Strong fairness is used where a step may be disabled now and
then and is tried again for ever: the tick while other handlers hold its slot or
die, reconciliation while webhooks occupy the handlers. Reconciliation looks back
six hours by `created_at`; the model assumes it runs within that window. Nothing
is assumed of the broker or the provider: `EveryConfirmationSettles` counts a
message given up after its attempts as settled.

## 4. Counterexamples that are not runs

Found with these modules (or a variation of a setting) or while writing them, and
kept as text:

* *Casting.* Under an editable roll `remove_voter` checks, a cast commits, the
  removal deletes the consumed token and the voter; imported again, the person
  votes twice (`voters.py:304-305`; `docs/DATABASE.md:157`: "A voter casts at most
  one ballot"). A cast's `VOTED` is overwritten by a `set_status` or
  one-time-code promotion that loaded the row before; the unique index still
  prevents a second ballot (`OneBallotPerVoter` is proved with it). A reset that
  waited for a cast stores a fresh plaintext code for somebody who voted
  (`voters.py:250`).
* *Roll.* Deleting a unit asks only about that unit (`views_console.py:350`) but
  takes its sub-units along, whose positions lose their restriction and whose
  rules vanish, in any status of the election. A unit moved under itself in the
  admin site makes a cycle (not modelled). Overlapping self-registrations
  register a person twice; an import row with the ID and address of a voter
  registered by address adds a second row (`voters.py:166-168`). A round of
  letters that overlaps a reset mails dead codes; overlapping imports pass the
  plan's limit. A header that is not recognized is imported as a voter. A unit
  whose name is another's code shadows it.
* *Booth.* Session keys are prefixes, so logging out of election 1 wipes the
  ballots in progress of 10 to 19 (`voter_auth.py:218`). The next voter at a
  browser may be shown, and confirm, the selections before theirs.
  `mark_second_factor` revives an expired sign-in.
* *Lifecycle.* An edit judged while the election was scheduled returns it to DRAFT
  after it opened: the reset at `lifecycle.py:271` is unconditional and the
  settings view saves the whole row, though `lifecycle.py:260` says "Voting is in
  progress: the configuration cannot change." A whole-row save of a stale
  settings form undoes an approval's effect, a freeze or an extension, and may
  invert the window, so of the window only its type is proved. The tick closes an
  election on an end date it read before an extension (`lifecycle.py:224`: the
  one hazard no property covers, since the code gives no guarantee to state).
  `reopen_voting`, `decertify` and `certify` work when posted by name, though
  `docs/TRD.md:39,42` reserves them. A process that dies after closing loses the
  automatic tally (`lifecycle.py:209`); an official must tally.
* *Nominations.* `edit_candidate` counts a change of name as profile, so a signed
  name changes without a new approval. Overlapping, the portal's save of the
  whole row undoes a disqualification or the signed structure. A second
  acceptance of an invitation links the candidate anew. Deleting a position is
  recorded in the audit log before a payment blocks it (`views.py:618-620`); a
  tie-breaker vote given between test and deletion goes with it. The API creates
  positions whose minimum exceeds their maximum.
* *Count.* A SCORE position whose minimum exceeds its candidates passes
  `configuration_problems` and cannot be answered. A referendum's percentage is
  rounded before it is compared (`tally.py:102-103`, `docs/TRD.md:61`): from two
  hundred valid votes on this can change the answer. A tie at the quota of the
  transferable vote is broken silently (`tally.py:167-171`, `docs/TRD.md:71`).
* *Results.* Overlapping: a reject lands after the certification it raced; a
  superseded result is certified (`results.py:224`); two tallies leave two
  pending results (`results.py:196`); two decertifications act on one
  certificate. Shares stay stored after a recount or a crash before the wipe
  (`models.py:256`).
* *Bulletin.* A configuration signed by hand after the certification
  (`views_console.py:543-546`), or a retired signing key that is not listed
  (`docs/OPERATIONS.md:162`), makes a certificate fail for good; `heedful` excludes
  both. Suspending somebody who did not vote, after the tally, makes a recount
  report "DIFFERS FROM official result" (`results.py:320`).
* *Approvals.* Overlapping decisions run an action twice, or run it and record it
  as rejected. A death after APPROVED leaves a request nobody can resume. An
  unfreeze approved after closing lifts the freeze of a closed election
  (`integrity.py:105-107`).
* *SignIn.* Overlapping, a recovery code opens two sessions or comes back with a
  stale save, and failures count once.
* *Roles.* Two administrators who revoke each other at once leave none
  (`tenancy.py:66`).
* *Fraud.* `docs/TRD.md:225` says that scores from 61 hold the payment; the code
  asks for a CAPTCHA. Dismissing any alert of a held payment releases it though
  another is open or confirmed (`service.py:16-17`); two analysts give two
  verdicts; a stale save loses the payment's link (`service.py:26`). A repeated
  `apply_gateway_result` holds a released payment again and returns DISPUTED to
  SUCCESS.
* *Payments.* Two overlapping approvals hand a refund over twice. Refunds under
  way are not counted against the amount (`service.py:616`). Any partial refund
  with reversal reverses all the votes (`docs/TRD.md:209`). A chargeback lost
  without its opening having been processed leaves the votes of a REVERSED
  payment counted (`docs/TRD.md:210`, `docs/PRD.md:95`). A verification during an
  open dispute returns the payment to SUCCESS. An overlapping sweep credits a
  payment disputed since. Checkout overwrites a SUCCESS with PENDING or FAILED until
  reconciliation. A sweep that dies before its flag leaves `votes_credited`
  false beside credited votes. `refund.failed` overwrites PROCESSED.
* *Limits.* Only SUCCESS counts: a refund that leaves its votes, or a held payment,
  does not count against the cap (`docs/TRD.md:203`). Overlapping checkouts both
  pass.
* *Books.* AMOUNT_MISMATCH compares the amount only, though its label says
  "Amount/currency" (`models.py:292`). Refunded or disputed payments the gateway
  does not list are not asked for; some disagreements are listed again every
  quarter of an hour; payments beyond 500 (200) wait.
* *Billing.* The renewal bills the period that begins, with the usage so far, so
  later usage is never billed (`service.py:287-288`, `docs/TRD.md:308`). A coupon
  that pays for everything leaves PAST_DUE with nothing to pay (139-141). Overlap
  or a death bills a period twice; redemptions are lost updates; paying any old
  invoice reactivates.
* *Tickets.* A gateway error after a charge overwrites a confirmed purchase with
  Failed and the seat is sold again (`views.py:1101`, `1163`; `honest` excludes
  it). `charge.failed` is ignored for tickets (`docs/API.md:229`). A price edited
  between checkout and verification leaves a paid ticket unconfirmed. An edit
  after a deletion inserts the ticket again.
* *DataKeys.* `keys rotate` loses a value written between its read and its update
  (`keys.py:110-112`; `careful` excludes it). A death between deactivation and
  creation leaves no active key until one is created. There is no way back from
  the KMS. `do_status` compares the KMS's ARN with the configured id.
* *VoteRequest.* A crash, or a broker that cannot be reached, after the commit
  loses the receipt: the key stays claimed for 24 hours or is released and the
  retry is told that the voter has voted (`docs/API.md:30`: "Stored response
  replayed"). A confirmation job lost before it wrote its outbox row is never
  sent again: the sweep only sees rows. `verify_chain` reports tampering on an
  intact chain when an append commits between its two reads, and
  `docs/OPERATIONS.md:243` says to treat that as tampering; `AlarmOnlyInARace`
  says that this is the only way. Attempts overshoot `MAX_ATTEMPTS` by one.

## 5. What is proved

Every theorem holds for every value of the constants allowed by the module's
named assumption; `ApprovedIsUnchanged` and `NoWayBack` also assume `OneAtATime`,
the constant of `Lifecycle` that says handlers do not overlap. Nothing else is
assumed. Some assumptions deserve a word: `SignIn` asks that the lock time does
not exceed its cap (15 minutes, a day) and states as `PowersOfTwo` that powers of
two are positive, since the provers have no rules for exponents; `Count` that the
candidates are finitely many and no two draw the same lot; `Booth` that "nobody" is
nobody; `Roll` that the units are finitely many and that an uploaded
file is a finite sequence of rows; `Bulletin` that trackers are finitely many
naturals (digests of 256 bits, ordered), that the modulus of the secret sharing
has no divisor (the code's is 2^521 - 1) and that a key is shared among fewer
trustees than it (at most 255). TLC evaluates all of them.

The pattern is the same everywhere: a property is seldom inductive, because it
speaks of rows, while the next step writes what a handler has loaded before. So
the invariant says of every handler what it may still rely on, in the setting
(overlapping or not) the property is claimed for; and it is proved action by
action.

**`Casting_proofs`.** *Casting:* `TypeOK` with: `Owned` (a token that was drawn has its
voter), `CastsHold` (a cast in progress holds an issued token of its voter),
`CastsApart` (no two casts hold one token), `OneIssued`, `OneConsumed`,
`BoxCoversRegister`, `Named` (a handler works for a person) and `Frozen` (under a
frozen roll nothing deletes or imports). `OneLiveToken` alone is not inductive:
that a re-issue revokes the earlier token needs `Owned`; that a cast does not
consume a revoked one needs `CastsHold`, whose preservation is exactly the row
lock. From it: `TypeCorrect`, `LiveTokens`, `BoxCovered`, `BarredVoters` for both
kinds of roll, and `BoxMatches`, `OneBallot`, `Refinement` for the frozen one.
*Roll:* the paths are right because each of them is the parents written out, unit
by unit (`TreeHolds`), which adding, moving (with all that is below) and deleting a
unit keep; a unit lies within another exactly if its path goes through it, and
that is what every set closed under parents must contain (`ChainIsPath`). Units
named by persons, positions and rules exist (`RefsHold`). Where handlers do not
overlap, one is at work (`OneAtWork`) and what it loaded is what the rows say
(`Fresh`): the persons an import found by their ID, the place under the plan's
limit for each of its rows, the address a registration did not find, the codes a
round of letters will carry. An import is a loop over a file of any length:
`StageSound` is one row, `ImportKept` the loop, by the least row that would break
it. Turnout is a sum over a partition of the voters (`TurnoutSum`).
`TheRollHolds`, `RollTyped`.

**`Lifecycle_proofs`.** *Lifecycle:* rows are saved whole, so `Keyed` and
`AllReviewed` say of every loaded row, not only of the stored one, that it has its
key and its second person (`KeyBeforeVoting`, `SecondPerson`, with overlap). One
at a time, `Alone` and `JudgedStill` say that what an edit judged is still
so when it saves (`SignedIsVotedOn`, `NeverBack`). *Nominations:* `InTurn`: one
handler is at work; what it will save belongs to a draft or is no part of the
ballot, a position about to be deleted has no votes, a row whose handler decides
nothing carries the status that stands (`StillJudged`); the paper is as signed at
every step, not only at rest (`AsSigned`). `PaperIsKept`.

**`Results_proofs`.** *Results:* a handler's rows exist and, without overlap, are
still what it read (`Sound`); one is at work (`Alone`). `OneCurrentCertification`
becomes inductive when it speaks of all the statuses before the tally (`OneLive`).
`CertificateStands`, `SignedStaysApproved`. *Bulletin:* nothing is approved without
a signed configuration (`Signed`), every tally is of the board as it is, since
nobody votes any more (`TalliesCurrent`), the certificate is of a result that stays
(`CertificateSound`), and while everybody takes care it names the newest
configuration and a listed key (`Heeded`). The Merkle tree, of any height: every
node shows how high it is (`HeightShows`), so that equal roots mean equal levels all
the way down, odd nodes included (`RootsDiffer`); a proof leads from its leaf to the
root (`ProofLeads`) and two leaves that take the same steps never meet
(`ClimbsApart`). The shares: residues modulo a prime have inverses (`Inverses`);
sums and products over a finite set may take out any element first (`FoldedTakes`).
Taking a trustee `a` out of the set multiplies every other weight by (i - a)/(-a)
(`WeightStep`); hence the weights add up to 1 (`Ones`), what `x` times a polynomial
interpolates to at 0 is 0 (`MultipliedSum`), and Horner's scheme gives the
polynomial back, coefficient by coefficient (`Interpolation`). `VerificationStands`
puts together `CertifiedVerifies`, `StoredVerifies`, `BoardsAreProven`,
`AlterationsFail`, `RecountsAreTrue` and `SharesGiveTheKey`.

**`Approvals_proofs`.** *Approvals:* with overlap, `CopiesHold` (a copy of a request
still says who asked), `OthersExecute` and `NothingUnasked` carry `TwoPeople`;
without, `Alone`, `CopyIsRow` (the copy is the row, and the place of the handler
tells whether the action was run) and `Told`. `DualControl`, `NoTimeLost`.
*Fraud:* `Released` (a payment once held and not held any more, or credited, was
freed), `Checkout` (what was assessed is not paid yet and its alert is there),
`AllReview` (an analyst's copy is of an alert that exists); alerts only grow.
`HeldForReview`, with overlap. *SignIn:* `StepsUsed` (the cache entry of a spent
code outlives the last moment the code is accepted), `EmailsUsed` (its challenge
stays used); serially, `Waits`, `CodesGone`, `Counted` (failures and the row
differ by the one being saved) and `KeepsLock`. `SecretsOnce`.

**`Payments_proofs`.** Whoever says "paid" goes back to a charge: the row, the
handlers that carry the gateway's answer, the webhooks in flight, and an open
dispute (`RowSaysPaid`, `HandlersSayPaid`, `HooksSayPaid`, `DisputeSaysPaid`); with
`Answers` (a handler about to apply an answer was given it) they make
`CountedWasPaid` inductive, for any number of overlapping handlers, refunds and
repeated messages. `CreditedOnce` rests on the one-to-one ledger row. Calm:
`Alone`, `SweepSees` (the payment the sweep loaded is still a success nobody holds
when it writes), `Unsent` and `ApprovalSees` (the refund being approved was just
requested; the one being sent was not sent before). `OneCredit`, `NoFreeVotes`,
`NoDisputedVotes`, `OneSubmission`. `Refinement`: the ledger moves by a credit or
a reversal and never together with the gateway, whose charge is not undone
(`LedgerMoves`); a credit that keeps `CreditedOnce` finds the ledger empty, one that
keeps `CountedWasPaid` finds the charge made, so each is a step of `PaidVotes`.

**`Books_proofs`.** *Books:* nothing is paid here that the gateway never heard of
(`AllUnpaid`); while the gateway does not move, the list is what it says
(`ListCurrent`), and whatever the run has been through agrees or is listed
(`Treated`); webhooks, refunds and analysts that race the run cannot part a
payment from the list. `Reconciled`. *Billing:* one task at work whose loaded row
is the row (`OneWorks`, `AllLoaded`); no invoice reaches past `BilledTo`, the end
of the row's period or of the next one while a renewal is half-way (`AllWithin`),
and what was billed lies in the past (`PastUsage`). `BillingCalm`.

**`VoteRequest_proofs`.** Three parts, and each step keeps each. *Handlers*: a
handler between claim and answer holds the key of its voter, whose record
remembers its selections, and no two hold one key (`Claims`, `ClaimsApart`); what
it has committed is in the box (`HandlersKnow`); an answered key remembers what
was cast (`AnswersKept`). *Log*: only the handler in its casting transaction has
an uncommitted entry, linked to the present end of the chain (`OneWriter`); the
head is the end of a linked chain (`ChainInv`); what verification has read is a
prefix, and is all of it unless the log has grown (`CheckInv`). *Confirmations*: a
worker's job is in the broker and its row as it found it (`WorkersHold`), no two
workers have one job or one row's lock (`WorkersApart`), jobs and rows are about
ballots in the box (`JobsKnow`), the provider took a message more than once only
after a fault (`SentForAReason`), and of the two jobs that may deliver a row one is
left when its attempts are used up, none after it has tried (`AttemptsEnd`).
`TrueReceipts`, `BallotsAudited`, `NoOtherAlarm`, `BallotBeforeConfirmation`,
`OneConfirmation`. `Refinement`: box and chain change in `Commit` only
(`OnlyCommitsRecord`), which finds its voter's ballot missing (`HandlersKnow`) and
adds that voter at the end (`OneWriter`, `LogAppended`); rows enter the outbox in
`ConfirmStarts` only and never leave it (`OnlyConfirmTells`), by a job about a
ballot in the box (`JobsKnow`).

**`Office_proofs`.** *Tickets:* seats reserved and free votes are sums over
purchases; `Fits` and `Counted` keep them, `OneAsks` (one handler asks the gateway
about a purchase, once), `HeardIsTrue` and `PaidFor` tie them to the money.
`TicketsSound`. *Limits:* one sale or checkout waits for its credit
(`OneAwaits`), and there is room for it under every cap (`CapsHold`) and on the code
(`CodeHolds`). `CapsKept`. *DataKeys:* `AllUnwrap` is kept because a data key may be
created only while all processes wrap with one key-encryption key (`OneWraps`),
which is what the order of the runbook's steps secures. `AlwaysReadable`. *Roles:*
`AnotherStays` (the row a request is about to delete is not an organization's last
administrator), `NoneGranted`; that lists and checks agree needs no invariant, it
holds of every table. `AdministratorsStay`. *Booth:* a code they entered stands
behind every sign-in that counts as two factors (`SignedSound`), a code awaited as
a second factor is that of who is signed in, or of somebody else who has no need
of one (`SlotSound`), and every authorization's style is one its voter is eligible
for (`PassesSound`); eligibility only grows. `TheirOwnBallots`. *Count*, for any
number of candidates, seats and ballots: without rounds, whoever is among the first
so many by votes and name has few enough who are not behind it, unless the last
seat is tied (`SeatsByVotes`); `Rounding` bounds what `_pct` may add to a share. In
the single transferable vote every transfer keeps a scale at which the weights are
whole numbers (`AtScale`): all ballots together weigh one quota less with each seat
filled, and voters who put a coalition first still weigh more than the quotas of
the seats they are owed, as long as one of it continues, since only its own winners
take weight from them (`ElectKeepsScale`); so while fewer of it are left than it is
owed, they reach the quota and none of them is eliminated (`EliminateKeepsRound`),
and the last round leaves one seat for one quota (`LastRound`). `SeatsAreDeserved`.

Every module of the table with proofs also has its types proved (`TypeCorrect` or
`...TypeCorrect`), and `...Invariant` states the invariant where the module holds
several.

The sums of `Tickets`, `Limits`, `Roll`, `Bulletin` and `Count` are folds over finite sets.
Induction over data is not available, but a minimal counterexample is: inclusion is
well-founded on the subsets of a finite set (lemma `Smallest` or `SmallestSet`), so a
statement that fails for some subset fails for a smallest one, which is one element
more than one it holds for. Where the code loops over a sequence (the rows of an
import, the levels of the tree, the coefficients), the model has a recursive
function on 0..n and the proof takes the least index that fails; that such a
function exists is proved the same way (`SomeEvaluation`).

Only model-checked is liveness (`ClosesAtTheEnd`, `UnusedTokensExpire`, `CatchUp`,
`PaidIsCredited`, `EveryConfirmationSettles`): fairness and `ENABLED` are out of the
prover's reach.

## 6. Not modelled, and why

* Templates, exports, parsing, deployment, observability: presentation and I/O.
  The API and the console are mapped where they change modelled state.
* Ciphertexts, digests and signatures are model values: collisions and forgery
  are outside the models.
* Passkeys, the directory's and the identity provider's protocols, rate limits, bot
  checks: libraries and counters no property depends on.
* Amounts, fees, taxes and currencies, except where a check compares them.
* `configuration_problems` in `Lifecycle` (it may always find none; `Nominations`
  models what it asks of positions) and the archive's other guards.
* One election, one payment, one chain, one account at a time where rows of
  different ones do not touch.
* Incidents, evidence items, in-app messages and reminders, known devices, the
  hourly anomaly scan: records nothing else reads.

## 7. Plan

1. An abstract election ("voted on, counted, certified, perhaps decertified and
   counted again") that `Lifecycle`, `Casting` and `Results` each implement, so that
   what is proved of one of them is available in the others.
2. A tick that closes on an end date it read before an extension moved it
   (`elections/lifecycle.py:224`): the one listed hazard without a property.
