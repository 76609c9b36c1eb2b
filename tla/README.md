# Verification of the online-duuka backend

TLA+ models of the backend of `app/` and of the old tree `src/`, model-checked with TLC, and
theorems about them checked by TLAPS. Paths are relative to the repository; definitions are set
in `code`. `PROJECT.json` maps every definition to the lines it stands for.

* Part 1 is the inventory: what the system consists of, and what could go wrong in it.
* Part 2 says how code is turned into actions.
* Part 3 goes through the modules, their runs, bounds and proofs.
* Part 4 lists what disagrees with the code's own words.
* Part 5 says what is not modelled, and what is left.

## 1. The system

A FastAPI application over PostgreSQL (SQLModel with an `AsyncSession` per request),
Redis, a Celery worker that sends mail, Google's OAuth endpoints and PesaPal. The
repository is in the middle of a move: `app/` is the new tree, `src/` the old one, both
with an authentication stack of their own (README.md, "Auth migration status"). CI only
compiles `app/` and runs `scripts/smoke_auth_user.py`, which never opens a database: no
concurrent behaviour of this code is tested.

| Component | State | Operations | Must be true | Module |
|---|---|---|---|---|
| User sessions (app) | rows of `user_sessions`, one per user and device; hash of the current refresh token | login, refresh, logout, logout-all, revoke by id, sweep after a password change or reset, session limit | number of active sessions bounded; revoked stays revoked; a token that was rotated out stays out; a sweep misses nothing | `UserSessions` |
| Account lockout (app) | `failed_login_attempts`, `login_locked_until` | password attempt, passing time | locked accounts take no attempt; failures end in a lock; locks end | `AccountLockout`, `LockoutPolicy` |
| Password reset (app) | one `password_reset_tokens` row per user | request a link, confirm | a link works once; the mailed link works | `PasswordReset` |
| Two-factor (app) | one authenticator row per user; challenge tokens | enable, verify, disable, challenge, validate | on only with a secret the user has; no sign-in without the second step | `TwoFactor` |
| Registration, verification (app) | `users`, `email_verification_tokens` | register, profile | one account per address; only proven addresses are verified; opening the mailed link verifies | `GoogleSignIn` |
| Google sign-in (app, old) | state in Redis; `google_sub` of users; verification rows | start, callback, exchange; request for a link and click (old) | a state is used once; a link to a Google account is kept | `GoogleSignIn` |
| Mail (app, old) | Celery queue | enqueue, send, retry | bounded attempts; nothing announced is lost silently | `MailTasks` |
| Billing (app) | `subscriptions` | subscribe, notification | an order has one row; paid means active | `Subscriptions` |
| Sessions (old) | session rows, deleted instead of revoked | login, refresh, delete | bounded; refresh needs its row | `OldSessions` |
| Two-factor (old) | authenticator, ten recovery codes, mailed code in Redis | setup, confirm, verify, regenerate, disable | a code works once; ten codes at most | `OldTwoFactor` |
| Accounts (old) | `users`, verification tokens | sign up, sign in, verify, change password | lockout engages; verified once | `OldAccounts` |
| Password reset (old) | reset row with cooldown and daily count | request, confirm | limits kept; a link works once | `OldPasswordReset` |
| Avatars (old) | file on disk, path in the row | upload, resize, logo | the row's file exists; sizes and offsets are right | `Avatars`, `ImagePipeline` |

Components interact through the database and through tokens that clients carry. A login
passes the lockout, then asks `TwoFactor`'s row whether a challenge is due, then opens a
row of `UserSessions`; so does the answer to a challenge. A password change or reset ends
in a sweep of `UserSessions`. Every handler that announces something queues a mail after
its commit. The access token names a session row, which `get_current_user` reads on every
request. Nothing is shared in memory between requests but the Redis client.

What is hard about this code is concurrency over rows. No `SELECT ... FOR UPDATE` and no
version column is used anywhere: every handler reads, awaits, and writes what it computed
from an old copy. A second difficulty is partial failure: `create_login_session` commits
three times, `change_password` twice, and a task may be cancelled at every await. Others
are time (expiry, lockout) and steps that should follow but that nothing enforces. The
`hazards` of `PROJECT.json` list each one at its line, with the properties that cover it,
or say why none does.

## 2. How code becomes actions

A request is one asyncio task. Between two `await`s it runs alone; at each `await` any
other request may run, and the process may stop. So one action is one `SELECT` with the
checks that follow it up to the next await, or one `COMMIT`, or one external call, and a
request keeps what it read.

* READ COMMITTED: a SELECT sees the latest committed rows.
* `expire_on_commit=False` (app/database.py): a loaded object keeps its values until
  `db.refresh`; a second SELECT does not reload it.
* **An UPDATE names only the columns whose value differs from the loaded one.** This is
  the crux of most interleavings: `is_used = False` on an object loaded with False writes
  nothing. The models therefore keep the loaded value of every such column (`loaded`,
  `marked`) and write a column only if it changed.
* An INSERT that violates a UNIQUE constraint answers 500 and writes nothing
  (`LoginInsertConflict`, `RequestInsertConflict`, `EnableInsertConflict`).
* Requests are named constants. Each is used once (`AccountLockout` reuses them), so the
  number of requests of each kind is the bound of a run. A token is named after the
  request that drew it: the code draws it at random.
* Passwords, codes and device data are abstracted to what handlers compare: a password is
  a version number, a code is the secret it was computed from.
* A set `CrashProne` of tasks may die at an await, in every module.

Deadlock checking is off in every run: requests are finite, and a system whose requests
have all been answered stops.

## 3. Modules, runs and proofs

### UserSessions

Translates `create_login_session`, `enforce_session_limit`, `refresh_login_session`,
`revoke_session_by_refresh_token`, `revoke_user_sessions`, `revoke_session_by_id`,
`change_password` and the confirmation of a reset (app/services/auth_service.py), with
`get_current_user` in front of the handlers that need it (`Authorise`). State: which rows
are `active`, their `hash`, `seen` (last_seen_at) and, as history, the password version at
which they were `opened` and the one the login had `proved`. `pc`, `target`, `loaded`,
`now`, `victims` are what a request holds. A login is `LoginAuthenticate`,
`LoginSelectSession`, then `LoginInsert` with the placeholder or `LoginReactivate`,
`LoginCommitToken`, `LoginSelectActive`, `LoginCommitLimit`, `LoginAlert`; `Send` is a
client that starts any other request, with any token or row it may know. `clock` is a
reading order, one tick per reading.

| Run | Instance | Question |
|---|---|---|
| `sessions_limit` | 3 devices, limit 1; 3 logins, or 2 logins with a revocation by id, a change and a reset of the password | how many sessions can be active; does a sweep miss a row |
| `sessions_races` | 2 logins (one may die), refresh, logout, logout-all, 2 devices | placeholder, tokens, stale copies, liveness |

With limit 1, three devices and three logins two limit checks can spare different rows while
a third login adds its own. `CrowdBound`, an action constraint, keeps three logins from
arriving among other requests; nothing else is cut. Two devices are enough
for races because rows interact only through the limit and the shared placeholder. A
single user suffices for the limit and the sweep, whose queries filter by user; the
placeholder is shared by all rows, and two rows of one user collide on it as two users'
rows do. The proofs below remove these bounds for all the safety properties.

Properties. `SessionLimit`: the active rows, apart from those whose logins have not looked yet
and those about to be revoked, never exceed the setting **plus one**; `SettledLimit` follows
from it and says what that leaves when no login is under way. `PendingOwned`: the constant
`"pending"` is in at most one row, and whose it is. `TokenDelivered`: when the requests on a row
are answered, it holds a token that a client received. `RevocationSticks` and
`TokenNeverReturns`: stale copies neither revive a row nor bring a token back, which holds only
because unchanged columns are not written. `SweepComplete`: an active session from before a
change of password is one that an unfinished change is about to revoke. `PendingResolved`
(liveness): the placeholder goes away unless its login died.

Proofs (`UserSessionsProofs`), for all finite sets of users and devices, any requests
and any limit: `TypeCorrect`, `LimitKept`, `LimitSettles`, `PlaceholderOwned`,
`RevocationHolds`, `NoTokenReturns`, `TokensDelivered`, `SweepsComplete`. `NextCases`
splits a step, and lemmas say which actions write which part (`HashWriters`,
`VersionWriters`, `Activations`), so that each proof looks at few actions.
`SessionLimit` is inductive with the types: a login's own check is the only step that
takes a row out of the uncounted ones, `SparedWithinLimit` counts what it leaves, and
`CountedShrinks` that nothing else adds to it. `TokensDelivered` rests on `TokenHeld`
(a row's token was minted for that row by a request past that commit).

### AccountLockout and LockoutPolicy

`authenticate_email_user`: `WrongPassword`/`RightPassword` are the SELECT, the lock check
and the password check; `CommitFailure`/`CommitSuccess` write what was computed from the
loaded row. `GetLockoutDuration` is app/core/utils.py:23. Time is relative: `left` is how
long the lock still stands, and `Tick` passes it; `column` is the duration for which
`login_locked_until` was last set, 0 when it is null. `LockoutPolicy` is the abstract account:
consecutive failures counted, thresholds 5, 8, 10, 20, and a lock of exactly the duration the
count has earned, so that a switch of duration one failure late is not a step of it. The count
stops at `MaxFailed` = 20, after which nothing changes.

Run `lockout_races`: two attempts that keep coming, one of which may die, durations 1, 2,
3, 4. `LockShutsOut`: while the lock stands, the only attempts under way are ones that a
commit has overtaken. `CountHolds`: lost updates never take the count below what the
lowest attempt had read. `FollowsPolicy`: every commit that no other overtook is a step of
`LockoutPolicy` (refinement, `lock <- column`, with the overtaken commits as the stated
exception); the mutant that switches late at 8 alone breaks it.
`LockEnds`, `FailuresLock`: locks end; failures that go on without a success end in a
lock, although overlapping ones count once. Two attempts are enough for a lost update, and
the lock is reached because attempts are reused.

Proved for any number of attempts and any four durations (`AccountLockoutProofs`):
`TypeCorrect`, `LockShuts`, `CountKept`, `PolicyFollowed`. The last rests on the invariant
`Current`: an attempt that is not `stale` loaded what the row still holds.

### PasswordReset and OldPasswordReset

`create_password_reset_token` and `confirm_password_reset` on one user's row. `spent` are
the tokens the password was reset with; `crossed` the requests that overlapped an accepted
confirmation. Run `reset_links` (app part): three requests, three confirmations, one of
which may die.
`SpentStaysSpent`: a token that has reset the password is never accepted again; two
confirmations of one link both pass only if both were read before either commit.
`LinkGood`: a link is dead before its use only if its request overlapped a confirmation.
Three of each allow insert, replacement, and a late mark on a replaced token.

Proved for any number (`PasswordResetProofs`): `TypeCorrect`, `SpentRejected`,
`LinksGood`. `LinkGood` is not inductive: `MarksExplained` adds that an accepted
confirmation carries the row's token or has overlapped the request that replaced it, and
that a request that will not reset the mark has overlapped as well.

`OldPasswordReset` is the same row in the old tree, which also keeps a cooldown and a daily
count in it, and a confirmation that commits the new password, the mark and the deletion of the
sessions one after the other (`ConfirmPassword`, `ConfirmMark`, `ConfirmSessions`). Time is a
wall clock of `Horizon` ticks with midnights every `DayLength`; one reading at a request's
SELECT stands for the two or three the code takes around it. `RequestMail` mails the row's link,
since the code refreshes the row after its commit. `SignIn` is a sign-in that verifies a
password and opens a session later. `MCPasswordReset` starts in one tree or the other, so the
state space of the run is the sum of the two. The old part has three requests, two confirmations
and a sign-in, two requests a day, cooldowns of one and two ticks, and days of four. `RateKept`:
as long as no two requests overlap, cooldown and daily maximum hold across midnights, expiries
and failures. `OldSpentOnce`: a link resets the password a second time only between the first
commit of its confirmation and the second, or for good when that confirmation died there.
`OldResetSound`: besides the types, a link is marked without use only by an overlap, and no
session outlives a password that a confirmation changed, but that of a sign-in which was under
way.

Proved in `PasswordResetProofs` for any tasks, limits, days and cooldowns that satisfy
`ConstantsFit`, and lifted to the specification of the run, whose module assumes it
(`OldConstantsFit`): `OldRate`, `OldSpent`, `OldResets`, and `AppLinks` for the app's part.
`SessionsFollowPassword` is inductive with the types. `LinkExplained` says that a confirmation
and a request under way at once know of each other, so a mark that falls on a new link falls on
one whose request is in `clashed`. `SpentExplained` names the confirmation of a spent link that
is unmarked. `CooldownExplained` orders times: without an overlap the cooldown of each minted
link ends no later than the row's, and the row's before the clock reading of any request under
way. The daily maximum counts: `MintedUntil` are the links whose day ends at a given midnight,
and `DayExplained` says that the row's `count` is at least their number for the day of its
`windowEnd`, and that no link belongs to a later day. `CommitCounts` shows that a commit adds
one link to both, and `Days`, `Multiples` and `MidnightFollows` supply the arithmetic: midnights
are multiples of `DayLength`, and a reading past one belongs to a later one.

### TwoFactor and OldTwoFactor

`enable_two_factor`, `verify_two_factor_setup`, `disable_two_factor`, `is_two_factor_enabled`
within a login, and `validate_two_factor_login`. `shown` are the secrets that reached the user,
`confirmed` those a verify has confirmed, `crossed` the enables that overlapped an accepted
verify, `guarded` the logins all of whose life 2FA was on, `outdated` the challenges older than
a change of password. Run `two_factor_races` (app part): three enrolments, two verifications, a
disabling, a login and an answer to its challenge; one enrolment and the login may die.
`EnabledConfirmed`: 2FA is on only with a secret that was verified, or drawn by an overlapping
request. `SecondFactor`: no guarded login opens a session, and challenges are answered only by
such secrets. Two verifications are needed for a late one to turn on what a disable has turned
off, three enrolments for a secret that is replaced before and after.

Proved for any number of requests (`TwoFactorProofs`): `TypeCorrect`,
`EnabledIsConfirmed`, `SecondFactorHolds`. `FactorExplained` strengthens `EnabledConfirmed`
in the manner of `MarksExplained`; `GuardedIsOn` completes `SecondFactor`.
Not covered: one code used twice within its window (codes carry no time), and the Google
sign-in, which opens a session without asking for a second step.

`OldTwoFactor` is the old tree: setup and confirmation of a secret, batches of recovery codes
drawn by a confirmation or a regeneration, their use at sign-in, disabling. The DELETE of the
old codes is flushed before the commit, so writers hold row locks across an await (`RowFree`,
`Locked`). The run has two setups and two confirmations, or two sign-ins, with a regeneration
and a disabling, and batches of one code; what tells a batch of one from ten is only how many
codes a user has left. `CodeOnce`: a recovery code opens two sessions only if both requests
had found it before either marked it. `OneBatch`: two batches live side by side only by an
overlap. `OldFactorSound`: besides the types, 2FA is on only with a confirmed secret, but for
a setup that overlapped a confirmation, and recovery codes outlive 2FA only if they were
drawn while it was turned off.

Proved in `TwoFactorProofs` for any tasks and any size of a batch under `KindsApart`, and
lifted to the run's specification under `OldKindsApart`: all the properties above, as
`AppFactor`, `OldCodesOnce`, `OldBatches` and `OldFactor`. `BatchesExplained` carries `OneBatch`
and `CodesNeedFactor`: what a writer has doomed covers the codes that were there when it looked,
and a writer that it overtook is in `overtaken`. `UsesExplained` carries `CodeOnce`: a request
that has found a code which is used by now is in `rivals`.

### GoogleSignIn

`app/services/google_oauth.py` and its twin in the old tree, with what else writes the same
table: registration by email, whose last commits store a verification link (`MintLink`), and in
the old tree requests for another link (`Resend`) and clicks (`ClickVerify` commits the user,
`ClickDelete` deletes the link). A click in the app finds no route (`AppClick`). `links` are the
rows that have a verification row; which of several links is good, and for how long, is left to
`OldAccounts`. `tree` picks the code in the initial state, since the two differ in few actions:
the state is consumed by `AppStateGet` and `AppStateDelete`, or by one transaction
(`OldStateConsume`); the user is looked up by the Google account first (`AppSubSelect`), or only
by address; `ExchangeCheck` asks for `can_login`, or nothing. `GoogleAnswer` is external: a code
buys one answer, which names an account and an address and says whether Google vouches for it;
an address may move between accounts. `mail`, `sub` and `verified` are the table, named after
the request that inserted the row; `proven`, `rivals` and `crossed` are history.

Run `google`: a registration and a click, which may die, a request for a link, two starts, two
callbacks, two exchanges, two addresses and two accounts, in either tree. Two callbacks are what
each race needs, and two of everything else let them meet or miss each other; one request and
one click suffice to renew, use and delete the one link there is. `StateOnce`: two callbacks
pass one state only in the app, and only if both read it before either deleted it.
`VerifiedSound`: a verified row has an address that Google vouched for or, in the old tree
alone, a click has read a good link of that row; and in the app a row with a Google account is
verified. So the app verifies by Google's word only, and linking in the old tree, which does not
verify, leaves a row unverified. `SessionOfAccount`: a session opened with a google_token is of
the user whom that account is linked to, but for two links of one row at once. `LinkStays`: only
such a race replaces a link.

All four are proved for any number of requests, addresses and accounts, in both trees
(`GoogleSignInProofs`). The types are inductive together with `Informed` (what a request at a
step has learnt by then). `LinksExplained` carries the three about the table: a row a callback
has found has its address or its account, an inserted row has the ones of its inserter, and
two callbacks that loaded one row unlinked are both in `crossed`. `StatesExplained` carries
`StateOnce`: a state that some callback has past is gone, or in the hands of rivals.

### OldSessions

`session/services.py` of the old tree: a login is one transaction (`LoginExpired`,
`LoginDevice`, `LoginLimit`, `LoginCommit`), tokens do not rotate, and a session ends when its
row is deleted. What is hard here is autoflush: each SELECT first sends the DELETEs, the UPDATE
or the INSERT that came before it, so a login holds row locks while it waits for others. `Wants`
says what the next flush locks, `Waits` and `Free` who waits for whom, and `Abort` is PostgreSQL
ending one request of a cycle of waits; those six definitions are external. Tokens expire
(`TokenExpire`), and rows later (`RowExpire`). A login takes one tick of `clock` at its sweep,
for the reading before that SELECT and the one after it, which the row is stamped with. A
refresh reloads its row after the commit; when the row was deleted in between only the answer is
another, and that is left out.

Run `old_sessions`: three logins and a refresh, or two logins, a refresh, a sign-out, a deletion
of all and a list, on two devices, with a maximum of one session. Two logins of one device and
one of another are the least that lets a login delete the row that another updates.
`OneRowPerDevice` holds by the UNIQUE constraint and the waits together. `WithinMaximum`: more
than the maximum only by logins that counted before another committed. `EvictsLeastRecent`: a
login that commits evicts what was seen less recently than what it leaves, as far as neither
side changed meanwhile (one that the database ends evicts nothing, and its own new row is not
there either). `PasswordEndsSessions`: what a deletion of all has read is gone once it has
committed. `RequestsEnd` (liveness): no request waits for ever, which takes the deadlock
detector.

Proved for any devices, logins, requests and maximum (`OldSessionsProofs`): the types,
`OneRowPerDevice`, `PasswordEndsSessions`, `WithinMaximum` and `EvictsLeastRecent`, none of which
is inductive. `RowsExplained` adds what a login knows: the row it has loaded is of its device
and of a login that ended, once it has flushed it holds that row's lock, and no other login that
has flushed is of the same device; so an INSERT meets no row of the device, and a row that was
deleted is not put back. `TimesApart` says that no two rows or requests have the same time, so
that ranks are distinct and a login that evicts all but the `MaxSessions` highest ranks leaves
at most so many (`HighestRanks`, `LimitLeaves`). `MaximumExplained` is the inductive form of
`WithinMaximum`: the rows which no other login crossed are never more than the maximum, nor are
the rows that such a login is about to leave. `SweepExplained` says that what a login is about
to evict ranks below what it spares, but for rows that were touched since.

### OldAccounts

The user row and the verification row of one address of the old tree: sign-up, request for a
link, click, sign-in, change of password. The counter of failed sign-ins changes on an object
that is never committed, so `failures` is a variable that stays 0 (`TypeOK`). A change of
password always ends in an AttributeError after its two commits (`ChangeMail`). A request that
loses the race for the row ends in stage "lost"; `TokenMail` refreshes the row and mails the
link it then holds (`Written`), or is lost too when a click has deleted the row.

Run `old_accounts`, with `MCOldAccounts` choosing a crowd: two sign-ups, two requests for a link
and two clicks; or one sign-up, a click, two sign-ins and two changes of password; a sign-up, a
click and a change may die. `LinksServed`: the newest mailed link is the stored one, a user is
welcomed once, and a request that is lost leaves another link or a verified user, in each case
but for overlapping requests. `SessionsEarned`: whoever signs in has clicked, and no session
outlives a change of password but one whose sign-in was under way. `PasswordKnown`: a password
is replaced only by a change whose caller typed that very password, or by one that another
change overtook between its check and its commit (`raced`); every change is held to this,
whatever came before it.

Proved for any tasks of kinds that are apart (`OldAccountsProofs`): `TypeCorrect`,
`LinksAreServed`, `SessionsAreEarned`, `ReplacedByWhoKnows`. The types are inductive with
`Informed` (what a request has found by each step). `LinksExplained` and `ClicksExplained` carry
`LinksServed`: a request that has found a row without an overlap has found the one that is
there, and a click that is through without one has left neither a row nor a request that could
make another. `SessionsExplained` carries the rest: a sign-in that has verified a password typed
the one that holds, unless a change that overlapped it has not swept, or has swept since. A
change that has compared the password and is in no race typed the one that holds, which gives
`PasswordKnown` for each change.

### MailTasks, Subscriptions, Avatars, ImagePipeline

Four parts that share no state; `MCBackground` runs one of them per behaviour (`background`).

* `MailTasks`: commit, `.delay()`, worker, retries, either tree. The server may take a mail
  and fail afterwards, the broker may be away, a worker may die with a task that was
  acknowledged. Two mails with links and one without, one retry each: two links are the least
  that can be out of order, one retry the least that can reorder. `MailsAccounted`: no mail is
  lost without its retries spent, a broker or worker gone, or a template that only the app
  replaces. `NewestLinkOnTop`: an older link arrives after a newer one only if both were on
  their way at once. `MailSettles` (liveness): a mail that was due is sent or given up.
* `Subscriptions`: two commits around the calls of PesaPal, which may fail before or after it
  took the order, the payer, and repeated notifications, which store nothing. Assumed of PesaPal:
  an answer that is no failure carries a tracking id, and notifications name known orders.
  `OrdersSound`: every order that PesaPal holds has its row, a paid one can be found by its
  tracking id, and a row without one is of a call that failed or goes on.
* `Avatars` and `ImagePipeline`: the file and the row of an avatar, and the geometry of the
  pipeline with its floating-point quotients: a quotient that is a whole number may come out one
  lower. `PicturesSound`: a file is lost only by a second upload; results stay in their box, keep
  their proportions and are never empty; only slivers are refused; a logo is inside the
  picture. Six lengths, a limit of six and boxes of two and five cover enlarging, reducing,
  equal sides, and slivers that round to 0.

Proved for any mails, orders, uploads and lengths (`BackgroundProofs`): `MailsAreAccounted`,
`NewestLinkIsOnTop`, `OrdersAreSound`, `FileLostByReplacement`, `PicturesAreSound`. A behaviour
moves one of the four parts, and `PartSteps` lets each proof look at the steps of its own.
`MailsExplained` counts the tries of a mail against its state; `LinksOrdered` says that a link
which had not arrived when a later one was issued is out of turn; `OrdersExplained` says what
PesaPal can hold by each step of a call; `FileExplained` follows the file between an upload's
write and its commit. `PictureExplained` bounds the result of each operation from its two
lengths. With the quotients one too low where the floating point may err, `ScaledLength` bounds
a scaled side from both ends, and `FittedPicture`, `ResizedPicture` and `LogoFits` say what that
leaves of the box, the proportions and the logo's place. The lengths need only be positive and
the logo's share of the picture at least two.

### Fairness

Safety needs none. `UserSessions!FairSpec` has weak fairness of the steps of each request that
has begun: the event loop resumes a task whose database call has returned. Clients (`Send`) and
crashes have none. `OldSessions!FairSpec` asks less, that some request under way moves while one
can; it includes the database's detector. `AccountLockout!FairSpec` has weak fairness of `Tick`
(time passes) and of each commit; attempts are never forced to come, and `FailuresLock` assumes
that they do in its premise. `GoogleSignIn!FairSpec` has fairness of the steps of a registration
and of a click once each has begun; nobody has to register or to open a link. `MailFairness` is
fairness of the steps of each mail: workers that run take what is queued and due.

### Proved, and only model-checked

TLAPS proves, from the constants' assumptions alone, every safety invariant and every action
property of the passing runs, and the type invariants. The assumptions are named in the modules,
and TLC evaluates them of each instance: kinds of requests are disjoint, markers (`Nothing`,
`NoRow`, `NoFile`, ...) differ from names, limits and retries are natural numbers, users and
devices are finite, durations and lengths are positive, lockouts do not decrease. Where a module
is used through `INSTANCE` they are hypotheses of its theorems (`ConstantsFit`, `KindsApart`),
which the MC module assumes of its instance (`OldConstantsFit`, `OldKindsApart`) and the lifted
theorems discharge.

Only model-checked are liveness (`PendingResolved`, `LockEnds`, `FailuresLock`, `RequestsEnd`,
`MailSettles`), which is out of TLAPS's reach, and the counterexamples of part 4. A few
invariants are stated as one conjunction (`OldResetSound`, `OldFactorSound`, `LinksServed`,
`SessionsEarned`, `MailsAccounted`, `OrdersSound`, `PicturesSound`); the parts are named and
commented where they are defined.

A proof found what the run could not reach: an earlier form of `EvictsLeastRecent` spoke of the
end of any login that had picked what to evict, and its proof failed on one that the database
ends; TLC refuted it with five logins on four devices, and the property now speaks of commits.

## 4. What the code says and does not keep

Each of these is a run whose property must fail; TLC's trace is the scenario.

| Run | The code says | What happens |
|---|---|---|
| `claim_password` | "Password changed successfully. Please login again." | a login that verified the old password opens its session after the sweep |
| `claim_registered` | "Account created successfully. Please verify your email." | the link of that mail is opened while it is good (`ClickVerifies`), and the row stays unverified: no route of `app/` takes it, and sign-in requires it |
| `claim_avatar` | "Remove an old avatar file when the user uploads a new one." | every avatar of a user has one name: the second upload deletes its own file |

`ClickVerifies` asks nothing of an account whose link nobody opens, and the fairness is that of
requests under way; with `tree` fixed to "old" in `Init`, where the route exists, TLC finds that
it holds. So what it refutes in the app is the missing route.

Further properties stand at the end of their modules under "What the code says of itself and
does not keep". They have no run of their own; put into the `.cfg` named here, TLC refutes
each.

| Definition | Configuration | What happens |
|---|---|---|
| `ActiveWithinMaximum` (UserSessions) | SessionsLimit.cfg | the limit spares the row of its own login: one more than the setting stays |
| `LogoutEndsToken` (UserSessions) | SessionsRaces.cfg | a login on the device revives the row, and the token in the row with it |
| `NewestLinkWorks` (PasswordReset) | ResetLinks.cfg | a confirmation marks the link that a request has just put into the row |
| `EnabledVerified` (TwoFactor) | TwoFactorRaces.cfg | a verify turns on a secret that a later enable has drawn |
| `ChallengesEnd` (TwoFactor) | TwoFactorRaces.cfg | a challenge from before a change of password opens a session after it |
| `ListedLive` (OldSessions) | OldSessionsRaces.cfg | the list shows expired rows |
| `ChangeAnswered` (OldAccounts) | OldAccountsRaces.cfg | every change of password fails after its commits |
| `GuessingLocks` (OldAccounts) | OldAccountsRaces.cfg | the failure counter is never stored, so no number of guesses locks (`LockAt` is 1 there, for two sign-ins) |
| `PaidIsActive` (Subscriptions) | Background.cfg | the notification of a payment stores nothing |

## 5. Not modelled, and what is left

Not modelled: Turnstile (one external call in front of a handler), signing and hashing of
tokens (pure library functions; tokens are named by what they carry), wiring and settings,
migrations, route placeholders and tables without code, the profile's unconditional write of a
name, templates, the smoke test. The denylist of app/core/redis_client.py has no caller.
Within the modelled parts: one code of an authenticator used twice within its window (codes
carry no time), the lifetimes of access tokens, pixels and encodings, and the mailed code
of the old tree, which no request can obtain. A Google sign-in asks for no second factor; the
exchange is modelled, the second factor it skips is not composed with it.

Left, in this order: an abstract session store with atomic requests, which `UserSessions`
implements where requests do not overlap on a row, with TLC first and then step by step; the
abstract forms of the other rows in the same way (`LockoutPolicy` is the only one so far); the
exchange of a google_token composed with `TwoFactor`'s row; and the four hazards that no
property covers, at `auth_service.py:199` and `:405`, `google_oauth.py:382` and `billing.py:81`,
which are behaviours the code has rather than ones it excludes.
