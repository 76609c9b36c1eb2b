---------------------------- MODULE UserSessions ----------------------------
(***************************************************************************)
(* Login sessions of the FastAPI application (app/services/auth_service.py *)
(* behind app/routers/auth.py): one row of user_sessions per user and      *)
(* device, opened by a login, rotated by a refresh, revoked by a logout, a *)
(* sweep or the session limit.                                             *)
(*                                                                         *)
(* A request is an asyncio task with one database session.  Between two    *)
(* awaits it runs alone; at every await any other request may run.  One    *)
(* action is one SELECT (the request keeps what it read until it ends) or  *)
(* one COMMIT.  A commit writes only the columns whose value differs from  *)
(* the value the request LOADED: SQLAlchemy leaves an unchanged attribute  *)
(* out of the UPDATE.  Rows are never deleted.                             *)
(***************************************************************************)
EXTENDS Naturals, FiniteSets

CONSTANTS
    Users, Devices,    \* a session row belongs to one user on one device
    Logins,            \* POST /login (or /2fa/validate, once it has passed)
    Refreshes,         \* POST /refresh
    Logouts,           \* POST /logout
    LogoutAlls,        \* POST /logout-all
    Revokes,           \* DELETE /sessions/{session_id}
    PasswordChanges,   \* POST /change-password, and among them
    Resets,            \* POST /password-reset/confirm
    CrashProne,        \* the requests whose task may die between two awaits
    MaxSessions,       \* MAX_ACTIVE_SESSIONS_PER_USER
    NoRow, Pending     \* not a row yet; the placeholder "pending"

Requests == Logins \cup Refreshes \cup Logouts \cup LogoutAlls
              \cup Revokes \cup PasswordChanges

\* Each login and refresh mints one refresh token, named after the request.
Tokens == Logins \cup Refreshes

Sessions == Users \X Devices
Owner(s) == s[1]

ASSUME LimitAssumption == MaxSessions \in Nat
ASSUME FiniteAssumption == IsFiniteSet(Users) /\ IsFiniteSet(Devices)
ASSUME HashAssumption == NoRow # Pending /\ NoRow \notin Requests
                           /\ Pending \notin Requests
ASSUME KindAssumption ==
    /\ Logins \cap (Refreshes \cup Logouts \cup LogoutAlls \cup Revokes
                      \cup PasswordChanges) = {}
    /\ Refreshes \cap (Logouts \cup LogoutAlls \cup Revokes
                         \cup PasswordChanges) = {}
    /\ Logouts \cap (LogoutAlls \cup Revokes \cup PasswordChanges) = {}
    /\ LogoutAlls \cap (Revokes \cup PasswordChanges) = {}
    /\ Revokes \cap PasswordChanges = {}
    /\ Resets \subseteq PasswordChanges

VARIABLES
    active,     \* the rows with is_active
    hash,       \* refresh_token_hash of each row: a token, Pending or NoRow
    seen,       \* last_seen_at of each row
    clock,      \* wall clock: each reading is later than the ones before
    pwVersion,  \* how many times each user's password was changed
    opened,     \* pwVersion of the owner when the row was last opened
    proved,     \* the version of the password that opening login verified
    pc,         \* where each request is
    crashed,    \* the requests whose task has died
    target,     \* the row each request works on
    loaded,     \* that row as the request's SELECT saw it
    now,        \* the time the request read
    knows,      \* the version of the password the request verified or set
    victims,    \* the rows the request is about to revoke
    shown       \* the refresh token (or the access token minted with it)
                \* that the request presented

table == <<active, hash, seen, opened, proved>>
local == <<target, loaded, now, knows, victims, shown>>
vars == <<table, clock, pwVersion, pc, crashed, local>>

Stages == {"idle", "authenticated", "selected", "opened", "minted", "limiting",
           "alerting", "checked", "touching", "rotating", "revoking", "authorised",
           "passwordSet", "sweeping", "done", "rejected", "failed"}

Answered == {"done", "rejected", "failed"}

\* The stages of a request whose token has been committed to its row.
Holding == {"minted", "limiting", "alerting", "done"}

\* A client may present a refresh token once the response carried it.
Issued == {t \in Tokens : pc[t] = "done"}

Status(s) == IF hash[s] = NoRow THEN "none"
             ELSE IF s \in active THEN "active" ELSE "inactive"

Active(u) == {s \in active : Owner(s) = u}

Init ==
    /\ active = {}
    /\ hash = [s \in Sessions |-> NoRow]
    /\ seen = [s \in Sessions |-> 0]
    /\ clock = 0
    /\ pwVersion = [u \in Users |-> 0]
    /\ opened = [s \in Sessions |-> 0]
    /\ proved = [s \in Sessions |-> 0]
    /\ pc = [r \in Requests |-> "idle"]
    /\ crashed = {}
    /\ \E s \in Sessions : target = [r \in Requests |-> s]   \* not read yet
    /\ loaded = [r \in Requests |-> "none"]
    /\ now = [r \in Requests |-> 0]
    /\ knows = [r \in Requests |-> 0]
    /\ victims = [r \in Requests |-> {}]
    /\ shown = [r \in Requests |-> r]

-----------------------------------------------------------------------------
(* Steps shared by the handlers.                                           *)

At(r, stage) == r \notin crashed /\ pc[r] = stage
Goto(r, stage) == pc' = [pc EXCEPT ![r] = stage]
Load(r, s) == /\ target' = [target EXCEPT ![r] = s]
              /\ loaded' = [loaded EXCEPT ![r] = Status(s)]
ReadClock(r) == /\ clock' = clock + 1
                /\ now' = [now EXCEPT ![r] = clock + 1]

-----------------------------------------------------------------------------
(* POST /login.  authenticate_email_user verifies the password against the *)
(* user row as it was read; the row's own columns (the lockout counter)    *)
(* are the subject of AccountLockout.                                      *)

LoginAuthenticate(r) ==
    /\ At(r, "idle")
    /\ \E s \in Sessions :
         /\ target' = [target EXCEPT ![r] = s]
         /\ knows' = [knows EXCEPT ![r] = pwVersion[Owner(s)]]
    /\ Goto(r, "authenticated")
    /\ UNCHANGED <<table, clock, pwVersion, crashed, loaded, now, victims, shown>>

LoginSelectSession(r) ==
    /\ At(r, "authenticated")
    /\ Load(r, target[r])
    /\ ReadClock(r)
    /\ Goto(r, "selected")
    /\ UNCHANGED <<table, pwVersion, crashed, knows, victims, shown>>

\* What a committed INSERT or re-activation leaves in the row.
OpenRow(r) ==
    /\ seen' = [seen EXCEPT ![target[r]] = now[r]]
    /\ opened' = [opened EXCEPT ![target[r]] = pwVersion[Owner(target[r])]]
    /\ proved' = [proved EXCEPT ![target[r]] = knows[r]]

\* Mutant: the placeholder is not covered by the unique index.
InsertAllowedSharedPlaceholder(s) == hash[s] = NoRow

\* The INSERT must not meet a row of the same user and device, nor any row
\* that still holds the placeholder: both columns are UNIQUE.
InsertAllowed(s) == hash[s] = NoRow /\ \A x \in Sessions : hash[x] # Pending

LoginInsert(r) ==
    /\ At(r, "selected") /\ loaded[r] = "none"
    /\ InsertAllowed(target[r])
    /\ hash' = [hash EXCEPT ![target[r]] = Pending]
    /\ active' = active \cup {target[r]}
    /\ OpenRow(r)
    /\ Goto(r, "opened")
    /\ UNCHANGED <<clock, pwVersion, crashed, local>>

LoginInsertConflict(r) ==
    /\ At(r, "selected") /\ loaded[r] = "none"
    /\ ~InsertAllowed(target[r])
    /\ Goto(r, "failed")
    /\ UNCHANGED <<table, clock, pwVersion, crashed, local>>

\* is_active is written only if the SELECT saw the row inactive.
LoginReactivate(r) ==
    /\ At(r, "selected") /\ loaded[r] # "none"
    /\ active' = IF loaded[r] = "inactive" THEN active \cup {target[r]} ELSE active
    /\ OpenRow(r)
    /\ Goto(r, "opened")
    /\ UNCHANGED <<hash, clock, pwVersion, crashed, local>>

\* Mutant: the second commit of create_login_session is missing.
LoginCommitTokenLost(r) ==
    /\ At(r, "opened")
    /\ Goto(r, "minted")
    /\ UNCHANGED <<table, clock, pwVersion, crashed, local>>

LoginCommitToken(r) ==
    /\ At(r, "opened")
    /\ hash' = [hash EXCEPT ![target[r]] = r]
    /\ Goto(r, "minted")
    /\ UNCHANGED <<active, seen, opened, proved, clock, pwVersion, crashed, local>>

\* Mutant: sessions[max_sessions + 1:].
NewestAndOneMore(S) ==
    {K \in SUBSET S :
        /\ Cardinality(K) = (IF Cardinality(S) < MaxSessions + 1 THEN Cardinality(S)
                             ELSE MaxSessions + 1)
        /\ \A k \in K, x \in S \ K : seen[k] >= seen[x]}

\* The first MaxSessions rows of a list sorted by last_seen_at, latest first.
Newest(S) ==
    {K \in SUBSET S :
        /\ Cardinality(K) = (IF Cardinality(S) < MaxSessions THEN Cardinality(S)
                             ELSE MaxSessions)
        /\ \A k \in K, x \in S \ K : seen[k] >= seen[x]}

LoginSelectActive(r) ==
    /\ At(r, "minted")
    /\ \E K \in Newest(Active(Owner(target[r]))) :
         victims' = [victims EXCEPT ![r] =
                       Active(Owner(target[r])) \ (K \cup {target[r]})]
    /\ Goto(r, "limiting")
    /\ UNCHANGED <<table, clock, pwVersion, crashed, target, loaded, now, knows, shown>>

LoginCommitLimit(r) ==
    /\ At(r, "limiting")
    /\ active' = active \ victims[r]
    /\ Goto(r, "alerting")
    /\ UNCHANGED <<hash, seen, opened, proved, clock, pwVersion, crashed, local>>

\* The login alert is queued, then the response carries the tokens.  A request
\* that cannot reach the broker dies here: the client gets a 500 instead.
LoginAlert(r) ==
    /\ At(r, "alerting")
    /\ Goto(r, "done")
    /\ UNCHANGED <<table, clock, pwVersion, crashed, local>>

-----------------------------------------------------------------------------
(* POST /refresh: check the row, load the user, stamp last_seen_at, then   *)
(* store the hash of the new token.                                        *)

Accepts(t) == target[t] \in active /\ hash[target[t]] = t

RefreshSelectSession(r) ==
    /\ At(r, "idle")
    /\ \E t \in Issued :
         /\ Load(r, target[t])
         /\ shown' = [shown EXCEPT ![r] = t]
         /\ Goto(r, IF Accepts(t) THEN "checked" ELSE "rejected")
    /\ UNCHANGED <<table, clock, pwVersion, crashed, now, knows, victims>>

RefreshSelectUser(r) ==
    /\ At(r, "checked")
    /\ ReadClock(r)
    /\ Goto(r, "touching")
    /\ UNCHANGED <<table, pwVersion, crashed, target, loaded, knows, victims, shown>>

\* Mutant: the UPDATE writes every column as loaded, the token hash too.
RefreshCommitSeenWholeRow(r) ==
    /\ At(r, "touching")
    /\ seen' = [seen EXCEPT ![target[r]] = now[r]]
    /\ hash' = [hash EXCEPT ![target[r]] = shown[r]]
    /\ Goto(r, "rotating")
    /\ UNCHANGED <<active, opened, proved, clock, pwVersion, crashed, local>>

RefreshCommitSeen(r) ==
    /\ At(r, "touching")
    /\ seen' = [seen EXCEPT ![target[r]] = now[r]]
    /\ Goto(r, "rotating")
    /\ UNCHANGED <<active, hash, opened, proved, clock, pwVersion, crashed, local>>

\* Mutant: the UPDATE writes every column as loaded, is_active too.
RefreshCommitTokenWholeRow(r) ==
    /\ At(r, "rotating")
    /\ hash' = [hash EXCEPT ![target[r]] = r]
    /\ active' = active \cup {target[r]}
    /\ Goto(r, "done")
    /\ UNCHANGED <<seen, opened, proved, clock, pwVersion, crashed, local>>

RefreshCommitToken(r) ==
    /\ At(r, "rotating")
    /\ hash' = [hash EXCEPT ![target[r]] = r]
    /\ Goto(r, "done")
    /\ UNCHANGED <<active, seen, opened, proved, clock, pwVersion, crashed, local>>

-----------------------------------------------------------------------------
(* Revocation of one row: POST /logout and DELETE /sessions/{session_id}.  *)

\* is_active := False reaches the UPDATE only if the row was loaded active.
RevokeLoaded(r) ==
    active' = IF loaded[r] = "active" THEN active \ {target[r]} ELSE active

LogoutSelect(r) ==
    /\ At(r, "idle")
    /\ \E t \in Issued :
         /\ Load(r, target[t])
         /\ shown' = [shown EXCEPT ![r] = t]
    /\ Goto(r, "revoking")
    /\ UNCHANGED <<table, clock, pwVersion, crashed, now, knows, victims>>

\* get_current_user: the row of the access token must be active.
Authorise(r) ==
    /\ At(r, "idle")
    /\ \E t \in Issued :
         /\ Load(r, target[t])
         /\ shown' = [shown EXCEPT ![r] = t]
         /\ Goto(r, IF target[t] \in active THEN "authorised" ELSE "rejected")
    /\ UNCHANGED <<table, clock, pwVersion, crashed, now, knows, victims>>

\* The row that Authorise read is dropped by then, so the session of the access token is
\* loaded anew like any other.
RevokeSelect(r) ==
    /\ At(r, "authorised")
    /\ \E s \in Sessions :
         /\ Owner(s) = Owner(target[r])
         /\ IF hash[s] = NoRow
            THEN Goto(r, "rejected") /\ UNCHANGED <<target, loaded>>
            ELSE Goto(r, "revoking") /\ Load(r, s)
    /\ UNCHANGED <<table, clock, pwVersion, crashed, now, knows, victims, shown>>

RevokeCommit(r) ==
    /\ At(r, "revoking")
    /\ RevokeLoaded(r)
    /\ Goto(r, "done")
    /\ UNCHANGED <<hash, seen, opened, proved, clock, pwVersion, crashed, local>>

-----------------------------------------------------------------------------
(* revoke_user_sessions, called by POST /logout-all and, after the new     *)
(* password is committed, by POST /change-password and by POST             *)
(* /password-reset/confirm.                                                *)

\* confirm_password_reset finds the user of a reset token: which tokens it
\* accepts is the subject of PasswordReset.
ResetAccept(r) ==
    /\ At(r, "idle")
    /\ \E s \in Sessions : target' = [target EXCEPT ![r] = s]
    /\ Goto(r, "authorised")
    /\ UNCHANGED <<table, clock, pwVersion, crashed, loaded, now, knows, victims, shown>>

\* The body's current password may be wrong, or the token's user unknown.
ChangePassword(r) ==
    /\ At(r, "authorised")
    /\ \/ /\ LET u == Owner(target[r]) IN
               /\ pwVersion' = [pwVersion EXCEPT ![u] = @ + 1]
               /\ knows' = [knows EXCEPT ![r] = pwVersion[u] + 1]
          /\ Goto(r, "passwordSet")
       \/ Goto(r, "rejected") /\ UNCHANGED <<pwVersion, knows>>
    /\ UNCHANGED <<table, clock, crashed, target, loaded, now, victims, shown>>

\* Mutant: the sweep spares the session that asks for it (except_session_id).
SweepSelectSparingOwn(r) ==
    /\ At(r, IF r \in PasswordChanges THEN "passwordSet" ELSE "authorised")
    /\ victims' = [victims EXCEPT ![r] = Active(Owner(target[r])) \ {target[r]}]
    /\ Goto(r, "sweeping")
    /\ UNCHANGED <<table, clock, pwVersion, crashed, target, loaded, now, knows, shown>>

SweepSelect(r) ==
    /\ At(r, IF r \in PasswordChanges THEN "passwordSet" ELSE "authorised")
    /\ victims' = [victims EXCEPT ![r] = Active(Owner(target[r]))]
    /\ Goto(r, "sweeping")
    /\ UNCHANGED <<table, clock, pwVersion, crashed, target, loaded, now, knows, shown>>

SweepCommit(r) ==
    /\ At(r, "sweeping")
    /\ active' = active \ victims[r]
    /\ Goto(r, "done")
    /\ UNCHANGED <<hash, seen, opened, proved, clock, pwVersion, crashed, local>>

-----------------------------------------------------------------------------
\* The process, or the connection of the request, dies between two awaits:
\* what is committed stays, the rest of the handler never runs.
Crash(r) ==
    /\ r \in CrashProne \ crashed
    /\ pc[r] \notin Answered \cup {"idle"}
    /\ crashed' = crashed \cup {r}
    /\ UNCHANGED <<table, clock, pwVersion, pc, local>>

Login(r) ==
    \/ LoginSelectSession(r) \/ LoginInsert(r) \/ LoginInsertConflict(r)
    \/ LoginReactivate(r) \/ LoginCommitToken(r)
    \/ LoginSelectActive(r) \/ LoginCommitLimit(r) \/ LoginAlert(r)

Refresh(r) == RefreshSelectUser(r) \/ RefreshCommitSeen(r) \/ RefreshCommitToken(r)

\* A client sends a request; nothing says that it ever will.
Send ==
    \/ \E r \in Logins : LoginAuthenticate(r)
    \/ \E r \in Refreshes : RefreshSelectSession(r)
    \/ \E r \in Logouts : LogoutSelect(r)
    \/ \E r \in LogoutAlls \cup Revokes \cup (PasswordChanges \ Resets) : Authorise(r)
    \/ \E r \in Resets : ResetAccept(r)

\* A handler that has started goes on.
Step(r) ==
    \/ r \in Logins /\ Login(r)
    \/ r \in Refreshes /\ Refresh(r)
    \/ r \in Revokes /\ RevokeSelect(r)
    \/ r \in Logouts \cup Revokes /\ RevokeCommit(r)
    \/ r \in PasswordChanges /\ ChangePassword(r)
    \/ r \in LogoutAlls \cup PasswordChanges /\ (SweepSelect(r) \/ SweepCommit(r))

Next == Send \/ \E r \in Requests : Step(r) \/ Crash(r)

Spec == Init /\ [][Next]_vars

\* The event loop resumes every task whose database call has returned.
FairSpec == Spec /\ \A r \in Requests : WF_vars(Step(r))

-----------------------------------------------------------------------------
(* Correctness.                                                            *)

Hashes == Tokens \cup {NoRow, Pending}

Typed ==
    /\ active \in SUBSET Sessions
    /\ hash \in [Sessions -> Hashes]
    /\ seen \in [Sessions -> Nat]
    /\ clock \in Nat
    /\ pwVersion \in [Users -> Nat]
    /\ opened \in [Sessions -> Nat]
    /\ proved \in [Sessions -> Nat]
    /\ pc \in [Requests -> Stages]
    /\ crashed \in SUBSET Requests
    /\ target \in [Requests -> Sessions]
    /\ loaded \in [Requests -> {"none", "inactive", "active"}]
    /\ now \in [Requests -> Nat]
    /\ knows \in [Requests -> Nat]
    /\ victims \in [Requests -> SUBSET Sessions]
    /\ shown \in [Requests -> Requests]

RowsExist ==
    /\ \A s \in active : hash[s] # NoRow
    /\ \A r \in Requests : loaded[r] # "none" =>
                              hash[target[r]] # NoRow /\ pc[r] # "idle"

\* Every variable keeps its type.  Rows are never deleted, so an active row and
\* a row that some request has loaded are still in the table.
TypeOK == Typed /\ RowsExist

\* The rows whose opening login has not run its own limit check yet.
Unchecked == {target[r] : r \in {q \in Logins : pc[q] \in {"opened", "minted"}}}

WithinLimit(S) == Cardinality(S) <= MaxSessions + 1

\* The session limit under any interleaving.  enforce_session_limit spares the
\* row of its own login even when that row is not among the newest, so the
\* limit that the code keeps is one more than the setting; rows of logins that
\* have yet to look come on top, and so do rows that a login has picked but
\* not revoked.  Nothing else raises the number of active rows of a user.
SessionLimit ==
    \A u \in Users :
        \/ WithinLimit(Active(u) \ Unchecked)
        \/ \E r \in Logins :
              /\ pc[r] = "limiting" /\ Owner(target[r]) = u
              /\ WithinLimit(Active(u) \ (Unchecked \cup victims[r]))

\* Once no login of the user is under way (nor dead in its tracks), the user
\* has at most MaxSessions + 1 active sessions.
SettledLimit ==
    \A u \in Users :
        (\A r \in Logins : Owner(target[r]) = u =>
                               pc[r] \notin {"opened", "minted", "limiting"})
          => WithinLimit(Active(u))

\* The placeholder "pending" is in at most one row of the whole table, and it
\* is there only between the two commits of the login that inserted the row,
\* or for good when that login died there.
PendingOwned ==
    /\ \A s, x \in Sessions : hash[s] = Pending /\ hash[x] = Pending => s = x
    /\ \A s \in Sessions : hash[s] = Pending =>
         \E r \in Logins : pc[r] = "opened" /\ loaded[r] = "none" /\ target[r] = s

\* A token that a row holds was minted for that row.
TokenHeld ==
    \A s \in Sessions, t \in Tokens : hash[s] = t =>
        target[t] = s /\ pc[t] \in Holding

\* A session whose logins and refreshes have all been answered holds a token
\* that some client was given: concurrent rotations may void each other's
\* tokens, but they never leave a session without one.
TokenDelivered ==
    \A s \in Sessions :
        /\ hash[s] # NoRow
        /\ \A r \in Tokens : target[r] = s /\ pc[r] # "idle" => pc[r] \in Answered
        => hash[s] \in Issued /\ target[hash[s]] = s

\* The sweep of a password change or reset misses no session that was opened
\* before it: such a session is active only while the change is at work on
\* it (or died there).  A session it may miss was opened after the change, by
\* a login that had verified the old password before it.
SweepComplete ==
    \A s \in active : opened[s] < pwVersion[Owner(s)] =>
        \E r \in PasswordChanges :
            /\ Owner(target[r]) = Owner(s)
            /\ \/ pc[r] = "passwordSet"
               \/ pc[r] = "sweeping" /\ s \in victims[r]

\* A revoked row becomes active only by the commit of a login that had seen it
\* revoked: no refresh, no stale copy held by another request revives it.
RevocationSticks ==
    [][\A s \in Sessions : s \notin active /\ s \in active' =>
         \E r \in Logins : /\ pc[r] = "selected" /\ pc'[r] = "opened"
                           /\ target[r] = s /\ loaded[r] # "active"]_vars

\* A refresh token that was rotated out never becomes the row's token again.
TokenNeverReturns ==
    [][\A t \in Tokens : /\ pc[t] \in Holding
                         /\ hash[target[t]] # t
                         => hash'[target'[t]] # t]_vars

\* A placeholder is replaced, unless the login that put it there has died.
PendingResolved ==
    \A s \in Sessions : hash[s] = Pending ~>
        hash[s] # Pending \/ \E r \in crashed : target[r] = s /\ pc[r] = "opened"
-----------------------------------------------------------------------------
(* What the code says of itself and does not keep.                         *)

Quiet(u) == \A r \in Logins \cup PasswordChanges :
               Owner(target[r]) = u => pc[r] \in Answered \cup {"idle"}

\* The setting MAX_ACTIVE_SESSIONS_PER_USER read literally: when nothing is
\* under way, no user has more than that many active sessions.
ActiveWithinMaximum ==
    \A u \in Users : Quiet(u) => Cardinality(Active(u)) <= MaxSessions

\* "Password changed successfully. Please login again.": once a change has
\* been answered and nothing is under way, every active session was opened by
\* a login that knew the current password.
NoSessionOutlivesPassword ==
    \A s \in active : Quiet(Owner(s)) => proved[s] = pwVersion[Owner(s)]

\* "Logged out successfully.": a refresh that is sent after the logout was
\* answered does not accept the token that was logged out.
LogoutEndsToken ==
    [][\A f \in Refreshes, o \in Logouts :
         pc[o] = "done" /\ pc[f] = "idle" /\ pc'[f] = "checked"
           => shown'[f] # shown[o]]_vars
=============================================================================
