--------------------------- MODULE OldPasswordReset ---------------------------
(***************************************************************************)
(* Password reset links of one user in the old tree (password_reset/       *)
(* service.py and router.py): the one row of the user, which also carries  *)
(* the cooldown and the daily count of requests, and a confirmation that   *)
(* commits the new password, the mark on the row and the deletion of the   *)
(* sessions one after the other.                                           *)
(* A link is named after the request that minted it, a password is counted *)
(* from 0.  Time is counted in ticks; a commit writes only columns that    *)
(* differ from what was loaded.                                            *)
(***************************************************************************)
EXTENDS Naturals, Sequences, FiniteSets

CONSTANTS
    Requests,      \* POST /password-reset/request/; each mints one link
    Confirms,      \* POST /password-reset/confirm/
    SignIns,       \* POST /signin/ with the right password
    CrashProne,    \* the tasks that may die between two awaits
    NoToken,       \* there is no row yet
    CooldownSteps, \* COOLDOWN_STEPS, in ticks
    MaxPerDay,     \* PASSWORD_RESET_MAX_REQUESTS_PER_DAY
    LinkLife,      \* PASSWORD_RESET_TOKEN_EXPIRY_MINUTES, in ticks
    DayLength,     \* ticks from one UTC midnight to the next
    Horizon        \* bound: the last tick

\* A task is of one kind, the marker is no link, and the limits are limits.
ConstantsFit ==
    /\ Requests \cap (Confirms \cup SignIns) = {} /\ Confirms \cap SignIns = {}
    /\ NoToken \notin Requests
    /\ CooldownSteps \in Seq(Nat) /\ CooldownSteps # <<>>
    /\ \A i \in 1..Len(CooldownSteps) : CooldownSteps[1] <= CooldownSteps[i]
    /\ MaxPerDay \in Nat \ {0} /\ LinkLife \in Nat /\ DayLength \in Nat \ {0}
    /\ Horizon \in Nat

VARIABLES
    tick,          \* the wall clock
    link,          \* the row's token
    linkUsed,      \* its is_used: "fresh" or "used"
    linkEnd,       \* its expires_at
    count,         \* its request_count
    cooldownUntil, \* its cooldown_until
    windowEnd,     \* its cooldown_reset_at
    stage,         \* where each task is
    at,            \* the time that a request has read
    got,           \* the row that a request has loaded
    carried,       \* the link that a confirmation carries
    password,      \* the user's password
    chosen,        \* the password that a confirmation has set
    sessions,      \* the passwords that open sessions were signed in with
    verified,      \* the password that a sign-in has verified
    late,          \* those of sign-ins that verified before a change and opened after
    sent,          \* the links whose mail was queued
    spent,         \* the links that have reset the password
    minted,        \* the requests that have committed
    overlapped,    \* the requests that read the row before another's commit
    clashed        \* the requests that overlapped a confirmation

linkRow == <<link, linkUsed, linkEnd, count, cooldownUntil, windowEnd>>
signins == <<sessions, verified, late>>
account == <<password, signins>>
carriedBy == <<at, got, carried, chosen>>
history == <<sent, spent, minted, overlapped, clashed>>
oldVars == <<tick, linkRow, stage, carriedBy, account, history>>

NoRow == [row |-> "none", used |-> "fresh", count |-> 0, window |-> 0]

OldInit ==
    /\ tick = 0 /\ link = NoToken /\ linkUsed = "fresh" /\ linkEnd = 0
    /\ count = 0 /\ cooldownUntil = 0 /\ windowEnd = 0
    /\ stage = [t \in Requests \cup Confirms \cup SignIns |-> "idle"]
    /\ at = [r \in Requests |-> 0] /\ got = [r \in Requests |-> NoRow]
    /\ carried = [c \in Confirms |-> NoToken] /\ chosen = [c \in Confirms |-> 0]
    /\ password = 0 /\ sessions = {0} /\ late = {}
    /\ verified = [s \in SignIns |-> 0]
    /\ sent = {} /\ spent = {} /\ minted = {} /\ overlapped = {} /\ clashed = {}

To(t, s) == stage' = [stage EXCEPT ![t] = s]
Reading == {r \in Requests : stage[r] = "selected"}
Confirming == {c \in Confirms : stage[c] \in {"accepted", "changed"}}

\* next_utc_midnight and get_cooldown_delay.
Midnight(time) == (time \div DayLength + 1) * DayLength

\* Mutant: the first request of a day starts no cooldown.
CooldownEarly(n) == IF n = 1 THEN 0 ELSE CooldownSteps[1]

Cooldown(n) == CooldownSteps[IF n < Len(CooldownSteps) THEN n ELSE Len(CooldownSteps)]

-----------------------------------------------------------------------------
(* POST /password-reset/request/.                                          *)

\* The count of a request, and the end of the day it counts in.
NextCount(loaded, time) == IF loaded.window > time THEN loaded.count + 1 ELSE 1
NextWindow(loaded, time) == IF loaded.window > time THEN loaded.window ELSE Midnight(time)

Refused(loaded, until, time) ==
    loaded.row = "row" /\ (until > time \/ NextCount(loaded, time) > MaxPerDay)

\* One reading of the clock stands for the two of the code, before this SELECT and in
\* next_utc_midnight after it.
RequestSelect(r) ==
    LET loaded == IF link = NoToken THEN NoRow
                  ELSE [row |-> "row", used |-> linkUsed, count |-> count,
                        window |-> windowEnd]
    IN  /\ stage[r] = "idle"
        /\ at' = [at EXCEPT ![r] = tick]
        /\ got' = [got EXCEPT ![r] = loaded]
        /\ IF Refused(loaded, cooldownUntil, tick)
           THEN To(r, "rejected") /\ UNCHANGED clashed
           ELSE /\ To(r, "selected")
                /\ clashed' = IF Confirming # {} THEN clashed \cup {r} ELSE clashed
        /\ UNCHANGED <<tick, linkRow, carried, chosen, account, sent, spent, minted,
                       overlapped>>

\* A column that an UPDATE leaves out when it is as loaded.
Written(new, loaded, current) == IF new = loaded THEN current ELSE new

\* user_id is UNIQUE: an insert fails when another has inserted the row meanwhile.
RequestCommit(r) ==
    LET loaded == got[r]
        n == NextCount(loaded, at[r])
        w == NextWindow(loaded, at[r])
    IN  /\ stage[r] = "selected"
        /\ \/ /\ loaded.row = "none" /\ link # NoToken
              /\ To(r, "failed")
              /\ UNCHANGED <<linkRow, minted, overlapped>>
           \/ /\ loaded.row = "row" \/ link = NoToken
              /\ link' = r /\ linkEnd' = at[r] + LinkLife
              /\ linkUsed' = Written("fresh", loaded.used, linkUsed)
              /\ count' = Written(n, loaded.count, count)
              /\ windowEnd' = Written(w, loaded.window, windowEnd)
              /\ cooldownUntil' = at[r] + Cooldown(n)
              /\ minted' = minted \cup {r}
              /\ overlapped' = overlapped \cup (Reading \ {r})
              /\ To(r, "mailing")
        /\ UNCHANGED <<tick, carriedBy, account, sent, spent, clashed>>

\* db.refresh reads the row again: the link that it holds by now is mailed.
RequestMail(r) ==
    /\ stage[r] = "mailing"
    /\ sent' = sent \cup {link}
    /\ To(r, "done")
    /\ UNCHANGED <<tick, linkRow, carriedBy, account, spent, minted, overlapped, clashed>>

Request(r) == RequestSelect(r) \/ RequestCommit(r) \/ RequestMail(r)

-----------------------------------------------------------------------------
(* POST /password-reset/confirm/: get_valid_token, then three commits.     *)

Usable(t) == link = t /\ linkUsed = "fresh" /\ tick <= linkEnd

ConfirmSelect(c) ==
    /\ stage[c] = "idle"
    /\ \E t \in sent :
         /\ carried' = [carried EXCEPT ![c] = t]
         /\ IF Usable(t)
            THEN To(c, "accepted") /\ clashed' = clashed \cup Reading
            ELSE To(c, "rejected") /\ UNCHANGED clashed
    /\ UNCHANGED <<tick, linkRow, at, got, chosen, account, sent, spent, minted, overlapped>>

\* change_password.
ConfirmPassword(c) ==
    /\ stage[c] = "accepted"
    /\ password' = password + 1
    /\ chosen' = [chosen EXCEPT ![c] = password + 1]
    /\ spent' = spent \cup {carried[c]}
    /\ To(c, "changed")
    /\ UNCHANGED <<tick, linkRow, signins, at, got, carried, sent, minted, overlapped, clashed>>

\* Mutant: the token is not marked.
ConfirmMarkNothing(c) ==
    /\ stage[c] = "changed"
    /\ To(c, "marked")
    /\ UNCHANGED <<tick, linkRow, carriedBy, account, history>>

\* mark_token_as_used: whatever link the row holds by now.
ConfirmMark(c) ==
    /\ stage[c] = "changed"
    /\ linkUsed' = "used"
    /\ To(c, "marked")
    /\ UNCHANGED <<tick, link, linkEnd, count, cooldownUntil, windowEnd, carriedBy,
                   account, history>>

\* Mutant: the sessions stay.
ConfirmKeepSessions(c) ==
    /\ stage[c] = "marked"
    /\ To(c, "done")
    /\ UNCHANGED <<tick, linkRow, account, carriedBy, history>>

\* delete_all_user_sessions and the answer; one step, for what signs in between its
\* SELECT and its COMMIT is as one that signs in after it.
ConfirmSessions(c) ==
    /\ stage[c] = "marked"
    /\ sessions' = {} /\ late' = {}
    /\ To(c, "done")
    /\ UNCHANGED <<tick, linkRow, password, verified, carriedBy, history>>

Confirm(c) == ConfirmSelect(c) \/ ConfirmPassword(c) \/ ConfirmMark(c) \/ ConfirmSessions(c)

-----------------------------------------------------------------------------

(* POST /signin/: the password is verified, the session opened later.      *)

SignInVerify(s) ==
    /\ stage[s] = "idle"
    /\ verified' = [verified EXCEPT ![s] = password]
    /\ To(s, "verified")
    /\ UNCHANGED <<tick, linkRow, carriedBy, password, sessions, late, history>>

SignInOpen(s) ==
    /\ stage[s] = "verified"
    /\ sessions' = sessions \cup {verified[s]}
    /\ late' = IF verified[s] = password THEN late ELSE late \cup {verified[s]}
    /\ To(s, "done")
    /\ UNCHANGED <<tick, linkRow, carriedBy, password, verified, history>>

SignIn(s) == SignInVerify(s) \/ SignInOpen(s)

Tick ==
    /\ tick < Horizon
    /\ tick' = tick + 1
    /\ UNCHANGED <<linkRow, stage, carriedBy, account, history>>

OldDie(t) ==
    /\ t \in CrashProne /\ stage[t] \in {"selected", "mailing", "accepted", "changed", "marked"}
    /\ To(t, "dead")
    /\ UNCHANGED <<tick, linkRow, carriedBy, account, history>>

OldNext ==
    \/ \E r \in Requests : Request(r)
    \/ \E c \in Confirms : Confirm(c)
    \/ \E s \in SignIns : SignIn(s)
    \/ Tick
    \/ \E t \in Requests \cup Confirms : OldDie(t)

OldSpec == OldInit /\ [][OldNext]_oldVars

-----------------------------------------------------------------------------
(* Correctness.                                                            *)

\* Every variable keeps its type; the count stays within the daily maximum.
OldTypeOK ==
    /\ tick \in 0..Horizon /\ link \in Requests \cup {NoToken}
    /\ linkUsed \in {"fresh", "used"} /\ linkEnd \in Nat
    /\ count \in 0..MaxPerDay /\ cooldownUntil \in Nat /\ windowEnd \in Nat
    /\ stage \in [Requests \cup Confirms \cup SignIns ->
         {"idle", "verified", "selected", "mailing", "accepted", "changed", "marked", "done",
          "rejected", "failed", "dead"}]
    /\ at \in [Requests -> 0..Horizon]
    /\ got \in [Requests -> [row : {"none", "row"}, used : {"fresh", "used"},
                             count : 0..MaxPerDay, window : Nat]]
    /\ carried \in [Confirms -> Requests \cup {NoToken}]
    /\ chosen \in [Confirms -> 0..password]
    /\ password \in Nat /\ sessions \in SUBSET (0..password)
    /\ verified \in [SignIns -> 0..password] /\ late \in SUBSET sessions
    /\ sent \in SUBSET Requests /\ spent \in SUBSET sent /\ minted \in SUBSET Requests
    /\ overlapped \in SUBSET Requests /\ clashed \in SUBSET Requests

\* As long as no two requests overlap, two links are a cooldown apart, across
\* midnights, expiries and failures.
CooldownKept ==
    overlapped = {} =>
        \A r, q \in minted : r # q =>
           at[r] >= at[q] + CooldownSteps[1] \/ at[q] >= at[r] + CooldownSteps[1]

\* Nor does a day see more than MaxPerDay of them.
RateKept ==
    /\ CooldownKept
    /\ overlapped = {} =>
         \A day \in 0..(Horizon \div DayLength) :
            Cardinality({r \in minted : at[r] \div DayLength = day}) <= MaxPerDay

\* A link resets the password a second time only while a confirmation of it is
\* between its first commit and its second, or has died there.
OldSpentOnce ==
    [][\A c \in Confirms : stage[c] = "idle" /\ stage'[c] = "accepted" =>
         \/ carried'[c] \notin spent
         \/ \E d \in Confirms : carried[d] = carried'[c] /\ stage[d] \in {"changed", "dead"}]_oldVars

\* A link that has not reset the password is marked used only if its request
\* overlapped a confirmation, which marks whatever the row holds by then.
OldLinkGood == linkUsed = "used" => link \in spent \cup clashed

\* Once a confirmation has answered, no session is open that was signed in with a
\* password from before it, but of a sign-in that was under way.
SessionsFollowPassword ==
    \A c \in Confirms : stage[c] = "done" => \A p \in sessions \ late : p >= chosen[c]
=============================================================================
