------------------------------ MODULE TwoFactor ------------------------------
(***************************************************************************)
(* The authenticator app of one user and the second step of its sign-in    *)
(* (auth_service.py and routers/auth.py of app/): the one row of           *)
(* user_authenticator_apps, which /2fa/enable gives a new secret,          *)
(* /2fa/verify turns on, /2fa/disable turns off, /login asks whether a     *)
(* challenge is due and /2fa/validate answers it against.                  *)
(* A handler checks the code in the step that reads the row and commits in *)
(* a later one; a commit writes only columns that differ from what was     *)
(* loaded.  A code is named after the secret it was computed from.         *)
(* Opening the session is one step here, all of its steps in UserSessions. *)
(***************************************************************************)
CONSTANTS
    Enables,      \* POST /2fa/enable; each draws one secret
    Verifies,     \* POST /2fa/verify
    Disables,     \* POST /2fa/disable
    Logins,       \* POST /login with the right password
    Validates,    \* POST /2fa/validate
    CrashProne,   \* the tasks that may die between two awaits
    Nothing       \* no secret, no challenge

Tasks == Enables \cup Verifies \cup Disables \cup Logins \cup Validates
Coded == Verifies \cup Disables \cup Validates    \* requests that carry a code
Secrets == Enables    \* a secret is named after the request that drew it

ASSUME KindAssumption ==
    /\ Enables \cap (Verifies \cup Disables \cup Logins \cup Validates) = {}
    /\ Verifies \cap (Disables \cup Logins \cup Validates) = {}
    /\ Disables \cap (Logins \cup Validates) = {}
    /\ Logins \cap Validates = {}
ASSUME NothingAssumption == Nothing \notin Tasks

VARIABLES
    secret,      \* the row's secret, Nothing when there is no row
    status,      \* its is_enabled: "off" or "on"
    pc,          \* where each task is
    loaded,      \* the is_enabled that an enable or a verify loaded, or "none"
    code,        \* the secret of the code that a request carries
    challenge,   \* the login whose challenge a validate answers
    shown,       \* the secrets that reached the user's authenticator
    challenges,  \* the logins whose challenge token has not expired
    confirmed,   \* the secrets that a verify has confirmed
    crossed,     \* the enables that overlapped an accepted verify
    guarded,     \* the logins under way all of whose life 2FA was on
    outdated     \* the challenges issued before a change of password

row == <<secret, status>>
requests == <<loaded, code, challenge>>
issued == <<shown, challenges>>
ghosts == <<confirmed, crossed, guarded, outdated>>
vars == <<row, pc, requests, issued, ghosts>>

Stages == {"idle", "selected", "showing", "accepted", "passed", "opening",
           "open", "challenged", "done", "rejected", "failed", "dead"}

Init ==
    /\ secret = Nothing /\ status = "off"
    /\ pc = [t \in Tasks |-> "idle"]
    /\ loaded = [t \in Enables \cup Verifies |-> "none"]
    /\ code = [t \in Coded |-> Nothing]
    /\ challenge = [x \in Validates |-> Nothing]
    /\ shown = {} /\ challenges = {}
    /\ confirmed = {} /\ crossed = {} /\ guarded = {} /\ outdated = {}

Goto(t, stage) == pc' = [pc EXCEPT ![t] = stage]
Pending(E) == {e \in E : pc[e] = "selected"}
Accepted == {v \in Verifies : pc[v] = "accepted"}
StillGuarded == IF status' = "on" THEN guarded ELSE {}

-----------------------------------------------------------------------------
(* POST /2fa/enable.                                                       *)

EnableSelect(e) ==
    /\ pc[e] = "idle"
    /\ loaded' = [loaded EXCEPT ![e] = IF secret = Nothing THEN "none" ELSE status]
    /\ crossed' = IF Accepted # {} THEN crossed \cup {e} ELSE crossed
    /\ Goto(e, "selected")
    /\ UNCHANGED <<row, code, challenge, issued, confirmed, guarded, outdated>>

EnableInsert(e) ==
    /\ pc[e] = "selected" /\ loaded[e] = "none" /\ secret = Nothing
    /\ secret' = e /\ status' = "off"
    /\ Goto(e, "showing")
    /\ UNCHANGED <<requests, issued, ghosts>>

\* user_id is UNIQUE: another request has inserted the row meanwhile.
EnableInsertConflict(e) ==
    /\ pc[e] = "selected" /\ loaded[e] = "none" /\ secret # Nothing
    /\ Goto(e, "failed")
    /\ UNCHANGED <<row, requests, issued, ghosts>>

\* Mutant: a new secret leaves an authenticator that is on, on.
EnableUpdateStaysOn(e) ==
    /\ pc[e] = "selected" /\ loaded[e] # "none"
    /\ secret' = e /\ status' = status
    /\ Goto(e, "showing")
    /\ UNCHANGED <<requests, issued, ghosts>>

\* is_enabled := False reaches the UPDATE only if it was loaded True.
EnableUpdate(e) ==
    /\ pc[e] = "selected" /\ loaded[e] # "none"
    /\ secret' = e
    /\ status' = IF loaded[e] = "on" THEN "off" ELSE status
    /\ guarded' = StillGuarded
    /\ Goto(e, "showing")
    /\ UNCHANGED <<requests, issued, confirmed, crossed, outdated>>

\* The answer carries the secret and its QR code to the user.
EnableShow(e) ==
    /\ pc[e] = "showing"
    /\ shown' = shown \cup {e}
    /\ Goto(e, "done")
    /\ UNCHANGED <<row, requests, challenges, ghosts>>

-----------------------------------------------------------------------------
(* POST /2fa/verify and POST /2fa/disable.                                 *)

VerifySelect(v) ==
    /\ pc[v] = "idle"
    /\ \E s \in shown :
         /\ code' = [code EXCEPT ![v] = s]
         /\ \/ /\ s = secret
               /\ loaded' = [loaded EXCEPT ![v] = status]
               /\ crossed' = crossed \cup Pending(Enables)
               /\ Goto(v, "accepted")
            \/ /\ s # secret
               /\ Goto(v, "rejected")
               /\ UNCHANGED <<loaded, crossed>>
    /\ UNCHANGED <<row, challenge, issued, confirmed, guarded, outdated>>

\* is_enabled := True reaches the UPDATE only if it was loaded False.
VerifyCommit(v) ==
    /\ pc[v] = "accepted"
    /\ status' = IF loaded[v] = "off" THEN "on" ELSE status
    /\ confirmed' = confirmed \cup {code[v]}
    /\ Goto(v, "done")
    /\ UNCHANGED <<secret, requests, issued, crossed, guarded, outdated>>

DisableSelect(d) ==
    /\ pc[d] = "idle"
    /\ \E s \in shown :
         /\ code' = [code EXCEPT ![d] = s]
         /\ Goto(d, IF status = "on" /\ s = secret THEN "accepted" ELSE "rejected")
    /\ UNCHANGED <<row, loaded, challenge, issued, ghosts>>

DisableCommit(d) ==
    /\ pc[d] = "accepted"
    /\ status' = "off" /\ guarded' = {}
    /\ Goto(d, "done")
    /\ UNCHANGED <<secret, requests, issued, confirmed, crossed, outdated>>

-----------------------------------------------------------------------------
(* POST /login and POST /2fa/validate.                                     *)

\* authenticate_email_user: the password is right, the counters are committed.
LoginPassword(l) ==
    /\ pc[l] = "idle"
    /\ guarded' = IF status = "on" THEN guarded \cup {l} ELSE guarded
    /\ Goto(l, "passed")
    /\ UNCHANGED <<row, requests, issued, confirmed, crossed, outdated>>

\* is_two_factor_enabled: a challenge token, or a session at once.
LoginCheck(l) ==
    /\ pc[l] = "passed"
    /\ \/ status = "on" /\ Goto(l, "challenged") /\ challenges' = challenges \cup {l}
       \/ status = "off" /\ Goto(l, "opening") /\ UNCHANGED challenges
    /\ UNCHANGED <<row, requests, shown, ghosts>>

\* Mutant: a secret that was never turned on answers the challenge.
ValidateSelectPending(x) ==
    /\ pc[x] = "idle"
    /\ \E l \in challenges, s \in shown :
         /\ challenge' = [challenge EXCEPT ![x] = l]
         /\ code' = [code EXCEPT ![x] = s]
         /\ Goto(x, IF s = secret THEN "accepted" ELSE "rejected")
    /\ UNCHANGED <<row, loaded, issued, ghosts>>

\* The challenge token is a JWT: nothing records that it was answered, nor how
\* often it was answered wrongly.
ValidateSelect(x) ==
    /\ pc[x] = "idle"
    /\ \E l \in challenges, s \in shown :
         /\ challenge' = [challenge EXCEPT ![x] = l]
         /\ code' = [code EXCEPT ![x] = s]
         /\ Goto(x, IF status = "on" /\ s = secret THEN "accepted" ELSE "rejected")
    /\ UNCHANGED <<row, loaded, issued, ghosts>>

\* last_used_at := now, which nothing reads.
ValidateCommit(x) ==
    /\ pc[x] = "accepted"
    /\ Goto(x, "opening")
    /\ UNCHANGED <<row, requests, issued, ghosts>>

\* create_login_session, in one step.
OpenSession(t) ==
    /\ pc[t] = "opening"
    /\ Goto(t, "open")
    /\ UNCHANGED <<row, requests, issued, ghosts>>

-----------------------------------------------------------------------------

\* TWO_FACTOR_CHALLENGE_EXPIRE_MINUTES have passed since the login.
ChallengeExpire(l) ==
    /\ l \in challenges
    /\ challenges' = challenges \ {l}
    /\ UNCHANGED <<row, pc, requests, shown, ghosts>>

\* change_password or confirm_password_reset; neither touches the challenges.
PasswordChange ==
    /\ challenges \ outdated # {}
    /\ outdated' = outdated \cup challenges
    /\ UNCHANGED <<row, pc, requests, issued, confirmed, crossed, guarded>>

Die(t) ==
    /\ t \in CrashProne
    /\ pc[t] \in {"selected", "showing", "accepted", "passed", "opening"}
    /\ Goto(t, "dead")
    /\ UNCHANGED <<row, requests, issued, ghosts>>

Enable(e) ==
    \/ EnableSelect(e) \/ EnableInsert(e) \/ EnableInsertConflict(e)
    \/ EnableUpdate(e) \/ EnableShow(e)

Next ==
    \/ \E e \in Enables : Enable(e)
    \/ \E v \in Verifies : VerifySelect(v) \/ VerifyCommit(v)
    \/ \E d \in Disables : DisableSelect(d) \/ DisableCommit(d)
    \/ \E l \in Logins : LoginPassword(l) \/ LoginCheck(l) \/ ChallengeExpire(l)
    \/ \E x \in Validates : ValidateSelect(x) \/ ValidateCommit(x)
    \/ \E t \in Logins \cup Validates : OpenSession(t)
    \/ PasswordChange
    \/ \E t \in Tasks : Die(t)

Spec == Init /\ [][Next]_vars

-----------------------------------------------------------------------------
(* Correctness.                                                            *)

\* Every variable keeps its type; 2FA is on only if there is a row, and only
\* codes of secrets that were shown to the user are accepted.
TypeOK ==
    /\ secret \in Secrets \cup {Nothing}
    /\ status \in {"off", "on"}
    /\ pc \in [Tasks -> Stages]
    /\ loaded \in [Enables \cup Verifies -> {"none", "off", "on"}]
    /\ code \in [Coded -> shown \cup {Nothing}]
    /\ challenge \in [Validates -> Logins \cup {Nothing}]
    /\ shown \in SUBSET Secrets
    /\ challenges \in SUBSET Logins
    /\ confirmed \in SUBSET shown
    /\ crossed \in SUBSET Enables
    /\ guarded \in SUBSET Logins
    /\ outdated \in SUBSET Logins
    /\ secret = Nothing => status = "off"

\* When 2FA is on, a code of the secret in force was once verified, so the user
\* has it, unless the request that drew it overlapped a verification.
EnabledConfirmed == status = "on" => secret \in confirmed \cup crossed

\* A login that 2FA was on for from its first step to its last never opens a
\* session of its own, and a challenge is only ever answered by a secret that
\* was verified (or is one of the overlapping requests).
SecondFactor ==
    /\ \A l \in guarded : pc[l] \notin {"opening", "open"}
    /\ \A x \in Validates : pc[x] \in {"accepted", "opening", "open"}
         => code[x] \in confirmed \cup crossed

-----------------------------------------------------------------------------
(* What the code says of itself and does not keep.                         *)

\* "2FA enabled successfully.": when nothing is under way, the secret in force
\* is one that the user has shown to have.
EnabledVerified ==
    (\A t \in Tasks : pc[t] \notin {"selected", "showing", "accepted"})
       => (status = "on" => secret \in confirmed)

\* "Password changed successfully. Please login again.": a challenge from
\* before the change is not worth a session after it.
ChallengesEnd ==
    [][\A x \in Validates : pc[x] = "idle" /\ pc'[x] = "accepted"
         => challenge'[x] \notin outdated]_vars
=============================================================================
