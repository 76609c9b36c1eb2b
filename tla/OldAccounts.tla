----------------------------- MODULE OldAccounts -----------------------------
(***************************************************************************)
(* One email address of the old tree from sign-up to sign-in: the user     *)
(* row, the one verification row of a user, the mails with its links, the  *)
(* confirmation in two commits, the sign-in with its counter of failures   *)
(* and the change of password.                                             *)
(* A link is named after the request that minted it, a password after the  *)
(* request that set it; the second factor and the session rows are modules *)
(* of their own.                                                           *)
(***************************************************************************)
EXTENDS Naturals, FiniteSets

CONSTANTS
    Signups,    \* POST /signup; each also mints a link
    Resends,    \* POST /verification/request/
    Clicks,     \* GET /verification/confirm/{token}
    SignIns,    \* POST /signin
    Changes,    \* POST /change-password
    CrashProne, \* the tasks that may die between two awaits
    Nothing,    \* no user, no row, no password
    LockAt      \* the failures from which get_lockout_duration locks

Minters == Signups \cup Resends
Tasks == Minters \cup Clicks \cup SignIns \cup Changes

\* A request is of one kind, and the marker is none.
ASSUME KindsApart ==
    /\ Signups \cap Resends = {} /\ Minters \cap (Clicks \cup SignIns \cup Changes) = {}
    /\ Clicks \cap (SignIns \cup Changes) = {} /\ SignIns \cap Changes = {}
    /\ Nothing \notin Tasks

VARIABLES
    password,  \* of the user row; Nothing while there is no row
    verified,  \* its is_verified: "no" or "yes"
    failures,  \* its failed_login_attempts
    row,       \* the identity of the verification row, Nothing if there is none
    link,      \* its token
    life,      \* "live" until its expires_at, then "expired"
    sessions,  \* the open sessions, by the request that opened them
    mailed,    \* the links whose mail was queued
    newest,    \* the link whose mail was queued last
    stage,     \* where each task is
    found,     \* the verification row that a task has loaded
    typed,     \* the password that a task was given
    welcomed,  \* the clicks that queued a welcome mail
    clicked,   \* the links that have verified the address
    raced,     \* the tasks that another's commit overtook, see RacedBy, ChangeCommit, ChangeSweep
    guesses    \* the wrong passwords since the last right one

user == <<password, verified, failures>>
token == <<row, link, life>>
mails == <<mailed, newest, welcomed>>
history == <<clicked, raced, guesses>>
vars == <<user, token, sessions, mails, stage, found, typed, history>>

Init ==
    /\ password = Nothing /\ verified = "no" /\ failures = 0
    /\ row = Nothing /\ link = Nothing /\ life = "live"
    /\ sessions = {} /\ mailed = {} /\ newest = Nothing /\ welcomed = {}
    /\ stage = [t \in Tasks |-> "idle"]
    /\ found = [t \in Minters \cup Clicks |-> Nothing]
    /\ typed = [t \in SignIns \cup Changes |-> Nothing]
    /\ clicked = {} /\ raced = {} /\ guesses = 0

To(t, s) == stage' = [stage EXCEPT ![t] = s]

\* The minters and clicks that have read the user or the row and not yet written
\* it, or hold a link that is not mailed yet.
Underway == {t \in Minters \cup Clicks : stage[t] \in {"owner", "loaded", "mailing", "accepted", "verified"}}
RacedBy(t) == raced' = raced \cup (Underway \ {t}) \cup (IF Underway \ {t} = {} THEN {} ELSE {t})

-----------------------------------------------------------------------------
(* The verification row: create_or_update_verification_token.              *)

TokenSelect(t) ==
    /\ stage[t] = "owner"
    /\ found' = [found EXCEPT ![t] = row]
    /\ To(t, "loaded")
    /\ UNCHANGED <<user, token, sessions, mails, typed, history>>

\* user_id is UNIQUE, and an UPDATE of a row that is gone fails.
TokenCommit(t) ==
    /\ stage[t] = "loaded"
    /\ \/ /\ found[t] = row
          /\ row' = IF row = Nothing THEN t ELSE row
          /\ link' = t /\ life' = "live"
          /\ To(t, "mailing")
       \/ found[t] # row /\ To(t, "lost") /\ UNCHANGED token
    /\ RacedBy(t)
    /\ UNCHANGED <<user, sessions, mails, found, typed, clicked, guesses>>

\* The verification row that a task has written.
Written(t) == IF found[t] = Nothing THEN t ELSE found[t]

\* db.refresh reads the row again, which a click may have deleted, and the link that it
\* holds by now is mailed.
TokenMail(t) ==
    /\ stage[t] = "mailing"
    /\ \/ row = Written(t) /\ To(t, "done")
          /\ mailed' = mailed \cup {link} /\ newest' = link
       \/ row # Written(t) /\ To(t, "lost") /\ UNCHANGED <<mailed, newest>>
    /\ RacedBy(t)
    /\ UNCHANGED <<user, token, sessions, welcomed, found, typed, clicked, guesses>>

MintLink(t) == TokenSelect(t) \/ TokenCommit(t) \/ TokenMail(t)

-----------------------------------------------------------------------------
(* POST /signup: the email is looked up by the handler, which answers 409, *)
(* and again by create_email_user, whose ValueError nobody catches.        *)

SignupSelect(s) ==
    /\ stage[s] = "idle"
    /\ To(s, IF password = Nothing THEN "free" ELSE "rejected")
    /\ UNCHANGED <<user, token, sessions, mails, found, typed, history>>

SignupSelectAgain(s) ==
    /\ stage[s] = "free"
    /\ To(s, IF password = Nothing THEN "creating" ELSE "failed")
    /\ UNCHANGED <<user, token, sessions, mails, found, typed, history>>

\* create_email_user; email is UNIQUE.
SignupInsert(s) ==
    /\ stage[s] = "creating"
    /\ \/ password = Nothing /\ password' = s /\ To(s, "owner")
       \/ password # Nothing /\ To(s, "failed") /\ UNCHANGED password
    /\ UNCHANGED <<verified, failures, token, sessions, mails, found, typed, history>>

Signup(s) == SignupSelect(s) \/ SignupSelectAgain(s) \/ SignupInsert(s) \/ MintLink(s)

-----------------------------------------------------------------------------
(* POST /verification/request/.                                            *)

ResendSelect(r) ==
    /\ stage[r] = "idle"
    /\ To(r, IF password = Nothing \/ verified = "yes" THEN "rejected" ELSE "owner")
    /\ UNCHANGED <<user, token, sessions, mails, found, typed, history>>

Resend(r) == ResendSelect(r) \/ MintLink(r)

-----------------------------------------------------------------------------
(* GET /verification/confirm/{token}: two commits and the welcome mail.    *)

ClickSelect(c) ==
    /\ stage[c] = "idle"
    /\ \E t \in mailed :
         IF link = t /\ life = "live"
         THEN found' = [found EXCEPT ![c] = row] /\ To(c, "accepted")
         ELSE To(c, "rejected") /\ UNCHANGED found
    /\ UNCHANGED <<user, token, sessions, mails, typed, history>>

\* verify_user; the link that it acts on may have been replaced meanwhile.
ClickVerify(c) ==
    /\ stage[c] = "accepted"
    /\ verified' = "yes" /\ clicked' = clicked \cup {found[c]}
    /\ RacedBy(c)
    /\ To(c, "verified")
    /\ UNCHANGED <<password, failures, token, sessions, mails, found, typed, guesses>>

\* Mutant: the link that was clicked is not deleted.
ClickDeleteNot(c) ==
    /\ stage[c] = "verified"
    /\ To(c, "welcoming") /\ RacedBy(c)
    /\ UNCHANGED <<user, token, sessions, mails, found, typed, clicked, guesses>>

\* The row is deleted by its key, whatever link it holds by now; a row that is gone
\* only warns.
ClickDelete(c) ==
    /\ stage[c] = "verified"
    /\ IF row = found[c] THEN row' = Nothing /\ link' = Nothing ELSE UNCHANGED <<row, link>>
    /\ To(c, "welcoming") /\ RacedBy(c)
    /\ UNCHANGED <<user, life, sessions, mails, found, typed, clicked, guesses>>

ClickWelcome(c) ==
    /\ stage[c] = "welcoming"
    /\ welcomed' = welcomed \cup {c}
    /\ To(c, "done")
    /\ UNCHANGED <<user, token, sessions, mailed, newest, found, typed, history>>

Click(c) == ClickSelect(c) \/ ClickVerify(c) \/ ClickDelete(c) \/ ClickWelcome(c)

-----------------------------------------------------------------------------
(* POST /signin: authenticate_email_user and create_login_session.         *)

\* Mutant: is_verified is not looked at.
SignInSelectUnverified(i, p) ==
    /\ stage[i] = "idle" /\ password # Nothing /\ password = p
    /\ typed' = [typed EXCEPT ![i] = p] /\ guesses' = 0
    /\ To(i, "opening")
    /\ UNCHANGED <<user, token, sessions, mails, found, clicked, raced>>

\* Mutant: a failure is committed.
SignInSelectCounts(i, p) ==
    /\ stage[i] = "idle" /\ password \notin {Nothing, p} /\ failures < LockAt
    /\ typed' = [typed EXCEPT ![i] = p]
    /\ failures' = failures + 1 /\ guesses' = guesses + 1
    /\ To(i, "rejected")
    /\ UNCHANGED <<password, verified, token, sessions, mails, found, clicked, raced>>

\* A wrong password raises failed_login_attempts on an object that is never
\* committed; the lock, from LockAt on, is looked at before the password.
SignInSelect(i, p) ==
    /\ stage[i] = "idle"
    /\ typed' = [typed EXCEPT ![i] = p]
    /\ IF password = Nothing THEN To(i, "rejected") /\ UNCHANGED guesses
       ELSE IF failures >= LockAt THEN To(i, "locked") /\ UNCHANGED guesses
       ELSE IF p # password THEN To(i, "rejected") /\ guesses' = guesses + 1
       ELSE /\ To(i, IF verified = "yes" THEN "opening" ELSE "rejected")
            /\ guesses' = 0
    /\ UNCHANGED <<user, token, sessions, mails, found, clicked, raced>>

SignInOpen(i) ==
    /\ stage[i] = "opening"
    /\ sessions' = sessions \cup {i}
    /\ To(i, "done")
    /\ UNCHANGED <<user, token, mails, found, typed, history>>

SignIn(i) == (\E p \in Signups \cup Changes : SignInSelect(i, p)) \/ SignInOpen(i)

-----------------------------------------------------------------------------
(* POST /change-password: two commits, then a task that does not exist.    *)

\* Mutant: the current password is not compared.
ChangeSelectAny(h, p) ==
    /\ stage[h] = "idle" /\ sessions # {}
    /\ typed' = [typed EXCEPT ![h] = p]
    /\ To(h, "checked")
    /\ UNCHANGED <<user, token, sessions, mails, found, history>>

ChangeSelect(h, p) ==
    /\ stage[h] = "idle" /\ sessions # {}
    /\ typed' = [typed EXCEPT ![h] = p]
    /\ To(h, IF p = password THEN "checked" ELSE "rejected")
    /\ UNCHANGED <<user, token, sessions, mails, found, history>>

\* Whoever has compared the password that this commit replaces is overtaken.
ChangeCommit(h) ==
    /\ stage[h] = "checked"
    /\ password' = h
    /\ raced' = raced \cup {g \in Changes \ {h} : stage[g] = "checked"}
    /\ To(h, "changed")
    /\ UNCHANGED <<verified, failures, token, sessions, mails, found, typed, clicked, guesses>>

\* delete_all_user_sessions.
ChangeSweep(h) ==
    /\ stage[h] = "changed"
    /\ sessions' = {}
    /\ raced' = raced \cup {i \in SignIns : stage[i] = "opening"}
    /\ To(h, "swept")
    /\ UNCHANGED <<user, token, mails, found, typed, clicked, guesses>>

\* tasks has no send_password_changed_email: the AttributeError is a 500.
ChangeMail(h) ==
    /\ stage[h] = "swept" /\ To(h, "failed")
    /\ UNCHANGED <<user, token, sessions, mails, found, typed, history>>

Change(h) ==
    \/ \E p \in Signups \cup Changes : ChangeSelect(h, p)
    \/ ChangeCommit(h) \/ ChangeSweep(h) \/ ChangeMail(h)

-----------------------------------------------------------------------------

Expire ==
    /\ row # Nothing /\ life = "live" /\ life' = "expired"
    /\ UNCHANGED <<user, row, link, sessions, mails, stage, found, typed, history>>

Die(t) ==
    /\ t \in CrashProne
    /\ stage[t] \notin {"idle", "done", "rejected", "failed", "lost", "locked", "dead"}
    /\ To(t, "dead")
    /\ UNCHANGED <<user, token, sessions, mails, found, typed, history>>

Next ==
    \/ \E s \in Signups : Signup(s)
    \/ \E r \in Resends : Resend(r)
    \/ \E c \in Clicks : Click(c)
    \/ \E i \in SignIns : SignIn(i)
    \/ \E h \in Changes : Change(h)
    \/ Expire
    \/ \E t \in Tasks : Die(t)

Spec == Init /\ [][Next]_vars

-----------------------------------------------------------------------------
(* Correctness.                                                            *)

\* Every variable keeps its type; no link without a row, no row without a user, and
\* no failed sign-in is ever counted in the user row.
TypeOK ==
    /\ password \in Signups \cup Changes \cup {Nothing}
    /\ verified \in {"no", "yes"} /\ failures = 0
    /\ row \in Minters \cup {Nothing} /\ link \in Minters \cup {Nothing}
    /\ (link = Nothing) = (row = Nothing) /\ (row # Nothing => password # Nothing)
    /\ life \in {"live", "expired"}
    /\ sessions \in SUBSET SignIns /\ welcomed \in SUBSET Clicks
    /\ mailed \in SUBSET Minters /\ newest \in mailed \cup {Nothing}
    /\ stage \in [Tasks -> {"idle", "free", "creating", "owner", "loaded", "mailing", "accepted",
         "verified", "welcoming", "opening", "checked", "changed", "swept", "done",
         "rejected", "failed", "lost", "locked", "dead"}]
    /\ found \in [Minters \cup Clicks -> Minters \cup {Nothing}]
    /\ typed \in [SignIns \cup Changes -> Signups \cup Changes \cup {Nothing}]
    /\ clicked \in SUBSET Minters /\ raced \in SUBSET Tasks /\ guesses \in Nat

\* The newest link that was mailed to an unverified address is the stored one, or the
\* stored one was never mailed, unless the request for it overlapped another.
NewestLinkStored ==
    verified = "no" /\ newest \notin raced \cup {Nothing} => link = newest \/ link \notin mailed

\* Two welcome mails go out only when two requests overlapped.
WelcomeOnce == Cardinality(welcomed) > 1 => welcomed \cap raced # {}

\* Whoever signs in has clicked on a link that was mailed to the address.
SessionNeedsClick == sessions # {} => clicked # {}

\* A request for a link that ends in a 500 at the row leaves an address that is
\* verified, or for which another link is stored.
LostHarmless == \A t \in Minters : stage[t] = "lost" => verified = "yes" \/ row # Nothing

\* Links are stored, spent and lost one at a time, unless requests overlap.
LinksServed == NewestLinkStored /\ WelcomeOnce /\ LostHarmless

\* A password is replaced only by a change whose caller typed that very password, or
\* that another change has overtaken between its check and its commit.
PasswordKnown ==
    [][password \notin {Nothing, password'} =>
         \E h \in Changes : password' = h /\ (typed[h] = password \/ h \in raced)]_vars

\* Once every change of password has swept, a session of an old password can only be
\* that of a sign-in which was under way during a sweep.
SessionsFollowPassword ==
    (\E h \in Changes : stage[h] \in {"changed", "dead"})
    \/ \A i \in sessions : typed[i] = password \/ i \in raced

\* A session was opened after a click on a mailed link, with the password that holds or
\* during the sweep of its change.
SessionsEarned == SessionNeedsClick /\ SessionsFollowPassword

\* A change of password that commits is answered ("Password changed successfully").
ChangeAnswered == \A h \in Changes : stage[h] # "failed"

\* After LockAt wrong passwords in a row the next sign-in finds the account locked
\* ("Still in lockdown.").
GuessingLocks == guesses <= LockAt
=============================================================================
