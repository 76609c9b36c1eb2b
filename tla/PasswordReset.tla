---------------------------- MODULE PasswordReset ----------------------------
(***************************************************************************)
(* Password reset links of one user (create_password_reset_token and       *)
(* confirm_password_reset in app/services/auth_service.py): the one row of *)
(* password_reset_tokens that the user has.  A request for a link reads    *)
(* the row, then commits a new token into it and mails it; a confirmation  *)
(* reads the row by its token, then commits the new password and the mark  *)
(* that the token is used.  As everywhere, a commit writes only columns    *)
(* that differ from what was loaded, and finds the row by its key whatever *)
(* the row holds by then.  Revoking the sessions after the commit is the   *)
(* subject of UserSessions.                                                *)
(***************************************************************************)
CONSTANTS
    Requests,     \* POST /password-reset/request; each mints one token
    Confirms,     \* POST /password-reset/confirm
    CrashProne,   \* the tasks that may die between two awaits
    NoToken       \* there is no row yet

Tasks == Requests \cup Confirms
Tokens == Requests    \* a token is named after the request that minted it

ASSUME KindAssumption == Requests \cap Confirms = {}
ASSUME TokenAssumption == NoToken \notin Tasks

VARIABLES
    token,     \* the row's token
    used,      \* its is_used: "fresh" or "used"
    expired,   \* whether its expires_at is past: "valid" or "expired"
    pc,        \* where each task is
    loaded,    \* the is_used a request loaded, or "none"
    shown,     \* the token a confirmation carries
    mailed,    \* the tokens whose link was queued for mailing
    spent,     \* the tokens that the user's password was reset with
    crossed    \* the requests that overlapped an accepted confirmation

row == <<token, used, expired>>
ghosts == <<spent, crossed>>
vars == <<row, pc, loaded, shown, mailed, ghosts>>

Stages == {"idle", "selected", "mailing", "accepted", "done", "rejected", "failed", "dead"}

Init ==
    /\ token = NoToken /\ used = "fresh" /\ expired = "valid"
    /\ pc = [t \in Tasks |-> "idle"]
    /\ loaded = [r \in Requests |-> "none"]
    /\ shown \in [Confirms -> {NoToken}]
    /\ mailed = {} /\ spent = {} /\ crossed = {}

Goto(t, stage) == pc' = [pc EXCEPT ![t] = stage]
Accepted == {c \in Confirms : pc[c] = "accepted"}
Selected == {r \in Requests : pc[r] = "selected"}

-----------------------------------------------------------------------------
(* POST /password-reset/request.                                           *)

RequestSelect(r) ==
    /\ pc[r] = "idle"
    /\ loaded' = [loaded EXCEPT ![r] = IF token = NoToken THEN "none" ELSE used]
    /\ crossed' = IF Accepted # {} THEN crossed \cup {r} ELSE crossed
    /\ Goto(r, "selected")
    /\ UNCHANGED <<row, shown, mailed, spent>>

RequestInsert(r) ==
    /\ pc[r] = "selected" /\ loaded[r] = "none" /\ token = NoToken
    /\ token' = r /\ used' = "fresh" /\ expired' = "valid"
    /\ Goto(r, "mailing")
    /\ UNCHANGED <<loaded, shown, mailed, ghosts>>

\* user_id is UNIQUE: another request has inserted the row meanwhile.
RequestInsertConflict(r) ==
    /\ pc[r] = "selected" /\ loaded[r] = "none" /\ token # NoToken
    /\ Goto(r, "failed")
    /\ UNCHANGED <<row, loaded, shown, mailed, ghosts>>

\* Mutant: a used token stays used when it is replaced.
RequestUpdateStaysUsed(r) ==
    /\ pc[r] = "selected" /\ loaded[r] # "none"
    /\ token' = r /\ expired' = "valid" /\ used' = used
    /\ Goto(r, "mailing")
    /\ UNCHANGED <<loaded, shown, mailed, ghosts>>

\* Mutant: the row is made fresh without a new token.
RequestUpdateSameToken(r) ==
    /\ pc[r] = "selected" /\ loaded[r] # "none"
    /\ expired' = "valid" /\ used' = "fresh" /\ token' = token
    /\ Goto(r, "mailing")
    /\ UNCHANGED <<loaded, shown, mailed, ghosts>>

\* is_used := False reaches the UPDATE only if it was loaded True.
RequestUpdate(r) ==
    /\ pc[r] = "selected" /\ loaded[r] # "none"
    /\ token' = r /\ expired' = "valid"
    /\ used' = IF loaded[r] = "used" THEN "fresh" ELSE used
    /\ Goto(r, "mailing")
    /\ UNCHANGED <<loaded, shown, mailed, ghosts>>

RequestMail(r) ==
    /\ pc[r] = "mailing"
    /\ mailed' = mailed \cup {r}
    /\ Goto(r, "done")
    /\ UNCHANGED <<row, loaded, shown, ghosts>>

-----------------------------------------------------------------------------
(* POST /password-reset/confirm.                                           *)

Acceptable(t) == token = t /\ used = "fresh" /\ expired = "valid"

ConfirmSelect(c) ==
    /\ pc[c] = "idle"
    /\ \E t \in mailed :
         /\ shown' = [shown EXCEPT ![c] = t]
         /\ IF Acceptable(t)
            THEN Goto(c, "accepted") /\ crossed' = crossed \cup Selected
            ELSE Goto(c, "rejected") /\ UNCHANGED crossed
    /\ UNCHANGED <<row, loaded, mailed, spent>>

ConfirmCommit(c) ==
    /\ pc[c] = "accepted"
    /\ used' = "used"
    /\ spent' = spent \cup {shown[c]}
    /\ Goto(c, "done")
    /\ UNCHANGED <<token, expired, loaded, shown, mailed, crossed>>

-----------------------------------------------------------------------------

\* PASSWORD_RESET_TOKEN_EXPIRY_MINUTES have passed since the token was made.
Expire ==
    /\ token # NoToken /\ expired = "valid"
    /\ expired' = "expired"
    /\ UNCHANGED <<token, used, pc, loaded, shown, mailed, ghosts>>

Die(t) ==
    /\ t \in CrashProne /\ pc[t] \in {"selected", "mailing", "accepted"}
    /\ Goto(t, "dead")
    /\ UNCHANGED <<row, loaded, shown, mailed, ghosts>>

Request(r) == RequestInsert(r) \/ RequestInsertConflict(r) \/ RequestUpdate(r) \/ RequestMail(r)

Next ==
    \/ Expire
    \/ \E r \in Requests : RequestSelect(r) \/ Request(r)
    \/ \E c \in Confirms : ConfirmSelect(c) \/ ConfirmCommit(c)
    \/ \E t \in Tasks : Die(t)

Spec == Init /\ [][Next]_vars

-----------------------------------------------------------------------------
(* Correctness.                                                            *)

\* Every variable keeps its type; only mailed tokens are ever confirmed.
TypeOK ==
    /\ token \in Tokens \cup {NoToken}
    /\ used \in {"fresh", "used"}
    /\ expired \in {"valid", "expired"}
    /\ pc \in [Tasks -> Stages]
    /\ loaded \in [Requests -> {"none", "fresh", "used"}]
    /\ shown \in [Confirms -> Tokens \cup {NoToken}]
    /\ mailed \in SUBSET Tokens
    /\ spent \in SUBSET mailed
    /\ crossed \in SUBSET Requests

\* A token that has reset the password is never accepted again, whatever
\* requests for new links do to the row: two confirmations of one link can only
\* both pass when both were read before either was committed.
SpentStaysSpent ==
    [][\A c \in Confirms : pc[c] = "idle" /\ pc'[c] = "accepted"
         => shown'[c] \notin spent]_vars

\* A link whose request did not overlap a confirmation is good until it has
\* reset the password, whatever ran before or after the request.
LinkGood == used = "used" => token \in spent \cup crossed

-----------------------------------------------------------------------------
(* What the code says of itself and does not keep.                         *)

\* "If that email exists, a password reset link has been sent.": when nothing
\* is under way, the link that is in the row was either used or still works.
NewestLinkWorks ==
    (\A t \in Tasks : pc[t] \notin {"selected", "mailing", "accepted"})
       => (used = "used" => token \in spent)
=============================================================================
