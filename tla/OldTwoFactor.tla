----------------------------- MODULE OldTwoFactor -----------------------------
(***************************************************************************)
(* The authenticator app of one user in the old tree (two_factor/service.py*)
(* and router.py): setup and confirmation of a secret, the recovery codes  *)
(* that a confirmation or a regeneration draws in batches, their use at    *)
(* sign-in, and disabling.                                                 *)
(* A change of the row is sent with the DELETE of the codes (autoflush), so*)
(* it holds the row's lock from there to the commit; a regeneration changes*)
(* no column of the row and holds none.  A batch is named after the request*)
(* that drew it, a code after the secret it was computed from.             *)
(* The mailed code is left out: SendOtpCodePayload admits no token longer  *)
(* than 12 characters, so /send_two_factor_otp stores none.                *)
(***************************************************************************)
EXTENDS Naturals

CONSTANTS
    Setups,        \* POST /2fa/setup; each draws one secret
    Confirms,      \* POST /2fa/confirm
    Regenerates,   \* POST /2fa/recovery-codes/regenerate
    Disables,      \* POST /2fa/disable
    Verifies,      \* POST /2fa/verify, with a challenge in hand
    CodeCount,     \* recovery codes in a batch; 10 in the code
    CrashProne,    \* the tasks that may die between two awaits
    Nothing        \* no secret, no code

Issuers == Confirms \cup Regenerates    \* the requests that draw a batch
Writers == Issuers \cup Disables        \* the requests that delete codes
Tasks == Setups \cup Writers \cup Verifies
Secrets == Setups
RecoveryCodes == Issuers \X (1..CodeCount)

\* A request is of one kind, and no secret is a recovery code.
KindsApart ==
    /\ Setups \cap (Writers \cup Verifies) = {} /\ Verifies \cap Writers = {}
    /\ Confirms \cap Regenerates = {} /\ Disables \cap Issuers = {}
    /\ Setups \cap RecoveryCodes = {} /\ Nothing \notin Setups \cup RecoveryCodes

VARIABLES
    secret,    \* the row's secret, Nothing when there is no row
    status,    \* its is_enabled: "off" or "on"
    codes,     \* the recovery codes that have a row
    used,      \* the recovery codes that were marked used
    pc,        \* where each task is
    loaded,    \* what a setup loaded: "none" or "off"
    code,      \* the code that a request carries
    doomed,    \* the rows that a writer's DELETE takes
    shown,     \* the secrets that reached the user's authenticator
    given,     \* the batches that reached the user
    confirmed, \* the secrets that a confirm has confirmed
    crossed,   \* the setups that overlapped an accepted confirm
    overtaken, \* the writers that overlapped the commit of another
    rivals     \* the verifies whose code another used while they held it

row == <<secret, status>>
rows == <<row, codes, used>>
requests == <<loaded, code, doomed>>
answers == <<shown, given>>
ghosts == <<confirmed, crossed, overtaken, rivals>>
vars == <<rows, pc, requests, answers, ghosts>>

Init ==
    /\ secret = Nothing /\ status = "off" /\ codes = {} /\ used = {}
    /\ pc = [t \in Tasks |-> "idle"]
    /\ loaded = [s \in Setups |-> "none"]
    /\ code = [t \in Writers \cup Verifies |-> Nothing]
    /\ doomed = [w \in Writers |-> {}]
    /\ shown = {} /\ given = {}
    /\ confirmed = {} /\ crossed = {} /\ overtaken = {} /\ rivals = {}

Goto(t, stage) == pc' = [pc EXCEPT ![t] = stage]
In(T, stages) == {t \in T : pc[t] \in stages}
UnderWay == {"accepted", "deleted"}

\* The row's lock is free: no change of it is sent and not yet committed.
RowFree == In(Confirms \cup Disables, {"deleted"}) = {}
\* The row of a recovery code is locked by a DELETE under way.
Locked(c) == \E w \in In(Writers, {"deleted"}) : c \in doomed[w]

-----------------------------------------------------------------------------
(* POST /2fa/setup.                                                        *)

SetupSelect(s) ==
    /\ pc[s] = "idle"
    /\ \/ /\ status = "on"
          /\ Goto(s, "rejected")
          /\ UNCHANGED <<loaded, crossed>>
       \/ /\ status = "off"
          /\ loaded' = [loaded EXCEPT ![s] = IF secret = Nothing THEN "none" ELSE "off"]
          /\ crossed' = IF In(Confirms, UnderWay) # {} THEN crossed \cup {s} ELSE crossed
          /\ Goto(s, "selected")
    /\ UNCHANGED <<rows, code, doomed, answers, confirmed, overtaken, rivals>>

\* is_enabled := False was loaded False, so the UPDATE leaves the column alone.
SetupUpdate(s) ==
    /\ pc[s] = "selected" /\ loaded[s] = "off" /\ RowFree
    /\ secret' = s
    /\ Goto(s, "showing")
    /\ UNCHANGED <<status, codes, used, requests, answers, ghosts>>

\* user_id is UNIQUE: the second of two inserts fails.
SetupInsert(s) ==
    /\ pc[s] = "selected" /\ loaded[s] = "none"
    /\ \/ secret = Nothing /\ secret' = s /\ Goto(s, "showing")
       \/ secret # Nothing /\ UNCHANGED secret /\ Goto(s, "failed")
    /\ UNCHANGED <<status, codes, used, requests, answers, ghosts>>

\* The answer carries the secret and its QR code to the user.
SetupShow(s) ==
    /\ pc[s] = "showing"
    /\ shown' = shown \cup {s}
    /\ Goto(s, "done")
    /\ UNCHANGED <<rows, requests, given, ghosts>>

Setup(s) == SetupSelect(s) \/ SetupUpdate(s) \/ SetupInsert(s) \/ SetupShow(s)

-----------------------------------------------------------------------------
(* POST /2fa/confirm, /2fa/recovery-codes/regenerate and /2fa/disable.     *)

\* The SELECT, the check that 2FA is off, and the check of the code.
ConfirmSelect(c) ==
    /\ pc[c] = "idle"
    /\ \E s \in shown :
         /\ code' = [code EXCEPT ![c] = s]
         /\ IF status = "off" /\ s = secret
            THEN /\ crossed' = crossed \cup In(Setups, {"selected"})
                 /\ Goto(c, "accepted")
            ELSE UNCHANGED crossed /\ Goto(c, "rejected")
    /\ UNCHANGED <<rows, loaded, doomed, answers, confirmed, overtaken, rivals>>

\* regenerate_recovery_codes and disable: 2FA is on, and the code is right.
ManageSelect(w) ==
    /\ pc[w] = "idle"
    /\ \E s \in shown :
         /\ code' = [code EXCEPT ![w] = s]
         /\ Goto(w, IF status = "on" /\ s = secret THEN "accepted" ELSE "rejected")
    /\ UNCHANGED <<rows, loaded, doomed, answers, ghosts>>

\* The DELETE takes the rows committed by now; a change of is_enabled goes first.
DeleteCodes(w) ==
    /\ pc[w] = "accepted"
    /\ w \in Confirms \cup Disables => RowFree
    /\ doomed' = [doomed EXCEPT ![w] = codes]
    /\ Goto(w, "deleted")
    /\ UNCHANGED <<rows, loaded, code, answers, ghosts>>

Overtakes(w) ==
    LET others == In(Writers \ {w}, UnderWay)
    IN  overtaken' = overtaken \cup others
                       \cup (IF In(others, {"deleted"}) # {} THEN {w} ELSE {})

Fresh(w) == {w} \X (1..CodeCount)

\* Mutant: the new batch is added to the old one.
IssueCommitAdds(w) ==
    /\ pc[w] = "deleted"
    /\ codes' = codes \cup Fresh(w)
    /\ status' = IF w \in Confirms THEN "on" ELSE status
    /\ confirmed' = IF w \in Confirms THEN confirmed \cup {code[w]} ELSE confirmed
    /\ Overtakes(w)
    /\ Goto(w, "answering")
    /\ UNCHANGED <<secret, used, requests, answers, crossed, rivals>>

IssueCommit(w) ==
    /\ pc[w] = "deleted"
    /\ codes' = (codes \ doomed[w]) \cup Fresh(w)
    /\ status' = IF w \in Confirms THEN "on" ELSE status
    /\ confirmed' = IF w \in Confirms THEN confirmed \cup {code[w]} ELSE confirmed
    /\ Overtakes(w)
    /\ Goto(w, "answering")
    /\ UNCHANGED <<secret, used, requests, answers, crossed, rivals>>

\* The only time the plaintext codes exist.
IssueAnswer(w) ==
    /\ pc[w] = "answering"
    /\ given' = given \cup {w}
    /\ Goto(w, "done")
    /\ UNCHANGED <<rows, requests, shown, ghosts>>

\* Mutant: disabling keeps the recovery codes.
DisableCommitKeeps(d) ==
    /\ pc[d] = "deleted"
    /\ status' = "off"
    /\ Overtakes(d)
    /\ Goto(d, "done")
    /\ UNCHANGED <<secret, codes, used, requests, answers, confirmed, crossed, rivals>>

DisableCommit(d) ==
    /\ pc[d] = "deleted"
    /\ status' = "off" /\ codes' = codes \ doomed[d]
    /\ Overtakes(d)
    /\ Goto(d, "done")
    /\ UNCHANGED <<secret, used, requests, answers, confirmed, crossed, rivals>>

-----------------------------------------------------------------------------
(* POST /2fa/verify.                                                       *)

\* The SELECT of the row and, after Redis has held no mailed code, the check of
\* the code against the secret that was loaded.
VerifySelect(v) ==
    /\ pc[v] = "idle"
    /\ \E c \in shown \cup (given \X (1..CodeCount)) :
         /\ code' = [code EXCEPT ![v] = c]
         /\ Goto(v, IF status = "off" THEN "rejected"
                    ELSE IF c = secret THEN "matched" ELSE "looking")
    /\ UNCHANGED <<rows, loaded, doomed, answers, ghosts>>

\* last_used_at := now needs the row's lock; nothing reads it.
VerifyCommit(v) ==
    /\ pc[v] = "matched" /\ RowFree
    /\ Goto(v, "opening")
    /\ UNCHANGED <<rows, requests, answers, ghosts>>

\* _find_unused_recovery_code.
VerifyFind(v) ==
    /\ pc[v] = "looking"
    /\ Goto(v, IF code[v] \in codes \ used THEN "found" ELSE "rejected")
    /\ UNCHANGED <<rows, requests, answers, ghosts>>

\* Mutant: the use of a recovery code is not recorded.
VerifyUseForgets(v) ==
    /\ pc[v] = "found" /\ RowFree /\ ~Locked(code[v])
    /\ rivals' = rivals \cup {w \in In(Verifies, {"found"}) \ {v} : code[w] = code[v]}
    /\ Goto(v, "opening")
    /\ UNCHANGED <<rows, requests, answers, confirmed, crossed, overtaken>>

\* The UPDATE of a row that was deleted meanwhile fails.
VerifyUse(v) ==
    /\ pc[v] = "found" /\ RowFree /\ ~Locked(code[v])
    /\ \/ /\ code[v] \in codes
          /\ used' = used \cup {code[v]}
          /\ rivals' = rivals \cup {w \in In(Verifies, {"found"}) \ {v} : code[w] = code[v]}
          /\ Goto(v, "opening")
       \/ /\ code[v] \notin codes
          /\ Goto(v, "failed")
          /\ UNCHANGED <<used, rivals>>
    /\ UNCHANGED <<row, codes, requests, answers, confirmed, crossed, overtaken>>

\* create_login_session_response, in one step.
OpenSession(v) ==
    /\ pc[v] = "opening"
    /\ Goto(v, "open")
    /\ UNCHANGED <<rows, requests, answers, ghosts>>

Verify(v) ==
    \/ VerifySelect(v) \/ VerifyCommit(v) \/ VerifyFind(v) \/ VerifyUse(v)
    \/ OpenSession(v)

\* A task that dies rolls back what it has not committed.
Die(t) ==
    /\ t \in CrashProne
    /\ pc[t] \in {"selected", "showing", "accepted", "deleted", "answering",
                  "matched", "looking", "found", "opening"}
    /\ Goto(t, "dead")
    /\ UNCHANGED <<rows, requests, answers, ghosts>>

Next ==
    \/ \E s \in Setups : Setup(s)
    \/ \E c \in Confirms : ConfirmSelect(c)
    \/ \E w \in Regenerates \cup Disables : ManageSelect(w)
    \/ \E w \in Writers : DeleteCodes(w)
    \/ \E w \in Issuers : IssueCommit(w) \/ IssueAnswer(w)
    \/ \E d \in Disables : DisableCommit(d)
    \/ \E v \in Verifies : Verify(v)
    \/ \E t \in Tasks : Die(t)

Spec == Init /\ [][Next]_vars

-----------------------------------------------------------------------------
(* Correctness.                                                            *)

Stages == {"idle", "selected", "showing", "accepted", "deleted", "answering", "matched",
           "looking", "found", "opening", "open", "done", "rejected", "failed", "dead"}

\* Every variable keeps its type, and 2FA is on only if there is a row.
TypeOK ==
    /\ secret \in Secrets \cup {Nothing}
    /\ status \in {"off", "on"}
    /\ codes \in SUBSET RecoveryCodes
    /\ used \in SUBSET RecoveryCodes
    /\ pc \in [Tasks -> Stages]
    /\ loaded \in [Setups -> {"none", "off"}]
    /\ code \in [Writers \cup Verifies -> Secrets \cup RecoveryCodes \cup {Nothing}]
    /\ doomed \in [Writers -> SUBSET RecoveryCodes]
    /\ shown \in SUBSET Secrets
    /\ given \in SUBSET Issuers
    /\ confirmed \in SUBSET Secrets
    /\ crossed \in SUBSET Setups
    /\ overtaken \in SUBSET Writers
    /\ rivals \in SUBSET Verifies
    /\ status = "on" => secret # Nothing

\* 2FA is on only with a secret that a confirm has confirmed, unless the setup
\* that drew it overlapped a confirmation.
EnabledConfirmed == status = "on" => secret \in confirmed \cup crossed

\* A recovery code opens two sessions only if both requests had found it before
\* either had marked it.
CodeOnce ==
    \A v, w \in Verifies :
        /\ v # w /\ code[v] = code[w] /\ code[v] \in RecoveryCodes
        /\ pc[v] \in {"opening", "open"} /\ pc[w] \in {"opening", "open"}
        => v \in rivals \/ w \in rivals

\* Two batches live side by side only if a request of one overlapped another
\* writer's commit; so the ten codes of the last answer are all there are.
OneBatch ==
    \A a, b \in codes : a[1] # b[1] => a[1] \in overtaken \/ b[1] \in overtaken

\* Recovery codes outlive 2FA only if they were drawn while it was turned off.
CodesNeedFactor == status = "off" => \A c \in codes : c[1] \in overtaken
=============================================================================
