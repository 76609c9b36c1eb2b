--------------------------- MODULE TwoFactorProofs ---------------------------
(***************************************************************************)
(* Theorems about the second factor in both trees, for any number of       *)
(* requests of each kind, any of which may die, and batches of recovery    *)
(* codes of any size.  First those of the app, TwoFactor; then those of the*)
(* old tree, OldTwoFactor, which is the instance Old; then both together,  *)
(* as TLC checks them.                                                     *)
(***************************************************************************)
EXTENDS MCTwoFactor, TLAPS

\* A secret that is shown, or about to be, is in a row that is never deleted,
\* and an accepted request carries a code of a shown secret.
RowExists ==
    /\ shown # {} => secret # Nothing
    /\ \A e \in Enables : pc[e] = "showing" => secret # Nothing
    /\ \A t \in Coded : pc[t] = "accepted" => code[t] \in shown

Typed == TypeOK /\ RowExists

\* Every variable keeps its type, 2FA is on only if there is a row, and only
\* codes of secrets that were shown are ever accepted.
LEMMA TypedAlways == Spec => []Typed
<1> USE DEF Typed, TypeOK, RowExists, Stages, Tasks, Coded, Secrets, Goto, row,
            requests, issued, ghosts
<1>1. Init => Typed
  BY NothingAssumption DEF Init
<1>2. Typed /\ [Next]_vars => Typed'
  <2> SUFFICES ASSUME Typed, [Next]_vars PROVE Typed'
    OBVIOUS
  <2> USE KindAssumption, NothingAssumption
  <2>1. ASSUME NEW e \in Enables, EnableSelect(e) PROVE Typed'
    BY <2>1 DEF EnableSelect
  <2>2. ASSUME NEW e \in Enables, EnableInsert(e) PROVE Typed'
    BY <2>2 DEF EnableInsert
  <2>3. ASSUME NEW e \in Enables, EnableUpdate(e) PROVE Typed'
    BY <2>3 DEF EnableUpdate, StillGuarded
  <2>4. ASSUME NEW e \in Enables, EnableInsertConflict(e) \/ EnableShow(e) PROVE Typed'
    BY <2>4 DEF EnableInsertConflict, EnableShow
  <2>5. ASSUME NEW v \in Verifies, VerifySelect(v) PROVE Typed'
    BY <2>5 DEF VerifySelect, Pending
  <2>6. ASSUME NEW v \in Verifies, VerifyCommit(v) PROVE Typed'
    BY <2>6 DEF VerifyCommit
  <2>7. ASSUME NEW d \in Disables, DisableSelect(d) \/ DisableCommit(d) PROVE Typed'
    BY <2>7 DEF DisableSelect, DisableCommit
  <2>8. ASSUME NEW l \in Logins, LoginPassword(l) \/ LoginCheck(l) \/ ChallengeExpire(l)
        PROVE  Typed'
    BY <2>8 DEF LoginPassword, LoginCheck, ChallengeExpire
  <2>9. ASSUME NEW x \in Validates, ValidateSelect(x) PROVE Typed'
    BY <2>9 DEF ValidateSelect
  <2>10. ASSUME NEW t \in Tasks, OpenSession(t) \/ Die(t) PROVE Typed'
    BY <2>10 DEF OpenSession, Die
  <2>11. ASSUME NEW x \in Validates, ValidateCommit(x) PROVE Typed'
    BY <2>11 DEF ValidateCommit
  <2>12. CASE PasswordChange \/ UNCHANGED vars
    BY <2>12 DEF PasswordChange, vars
  <2> QED
    BY <2>1, <2>2, <2>3, <2>4, <2>5, <2>6, <2>7, <2>8, <2>9, <2>10, <2>11, <2>12
       DEF Next, Enable
<1> QED
  BY <1>1, <1>2, PTL DEF Spec

\* Every variable keeps its type, and 2FA is on only when there is a row: the
\* first half of Typed.
THEOREM TypeCorrect == Spec => []TypeOK
<1>1. Typed => TypeOK
  BY DEF Typed
<1> QED
  BY <1>1, TypedAlways, PTL

-----------------------------------------------------------------------------
(* The secret in force was verified, or its enrolment overlapped a verify. *)

\* What may still turn 2FA on: a verify under way was accepted by the secret in
\* force, or an enable that replaced it is among the crossed ones; and an enable
\* that will leave 2FA on although it is new is among them too.
FactorExplained ==
    /\ EnabledConfirmed
    /\ \A v \in Accepted : secret \in {code[v]} \cup crossed
    /\ \A v \in Accepted : Pending(Enables) \subseteq crossed
    /\ \A e \in Pending(Enables) : loaded[e] = "off" /\ status = "on" => e \in crossed

\* The row's secret and status are explained by the requests under way.
LEMMA FactorInvariant == Spec => []FactorExplained
<1> USE DEF Typed, TypeOK, RowExists, FactorExplained, EnabledConfirmed, Accepted, Pending,
            Stages, Tasks, Coded, Secrets, Goto, row, requests, issued, ghosts
<1>1. Init => FactorExplained
  BY DEF Init
<1>2. Typed /\ FactorExplained /\ [Next]_vars => FactorExplained'
  <2> SUFFICES ASSUME Typed, FactorExplained, [Next]_vars PROVE FactorExplained'
    OBVIOUS
  <2> USE KindAssumption, NothingAssumption
  <2>1. ASSUME NEW e \in Enables, EnableSelect(e) PROVE FactorExplained'
    BY <2>1 DEF EnableSelect
  <2>2. ASSUME NEW e \in Enables, EnableInsert(e) PROVE FactorExplained'
    BY <2>2 DEF EnableInsert
  <2>3. ASSUME NEW e \in Enables, EnableUpdate(e) PROVE FactorExplained'
    BY <2>3 DEF EnableUpdate
  <2>4. ASSUME NEW e \in Enables, EnableInsertConflict(e) \/ EnableShow(e)
        PROVE  FactorExplained'
    BY <2>4 DEF EnableInsertConflict, EnableShow
  <2>5. ASSUME NEW v \in Verifies, VerifySelect(v) PROVE FactorExplained'
    BY <2>5 DEF VerifySelect
  <2>6. ASSUME NEW v \in Verifies, VerifyCommit(v) PROVE FactorExplained'
    BY <2>6 DEF VerifyCommit
  <2>7. ASSUME NEW d \in Disables, DisableSelect(d) \/ DisableCommit(d)
        PROVE  FactorExplained'
    BY <2>7 DEF DisableSelect, DisableCommit
  <2>8. ASSUME NEW l \in Logins, LoginPassword(l) \/ LoginCheck(l) \/ ChallengeExpire(l)
        PROVE  FactorExplained'
    BY <2>8 DEF LoginPassword, LoginCheck, ChallengeExpire
  <2>9. ASSUME NEW x \in Validates, ValidateSelect(x) \/ ValidateCommit(x)
        PROVE  FactorExplained'
    BY <2>9 DEF ValidateSelect, ValidateCommit
  <2>10. ASSUME NEW t \in Tasks, OpenSession(t) \/ Die(t) PROVE FactorExplained'
    BY <2>10 DEF OpenSession, Die
  <2>11. CASE PasswordChange \/ UNCHANGED vars
    BY <2>11 DEF PasswordChange, vars
  <2> QED
    BY <2>1, <2>2, <2>3, <2>4, <2>5, <2>6, <2>7, <2>8, <2>9, <2>10, <2>11
       DEF Next, Enable
<1> QED
  BY <1>1, <1>2, TypedAlways, PTL DEF Spec

\* 2FA is on only with a secret that the user has verified, unless the request
\* that drew it overlapped a verification.
THEOREM EnabledIsConfirmed == Spec => []EnabledConfirmed
<1>1. FactorExplained => EnabledConfirmed
  BY DEF FactorExplained
<1> QED
  BY <1>1, FactorInvariant, PTL

-----------------------------------------------------------------------------
(* The second step of a sign-in.                                           *)

GuardedIsOn == guarded # {} => status = "on"

\* A login during which 2FA is on opens no session of its own, and challenges
\* are answered only by secrets in force.
THEOREM SecondFactorHolds == Spec => []SecondFactor
<1> USE DEF Typed, TypeOK, SecondFactor, GuardedIsOn, Stages, Tasks, Coded, Secrets,
            Goto, row, requests, issued, ghosts
<1>1. Init => SecondFactor /\ GuardedIsOn
  BY KindAssumption DEF Init
<1>2. Typed /\ EnabledConfirmed /\ SecondFactor /\ GuardedIsOn /\ [Next]_vars
        => SecondFactor' /\ GuardedIsOn'
  <2> SUFFICES ASSUME Typed, EnabledConfirmed, SecondFactor, GuardedIsOn, [Next]_vars
               PROVE  SecondFactor' /\ GuardedIsOn'
    OBVIOUS
  <2> USE KindAssumption
  <2>1. ASSUME NEW e \in Enables, EnableSelect(e) PROVE SecondFactor' /\ GuardedIsOn'
    BY <2>1 DEF EnableSelect
  <2>2. ASSUME NEW e \in Enables, EnableInsert(e) PROVE SecondFactor' /\ GuardedIsOn'
    BY <2>2 DEF EnableInsert
  <2>3. ASSUME NEW e \in Enables, EnableUpdate(e) PROVE SecondFactor' /\ GuardedIsOn'
    BY <2>3 DEF EnableUpdate, StillGuarded
  <2>4. ASSUME NEW e \in Enables, EnableInsertConflict(e) \/ EnableShow(e)
        PROVE  SecondFactor' /\ GuardedIsOn'
    BY <2>4 DEF EnableInsertConflict, EnableShow
  <2>5. ASSUME NEW v \in Verifies, VerifySelect(v) PROVE SecondFactor' /\ GuardedIsOn'
    BY <2>5 DEF VerifySelect
  <2>6. ASSUME NEW v \in Verifies, VerifyCommit(v) PROVE SecondFactor' /\ GuardedIsOn'
    BY <2>6 DEF VerifyCommit
  <2>7. ASSUME NEW d \in Disables, DisableSelect(d) \/ DisableCommit(d)
        PROVE  SecondFactor' /\ GuardedIsOn'
    BY <2>7 DEF DisableSelect, DisableCommit
  <2>8. ASSUME NEW l \in Logins, LoginPassword(l) \/ LoginCheck(l) \/ ChallengeExpire(l)
        PROVE  SecondFactor' /\ GuardedIsOn'
    BY <2>8 DEF LoginPassword, LoginCheck, ChallengeExpire
  <2>9. ASSUME NEW x \in Validates, ValidateSelect(x) \/ ValidateCommit(x)
        PROVE  SecondFactor' /\ GuardedIsOn'
    BY <2>9 DEF ValidateSelect, ValidateCommit, EnabledConfirmed
  <2>10. ASSUME NEW t \in Logins \cup Validates, OpenSession(t)
         PROVE  SecondFactor' /\ GuardedIsOn'
    BY <2>10 DEF OpenSession
  <2>11. ASSUME NEW t \in Tasks, Die(t) PROVE SecondFactor' /\ GuardedIsOn'
    BY <2>11 DEF Die
  <2>12. CASE PasswordChange \/ UNCHANGED vars
    BY <2>12 DEF PasswordChange, vars
  <2> QED
    BY <2>1, <2>2, <2>3, <2>4, <2>5, <2>6, <2>7, <2>8, <2>9, <2>10, <2>11, <2>12
       DEF Next, Enable
<1> QED
  BY <1>1, <1>2, TypedAlways, EnabledIsConfirmed, PTL DEF Spec

-----------------------------------------------------------------------------
(* The old tree.                                                           *)

\* A confirm under way carries a secret, and so does a sign-in whose code matched; a
\* sign-in that has found its recovery code carries one.
OldInformed ==
    /\ \A c \in Confirms :
         oldPc[c] \in Old!UnderWay => oldCode[c] \in Setups /\ oldSecret # Nothing
    /\ \A v \in Verifies : oldPc[v] = "matched" => oldCode[v] \in Setups
    /\ \A v \in Verifies : oldPc[v] = "found" => oldCode[v] \in Old!RecoveryCodes

OldTyped == Old!TypeOK /\ OldInformed

\* A request draws codes of its own batch only.
LEMMA FreshCodes ==
    ASSUME NEW w \in Old!Issuers
    PROVE  Old!Fresh(w) \subseteq Old!RecoveryCodes /\ \A c \in Old!Fresh(w) : c[1] = w
BY DEF Old!Fresh, Old!RecoveryCodes

\* Every variable keeps its type, and requests carry the codes that they act on.
LEMMA OldTypedAlways == ASSUME Old!KindsApart PROVE Old!Spec => []OldTyped
<1> USE DEF OldTyped, Old!TypeOK, OldInformed, Old!Stages, Old!Tasks, Old!Writers, Old!Issuers,
            Old!Secrets, Old!Goto, Old!UnderWay,
            Old!row, Old!rows, Old!requests, Old!answers, Old!ghosts, Old!KindsApart
<1>1. Old!Init => OldTyped
  BY DEF Old!Init
<1>2. OldTyped /\ [Old!Next]_(Old!vars) => OldTyped'
  <2> SUFFICES ASSUME OldTyped, [Old!Next]_(Old!vars) PROVE OldTyped'
    OBVIOUS
  <2>1. ASSUME NEW s \in Setups, Old!SetupSelect(s) PROVE OldTyped'
    BY <2>1 DEF Old!SetupSelect, Old!In
  <2>2. ASSUME NEW s \in Setups, Old!SetupUpdate(s) \/ Old!SetupInsert(s) \/ Old!SetupShow(s)
        PROVE  OldTyped'
    BY <2>2 DEF Old!SetupUpdate, Old!SetupInsert, Old!SetupShow
  <2>3. ASSUME NEW c \in Confirms, Old!ConfirmSelect(c) PROVE OldTyped'
    BY <2>3 DEF Old!ConfirmSelect, Old!In
  <2>4. ASSUME NEW w \in Regenerates \cup Disables, Old!ManageSelect(w) PROVE OldTyped'
    BY <2>4 DEF Old!ManageSelect
  <2>5. ASSUME NEW w \in Old!Writers, Old!DeleteCodes(w) PROVE OldTyped'
    BY <2>5 DEF Old!DeleteCodes
  <2>6. ASSUME NEW w \in Old!Issuers, Old!IssueCommit(w) PROVE OldTyped'
    BY <2>6, FreshCodes DEF Old!IssueCommit, Old!Overtakes, Old!In
  <2>7. ASSUME NEW w \in Old!Issuers, Old!IssueAnswer(w) PROVE OldTyped'
    BY <2>7 DEF Old!IssueAnswer
  <2>8. ASSUME NEW d \in Disables, Old!DisableCommit(d) PROVE OldTyped'
    BY <2>8 DEF Old!DisableCommit, Old!Overtakes, Old!In
  <2>9. ASSUME NEW v \in Verifies, Old!VerifySelect(v) PROVE OldTyped'
    BY <2>9 DEF Old!VerifySelect, Old!RecoveryCodes
  <2>10. ASSUME NEW v \in Verifies, Old!VerifyCommit(v) \/ Old!VerifyFind(v) \/ Old!OpenSession(v)
         PROVE  OldTyped'
    BY <2>10 DEF Old!VerifyCommit, Old!VerifyFind, Old!OpenSession
  <2>11. ASSUME NEW v \in Verifies, Old!VerifyUse(v) PROVE OldTyped'
    BY <2>11 DEF Old!VerifyUse, Old!In
  <2>12. ASSUME NEW t \in Old!Tasks, Old!Die(t) PROVE OldTyped'
    BY <2>12 DEF Old!Die
  <2>13. CASE UNCHANGED Old!vars
    BY <2>13 DEF Old!vars
  <2> QED
    BY <2>1, <2>2, <2>3, <2>4, <2>5, <2>6, <2>7, <2>8, <2>9, <2>10, <2>11, <2>12, <2>13
       DEF Old!Next, Old!Setup, Old!Verify
<1> QED
  BY <1>1, <1>2, PTL DEF Old!Spec

\* Every variable keeps its type, and 2FA is on only with a row.
THEOREM OldTypeCorrect == ASSUME Old!KindsApart PROVE Old!Spec => []Old!TypeOK
<1>1. OldTyped => Old!TypeOK
  BY DEF OldTyped
<1> QED
  BY <1>1, OldTypedAlways, PTL

-----------------------------------------------------------------------------
(* Which secret is in force.                                               *)

\* A setup that has read the row and a confirm under way know of each other, and what a
\* confirm is about to turn on is what it has checked, or what such a setup wrote.
OldFactorExplained ==
    /\ Old!EnabledConfirmed
    /\ \A c \in Confirms :
         oldPc[c] \in Old!UnderWay => oldCode[c] = oldSecret \/ oldSecret \in oldCrossed
    /\ \A s \in Setups, c \in Confirms :
         oldPc[s] = "selected" /\ oldPc[c] \in Old!UnderWay => s \in oldCrossed
    /\ \A s \in Setups : oldPc[s] = "selected" /\ oldStatus = "on" => s \in oldCrossed

\* 2FA is on only with a secret that a confirm has confirmed, unless the setup that drew
\* it overlapped a confirmation.
THEOREM OldEnabledIsConfirmed == ASSUME Old!KindsApart PROVE Old!Spec => []Old!EnabledConfirmed
<1> USE DEF OldFactorExplained, Old!EnabledConfirmed, Old!Tasks, Old!Writers, Old!Issuers,
            Old!Goto, Old!UnderWay,
            Old!row, Old!rows, Old!requests, Old!answers, Old!ghosts, Old!KindsApart
<1>1. Old!Init => OldFactorExplained
  BY DEF Old!Init
<1>2. OldTyped /\ OldFactorExplained /\ [Old!Next]_(Old!vars) => OldFactorExplained'
  <2> SUFFICES ASSUME OldTyped, OldFactorExplained, [Old!Next]_(Old!vars)
               PROVE  OldFactorExplained'
    OBVIOUS
  <2> USE DEF OldTyped, Old!TypeOK, OldInformed, Old!Secrets
  <2>1. ASSUME NEW s \in Setups, Old!SetupSelect(s) PROVE OldFactorExplained'
    BY <2>1 DEF Old!SetupSelect, Old!In
  <2>2. ASSUME NEW s \in Setups, Old!SetupUpdate(s) \/ Old!SetupInsert(s) \/ Old!SetupShow(s)
        PROVE  OldFactorExplained'
    BY <2>2 DEF Old!SetupUpdate, Old!SetupInsert, Old!SetupShow
  <2>3. ASSUME NEW c \in Confirms, Old!ConfirmSelect(c) PROVE OldFactorExplained'
    BY <2>3 DEF Old!ConfirmSelect, Old!In
  <2>4. ASSUME NEW w \in Regenerates \cup Disables, Old!ManageSelect(w) PROVE OldFactorExplained'
    BY <2>4 DEF Old!ManageSelect
  <2>5. ASSUME NEW w \in Old!Writers, Old!DeleteCodes(w) PROVE OldFactorExplained'
    BY <2>5 DEF Old!DeleteCodes
  <2>6. ASSUME NEW w \in Old!Issuers, Old!IssueCommit(w) PROVE OldFactorExplained'
    BY <2>6 DEF Old!IssueCommit, Old!Overtakes
  <2>7. ASSUME NEW w \in Old!Issuers, Old!IssueAnswer(w) PROVE OldFactorExplained'
    BY <2>7 DEF Old!IssueAnswer
  <2>8. ASSUME NEW d \in Disables, Old!DisableCommit(d) PROVE OldFactorExplained'
    BY <2>8 DEF Old!DisableCommit, Old!Overtakes
  <2>9. ASSUME NEW v \in Verifies, Old!VerifySelect(v) PROVE OldFactorExplained'
    BY <2>9 DEF Old!VerifySelect
  <2>10. ASSUME NEW v \in Verifies, Old!VerifyCommit(v) \/ Old!VerifyFind(v) \/ Old!OpenSession(v)
         PROVE  OldFactorExplained'
    BY <2>10 DEF Old!VerifyCommit, Old!VerifyFind, Old!OpenSession
  <2>11. ASSUME NEW v \in Verifies, Old!VerifyUse(v) PROVE OldFactorExplained'
    BY <2>11 DEF Old!VerifyUse
  <2>12. ASSUME NEW t \in Old!Tasks, Old!Die(t) PROVE OldFactorExplained'
    BY <2>12 DEF Old!Die
  <2>13. CASE UNCHANGED Old!vars
    BY <2>13 DEF Old!vars
  <2> QED
    BY <2>1, <2>2, <2>3, <2>4, <2>5, <2>6, <2>7, <2>8, <2>9, <2>10, <2>11, <2>12, <2>13
       DEF Old!Next, Old!Setup, Old!Verify
<1>3. OldFactorExplained => Old!EnabledConfirmed
  OBVIOUS
<1> QED
  BY <1>1, <1>2, <1>3, OldTypedAlways, PTL DEF Old!Spec

-----------------------------------------------------------------------------
(* The recovery codes.                                                     *)

\* A writer whose DELETE is sent takes every code but those of batches that overlapped
\* another writer, and a regeneration under way without 2FA was overtaken.
BatchesExplained ==
    /\ Old!OneBatch /\ Old!CodesNeedFactor
    /\ \A w \in Old!Writers : oldPc[w] = "deleted" =>
         \A c \in codes \ doomed[w] : c[1] \in overtaken
    /\ \A w \in Regenerates : oldPc[w] \in Old!UnderWay /\ oldStatus = "off" => w \in overtaken

\* The batches of recovery codes are explained by their writers.
LEMMA BatchesInvariant == ASSUME Old!KindsApart PROVE Old!Spec => []BatchesExplained
<1> USE DEF BatchesExplained, Old!OneBatch, Old!CodesNeedFactor, Old!Tasks, Old!Writers,
            Old!Issuers, Old!Goto,
            Old!UnderWay, Old!row, Old!rows, Old!requests, Old!answers, Old!ghosts, Old!KindsApart
<1>1. Old!Init => BatchesExplained
  BY DEF Old!Init
<1>2. OldTyped /\ BatchesExplained /\ [Old!Next]_(Old!vars) => BatchesExplained'
  <2> SUFFICES ASSUME OldTyped, BatchesExplained, [Old!Next]_(Old!vars) PROVE BatchesExplained'
    OBVIOUS
  <2> USE DEF OldTyped, Old!TypeOK
  <2>1. ASSUME NEW s \in Setups, Old!SetupSelect(s) PROVE BatchesExplained'
    BY <2>1 DEF Old!SetupSelect
  <2>2. ASSUME NEW s \in Setups, Old!SetupUpdate(s) \/ Old!SetupInsert(s) \/ Old!SetupShow(s)
        PROVE  BatchesExplained'
    BY <2>2 DEF Old!SetupUpdate, Old!SetupInsert, Old!SetupShow
  <2>3. ASSUME NEW c \in Confirms, Old!ConfirmSelect(c) PROVE BatchesExplained'
    BY <2>3 DEF Old!ConfirmSelect
  <2>4. ASSUME NEW w \in Regenerates \cup Disables, Old!ManageSelect(w) PROVE BatchesExplained'
    BY <2>4 DEF Old!ManageSelect
  <2>5. ASSUME NEW w \in Old!Writers, Old!DeleteCodes(w) PROVE BatchesExplained'
    BY <2>5 DEF Old!DeleteCodes
  <2>6. ASSUME NEW w \in Old!Issuers, Old!IssueCommit(w) PROVE BatchesExplained'
    <3>1. \A c \in codes' : c \in codes \ doomed[w] \/ c[1] = w
      BY <2>6, FreshCodes DEF Old!IssueCommit
    <3>2. \A c \in codes' : c[1] # w => c[1] \in overtaken
      BY <2>6, <3>1 DEF Old!IssueCommit
    <3>3. overtaken \subseteq overtaken'
      BY <2>6 DEF Old!IssueCommit, Old!Overtakes
    <3>4. \A x \in Old!Writers \ {w} : oldPc[x] = "deleted" => w \in overtaken'
      BY <2>6 DEF Old!IssueCommit, Old!Overtakes, Old!In
    <3>5. oldPc' = [oldPc EXCEPT ![w] = "answering"] /\ oldPc[w] = "deleted"
      BY <2>6 DEF Old!IssueCommit
    <3>6. oldStatus' = IF w \in Confirms THEN "on" ELSE oldStatus
      BY <2>6 DEF Old!IssueCommit
    <3>7. Old!OneBatch'
      BY <3>2, <3>3
    <3>8. Old!CodesNeedFactor'
      BY <3>2, <3>3, <3>5, <3>6
    <3>9. \A x \in Old!Writers : oldPc'[x] = "deleted" =>
            \A c \in codes' \ doomed'[x] : c[1] \in overtaken'
      BY <3>2, <3>3, <3>4, <3>5
    <3> QED
      BY <3>3, <3>5, <3>6, <3>7, <3>8, <3>9
  <2>7. ASSUME NEW w \in Old!Issuers, Old!IssueAnswer(w) PROVE BatchesExplained'
    BY <2>7 DEF Old!IssueAnswer
  <2>8. ASSUME NEW d \in Disables, Old!DisableCommit(d) PROVE BatchesExplained'
    BY <2>8 DEF Old!DisableCommit, Old!Overtakes, Old!In
  <2>9. ASSUME NEW v \in Verifies, Old!VerifySelect(v) PROVE BatchesExplained'
    BY <2>9 DEF Old!VerifySelect
  <2>10. ASSUME NEW v \in Verifies, Old!VerifyCommit(v) \/ Old!VerifyFind(v) \/ Old!OpenSession(v)
         PROVE  BatchesExplained'
    BY <2>10 DEF Old!VerifyCommit, Old!VerifyFind, Old!OpenSession
  <2>11. ASSUME NEW v \in Verifies, Old!VerifyUse(v) PROVE BatchesExplained'
    BY <2>11 DEF Old!VerifyUse
  <2>12. ASSUME NEW t \in Old!Tasks, Old!Die(t) PROVE BatchesExplained'
    BY <2>12 DEF Old!Die
  <2>13. CASE UNCHANGED Old!vars
    BY <2>13 DEF Old!vars
  <2> QED
    BY <2>1, <2>2, <2>3, <2>4, <2>5, <2>6, <2>7, <2>8, <2>9, <2>10, <2>11, <2>12, <2>13
       DEF Old!Next, Old!Setup, Old!Verify
<1> QED
  BY <1>1, <1>2, OldTypedAlways, PTL DEF Old!Spec

\* Two batches live side by side only by an overlap of their writers.
THEOREM BatchesAlone == ASSUME Old!KindsApart PROVE Old!Spec => []Old!OneBatch
<1>1. BatchesExplained => Old!OneBatch
  BY DEF BatchesExplained
<1> QED
  BY <1>1, BatchesInvariant, PTL

\* Recovery codes outlive 2FA only if they were drawn while it was turned off.
THEOREM CodesEnd == ASSUME Old!KindsApart PROVE Old!Spec => []Old!CodesNeedFactor
<1>1. BatchesExplained => Old!CodesNeedFactor
  BY DEF BatchesExplained
<1> QED
  BY <1>1, BatchesInvariant, PTL

\* A code that opens a session is marked used, and whoever still holds it is a rival.
UsesExplained ==
    /\ Old!CodeOnce
    /\ \A v \in Verifies :
         oldPc[v] \in {"opening", "open"} /\ oldCode[v] \in Old!RecoveryCodes =>
           oldCode[v] \in used
    /\ \A v \in Verifies : oldPc[v] = "found" /\ oldCode[v] \in used => v \in rivals

\* A recovery code opens two sessions only if both requests had found it in time.
THEOREM CodesUsedOnce == ASSUME Old!KindsApart PROVE Old!Spec => []Old!CodeOnce
<1> USE DEF UsesExplained, Old!CodeOnce, Old!Tasks, Old!Writers, Old!Issuers, Old!Goto,
            Old!row, Old!rows, Old!requests, Old!answers, Old!ghosts, Old!KindsApart
<1>1. Old!Init => UsesExplained
  BY DEF Old!Init
<1>2. OldTyped /\ UsesExplained /\ [Old!Next]_(Old!vars) => UsesExplained'
  <2> SUFFICES ASSUME OldTyped, UsesExplained, [Old!Next]_(Old!vars) PROVE UsesExplained'
    OBVIOUS
  <2> USE DEF OldTyped, Old!TypeOK, OldInformed
  <2>1. ASSUME NEW s \in Setups, Old!SetupSelect(s) PROVE UsesExplained'
    BY <2>1 DEF Old!SetupSelect
  <2>2. ASSUME NEW s \in Setups, Old!SetupUpdate(s) \/ Old!SetupInsert(s) \/ Old!SetupShow(s)
        PROVE  UsesExplained'
    BY <2>2 DEF Old!SetupUpdate, Old!SetupInsert, Old!SetupShow
  <2>3. ASSUME NEW c \in Confirms, Old!ConfirmSelect(c) PROVE UsesExplained'
    BY <2>3 DEF Old!ConfirmSelect
  <2>4. ASSUME NEW w \in Regenerates \cup Disables, Old!ManageSelect(w) PROVE UsesExplained'
    BY <2>4 DEF Old!ManageSelect
  <2>5. ASSUME NEW w \in Old!Writers, Old!DeleteCodes(w) PROVE UsesExplained'
    BY <2>5 DEF Old!DeleteCodes
  <2>6. ASSUME NEW w \in Old!Issuers, Old!IssueCommit(w) \/ Old!IssueAnswer(w)
        PROVE  UsesExplained'
    BY <2>6 DEF Old!IssueCommit, Old!Overtakes, Old!IssueAnswer
  <2>7. ASSUME NEW d \in Disables, Old!DisableCommit(d) PROVE UsesExplained'
    BY <2>7 DEF Old!DisableCommit, Old!Overtakes
  <2>8. ASSUME NEW v \in Verifies, Old!VerifySelect(v) PROVE UsesExplained'
    BY <2>8 DEF Old!VerifySelect
  <2>9. ASSUME NEW v \in Verifies, Old!VerifyCommit(v) \/ Old!VerifyFind(v) \/ Old!OpenSession(v)
        PROVE  UsesExplained'
    BY <2>9 DEF Old!VerifyCommit, Old!VerifyFind, Old!OpenSession
  <2>10. ASSUME NEW v \in Verifies, Old!VerifyUse(v) PROVE UsesExplained'
    BY <2>10 DEF Old!VerifyUse, Old!In
  <2>11. ASSUME NEW t \in Old!Tasks, Old!Die(t) PROVE UsesExplained'
    BY <2>11 DEF Old!Die
  <2>12. CASE UNCHANGED Old!vars
    BY <2>12 DEF Old!vars
  <2> QED
    BY <2>1, <2>2, <2>3, <2>4, <2>5, <2>6, <2>7, <2>8, <2>9, <2>10, <2>11, <2>12
       DEF Old!Next, Old!Setup, Old!Verify
<1>3. UsesExplained => Old!CodeOnce
  OBVIOUS
<1> QED
  BY <1>1, <1>2, <1>3, OldTypedAlways, PTL DEF Old!Spec

-----------------------------------------------------------------------------
(* Both trees: each takes its own steps, and in the old tree some requests *)
(* may stay away.                                                          *)

\* A behaviour of either tree is one of the app's row.
LEMMA AppSteps == TreesSpec => Spec
<1>1. [TreesNext]_<<part, vars, oldVars>> => [Next]_vars
  BY DEF TreesNext, vars
<1> QED
  BY <1>1, PTL DEF TreesSpec, TreesInit, Spec

\* A behaviour of either tree is one of the old tree's row.
LEMMA OldSteps == TreesSpec => Old!Spec
<1>1. [TreesNext]_<<part, vars, oldVars>> => [Old!Next]_(Old!vars)
  BY DEF TreesNext, oldVars, Old!vars, Old!rows, Old!row, Old!requests, Old!answers,
         Old!ghosts
<1> QED
  BY <1>1, PTL DEF TreesSpec, TreesInit, Old!Spec

\* The app's second factor, as it is checked next to that of the old tree: it is on only
\* with a confirmed secret, but for an overlap, and no sign-in gets around it.
THEOREM AppFactor == TreesSpec => []EnabledConfirmed /\ []SecondFactor
BY AppSteps, EnabledIsConfirmed, SecondFactorHolds, PTL

\* A recovery code of the old tree opens two sessions only if both requests had found it.
THEOREM OldCodesOnce == TreesSpec => []CodeOnce
<1>1. Old!CodeOnce => CodeOnce
  BY DEF CodeOnce
<1> QED
  BY <1>1, OldSteps, CodesUsedOnce, OldKindsApart, PTL

\* Two batches of recovery codes live side by side only by an overlap.
THEOREM OldBatches == TreesSpec => []OneBatch
<1>1. Old!OneBatch => OneBatch
  BY DEF OneBatch
<1> QED
  BY <1>1, OldSteps, BatchesAlone, OldKindsApart, PTL

\* The old tree's types, its secret in force, and the end of its recovery codes.
THEOREM OldFactor == TreesSpec => []OldFactorSound
<1>1. Old!TypeOK /\ Old!EnabledConfirmed /\ Old!CodesNeedFactor => OldFactorSound
  BY DEF OldFactorSound
<1> QED
  BY <1>1, OldSteps, OldTypeCorrect, OldEnabledIsConfirmed, CodesEnd, OldKindsApart, PTL
=============================================================================
