--------------------------- MODULE OldAccountsProofs ---------------------------
(***************************************************************************)
(* Theorems about OldAccounts, for any number of requests of each kind, any*)
(* of which may die.                                                       *)
(***************************************************************************)
EXTENDS OldAccounts, FiniteSetTheorems, TLAPS

\* Who mints a link does so for a user, a click under way has found a row, a link that
\* is mailed has been stored, and what welcomes or opens a session is done.
Informed ==
    /\ \A t \in Minters : stage[t] \in {"owner", "loaded", "mailing"} => password # Nothing
    /\ \A c \in Clicks : stage[c] \in {"accepted", "verified"} => found[c] \in Minters
    /\ \A t \in welcomed \cup sessions : stage[t] = "done"
    /\ \A t \in (mailed \cup {link}) \ {Nothing} : stage[t] \in {"mailing", "done", "lost", "dead"}
    /\ \A i \in SignIns : i \in sessions \/ stage[i] = "opening" => password # Nothing

Typed == TypeOK /\ Informed

\* Every variable keeps its type, and requests act on what there is.
LEMMA TypedAlways == Spec => []Typed
<1> USE DEF Typed, TypeOK, Informed, To, user, token, mails, history, Tasks, Minters
<1>1. Init => Typed
  BY KindsApart DEF Init
<1>2. Typed /\ [Next]_vars => Typed'
  <2> SUFFICES ASSUME Typed, [Next]_vars PROVE Typed'
    OBVIOUS
  <2>0. /\ \A t \in Minters : t \notin Clicks /\ t \notin SignIns /\ t \notin Changes
        /\ \A t \in Clicks : t \notin SignIns /\ t \notin Changes
        /\ \A t \in SignIns : t \notin Changes
        /\ Nothing \notin Tasks
    BY KindsApart
  <2>1. ASSUME NEW t \in Minters, TokenSelect(t) PROVE Typed'
    BY <2>0, <2>1 DEF TokenSelect
  <2>2. ASSUME NEW t \in Minters, TokenCommit(t) PROVE Typed'
    BY <2>0, <2>2 DEF TokenCommit, RacedBy, Underway
  <2>3. ASSUME NEW t \in Minters, TokenMail(t) PROVE Typed'
    BY <2>0, <2>3 DEF TokenMail, Written, RacedBy, Underway
  <2>4. ASSUME NEW s \in Signups, SignupSelect(s) \/ SignupSelectAgain(s) \/ SignupInsert(s)
        PROVE  Typed'
    BY <2>0, <2>4 DEF SignupSelect, SignupSelectAgain, SignupInsert
  <2>5. ASSUME NEW r \in Resends, ResendSelect(r) PROVE Typed'
    BY <2>0, <2>5 DEF ResendSelect
  <2>6. ASSUME NEW c \in Clicks, ClickSelect(c) PROVE Typed'
    BY <2>0, <2>6 DEF ClickSelect
  <2>7. ASSUME NEW c \in Clicks, ClickVerify(c) PROVE Typed'
    BY <2>0, <2>7 DEF ClickVerify, RacedBy, Underway
  <2>8. ASSUME NEW c \in Clicks, ClickDelete(c) PROVE Typed'
    BY <2>0, <2>8 DEF ClickDelete, RacedBy, Underway
  <2>9. ASSUME NEW c \in Clicks, ClickWelcome(c) PROVE Typed'
    BY <2>0, <2>9 DEF ClickWelcome
  <2>10. ASSUME NEW i \in SignIns, NEW p \in Signups \cup Changes, SignInSelect(i, p)
         PROVE  Typed'
    BY <2>0, <2>10 DEF SignInSelect
  <2>11. ASSUME NEW i \in SignIns, SignInOpen(i) PROVE Typed'
    BY <2>0, <2>11 DEF SignInOpen
  <2>12. ASSUME NEW h \in Changes, NEW p \in Signups \cup Changes, ChangeSelect(h, p)
         PROVE  Typed'
    BY <2>0, <2>12 DEF ChangeSelect
  <2>13. ASSUME NEW h \in Changes, ChangeCommit(h) \/ ChangeMail(h) PROVE Typed'
    BY <2>0, <2>13 DEF ChangeCommit, ChangeMail
  <2>14. ASSUME NEW h \in Changes, ChangeSweep(h) PROVE Typed'
    BY <2>0, <2>14 DEF ChangeSweep
  <2>15. CASE Expire
    BY <2>15 DEF Expire
  <2>16. ASSUME NEW t \in Tasks, Die(t) PROVE Typed'
    BY <2>0, <2>16 DEF Die
  <2>17. CASE UNCHANGED vars
    BY <2>17 DEF vars
  <2> QED
    BY <2>1, <2>2, <2>3, <2>4, <2>5, <2>6, <2>7, <2>8, <2>9, <2>10, <2>11, <2>12, <2>13,
       <2>14, <2>15, <2>16, <2>17
       DEF Next, Signup, Resend, MintLink, Click, SignIn, Change
<1> QED
  BY <1>1, <1>2, PTL DEF Spec

\* Every variable keeps its type: no link without a row, no row without a user, and no
\* failed sign-in is ever counted in the user row.
THEOREM TypeCorrect == Spec => []TypeOK
<1>1. Typed => TypeOK
  BY DEF Typed
<1> QED
  BY <1>1, TypedAlways, PTL

-----------------------------------------------------------------------------
(* The links.                                                              *)

\* A link that waits for its mail is the stored one in the row it wrote, who is about to insert a row has
\* found none, and a click that has acted has verified the address: but for an overlap,
\* or once the address is verified.
LinksExplained ==
    /\ NewestLinkStored /\ LostHarmless
    /\ \A t \in Minters \ raced : stage[t] = "mailing" /\ verified = "no" => link = t
    /\ \A t \in Minters : stage[t] = "mailing" /\ verified = "no" => row = Written(t)
    /\ \A t \in Minters : stage[t] = "loaded" /\ row = Nothing /\ verified = "no" =>
                            found[t] = Nothing
    /\ \A c \in Clicks : stage[c] \in {"verified", "welcoming", "done"} => verified = "yes"

\* The stored link is explained by the requests for links.
LEMMA LinksInvariant == Spec => []LinksExplained
<1> USE DEF LinksExplained, NewestLinkStored, LostHarmless, Written, To, user, token, mails,
            history, Tasks, Minters
<1>1. Init => LinksExplained
  BY KindsApart DEF Init
<1>2. Typed /\ LinksExplained /\ [Next]_vars => LinksExplained'
  <2> SUFFICES ASSUME Typed, LinksExplained, [Next]_vars PROVE LinksExplained'
    OBVIOUS
  <2> USE DEF Typed, TypeOK, Informed
  <2>0. /\ \A t \in Minters : t \notin Clicks /\ t \notin SignIns /\ t \notin Changes
        /\ \A t \in Clicks : t \notin SignIns /\ t \notin Changes
        /\ \A t \in SignIns : t \notin Changes
        /\ Nothing \notin Tasks
    BY KindsApart
  <2>1. ASSUME NEW t \in Minters, TokenSelect(t) PROVE LinksExplained'
    BY <2>0, <2>1 DEF TokenSelect
  <2>2. ASSUME NEW t \in Minters, TokenCommit(t) PROVE LinksExplained'
    BY <2>0, <2>2 DEF TokenCommit, RacedBy, Underway
  <2>3. ASSUME NEW t \in Minters, TokenMail(t) PROVE LinksExplained'
    BY <2>0, <2>3 DEF TokenMail, Written, RacedBy, Underway
  <2>4. ASSUME NEW s \in Signups, SignupSelect(s) \/ SignupSelectAgain(s) \/ SignupInsert(s)
        PROVE  LinksExplained'
    BY <2>0, <2>4 DEF SignupSelect, SignupSelectAgain, SignupInsert
  <2>5. ASSUME NEW r \in Resends, ResendSelect(r) PROVE LinksExplained'
    BY <2>0, <2>5 DEF ResendSelect
  <2>6. ASSUME NEW c \in Clicks, ClickSelect(c) PROVE LinksExplained'
    BY <2>0, <2>6 DEF ClickSelect
  <2>7. ASSUME NEW c \in Clicks, ClickVerify(c) PROVE LinksExplained'
    BY <2>0, <2>7 DEF ClickVerify, RacedBy, Underway
  <2>8. ASSUME NEW c \in Clicks, ClickDelete(c) PROVE LinksExplained'
    BY <2>0, <2>8 DEF ClickDelete, RacedBy, Underway
  <2>9. ASSUME NEW c \in Clicks, ClickWelcome(c) PROVE LinksExplained'
    BY <2>0, <2>9 DEF ClickWelcome
  <2>10. ASSUME NEW i \in SignIns, NEW p \in Signups \cup Changes, SignInSelect(i, p)
         PROVE  LinksExplained'
    BY <2>0, <2>10 DEF SignInSelect
  <2>11. ASSUME NEW i \in SignIns, SignInOpen(i) PROVE LinksExplained'
    BY <2>0, <2>11 DEF SignInOpen
  <2>12. ASSUME NEW h \in Changes, NEW p \in Signups \cup Changes, ChangeSelect(h, p)
         PROVE  LinksExplained'
    BY <2>0, <2>12 DEF ChangeSelect
  <2>13. ASSUME NEW h \in Changes, ChangeCommit(h) \/ ChangeMail(h)
         PROVE  LinksExplained'
    BY <2>0, <2>13 DEF ChangeCommit, ChangeMail
  <2>14. ASSUME NEW h \in Changes, ChangeSweep(h) PROVE LinksExplained'
    BY <2>0, <2>14 DEF ChangeSweep
  <2>15. CASE Expire
    BY <2>15 DEF Expire
  <2>16. ASSUME NEW t \in Tasks, Die(t) PROVE LinksExplained'
    BY <2>0, <2>16 DEF Die
  <2>17. CASE UNCHANGED vars
    BY <2>17 DEF vars
  <2> QED
    BY <2>1, <2>2, <2>3, <2>4, <2>5, <2>6, <2>7, <2>8, <2>9, <2>10, <2>11, <2>12, <2>13,
       <2>14, <2>15, <2>16, <2>17
       DEF Next, Signup, Resend, MintLink, Click, SignIn, Change
<1> QED
  BY <1>1, <1>2, TypedAlways, PTL DEF Spec

\* A click that is through without an overlap has left nothing to click on.
Through == {c \in Clicks \ raced : stage[c] \in {"welcoming", "done"}}

\* A click without an overlap deletes the row that it has found; then no request is
\* under way and none can follow, so it is the only one.
ClicksExplained ==
    /\ \A c \in Clicks \ raced : stage[c] \in {"accepted", "verified"} => row = found[c]
    /\ Through # {} =>
         row = Nothing /\ Underway = {} /\ verified = "yes" /\ password # Nothing
    /\ \A c, d \in Through : c = d

\* At most one click that no other overlapped goes on to welcome.
LEMMA ClicksInvariant == Spec => []ClicksExplained
<1> USE DEF ClicksExplained, Through, To, user, token, mails, history, Tasks, Minters
<1>1. Init => ClicksExplained
  BY KindsApart DEF Init, Underway
<1>2. Typed /\ LinksExplained /\ ClicksExplained /\ [Next]_vars => ClicksExplained'
  <2> SUFFICES ASSUME Typed, LinksExplained, ClicksExplained, [Next]_vars
               PROVE  ClicksExplained'
    OBVIOUS
  <2> USE DEF Typed, TypeOK, Informed, LinksExplained, Underway
  <2>0. /\ \A t \in Minters : t \notin Clicks /\ t \notin SignIns /\ t \notin Changes
        /\ \A t \in Clicks : t \notin SignIns /\ t \notin Changes
        /\ \A t \in SignIns : t \notin Changes
        /\ Nothing \notin Tasks
    BY KindsApart
  <2>1. ASSUME NEW t \in Minters, TokenSelect(t) PROVE ClicksExplained'
    BY <2>0, <2>1 DEF TokenSelect
  <2>2. ASSUME NEW t \in Minters, TokenCommit(t) PROVE ClicksExplained'
    BY <2>0, <2>2 DEF TokenCommit, RacedBy
  <2>3. ASSUME NEW t \in Minters, TokenMail(t) PROVE ClicksExplained'
    BY <2>0, <2>3 DEF TokenMail, Written, RacedBy
  <2>4. ASSUME NEW s \in Signups, SignupSelect(s) \/ SignupSelectAgain(s) \/ SignupInsert(s)
        PROVE  ClicksExplained'
    BY <2>0, <2>4 DEF SignupSelect, SignupSelectAgain, SignupInsert
  <2>5. ASSUME NEW r \in Resends, ResendSelect(r) PROVE ClicksExplained'
    BY <2>0, <2>5 DEF ResendSelect
  <2>6. ASSUME NEW c \in Clicks, ClickSelect(c) PROVE ClicksExplained'
    BY <2>0, <2>6 DEF ClickSelect
  <2>7. ASSUME NEW c \in Clicks, ClickVerify(c) PROVE ClicksExplained'
    BY <2>0, <2>7 DEF ClickVerify, RacedBy
  <2>8. ASSUME NEW c \in Clicks, ClickDelete(c) PROVE ClicksExplained'
    BY <2>0, <2>8 DEF ClickDelete, RacedBy
  <2>9. ASSUME NEW c \in Clicks, ClickWelcome(c) PROVE ClicksExplained'
    BY <2>0, <2>9 DEF ClickWelcome
  <2>10. ASSUME NEW i \in SignIns, NEW p \in Signups \cup Changes, SignInSelect(i, p)
         PROVE  ClicksExplained'
    BY <2>0, <2>10 DEF SignInSelect
  <2>11. ASSUME NEW i \in SignIns, SignInOpen(i) PROVE ClicksExplained'
    BY <2>0, <2>11 DEF SignInOpen
  <2>12. ASSUME NEW h \in Changes, NEW p \in Signups \cup Changes, ChangeSelect(h, p)
         PROVE  ClicksExplained'
    BY <2>0, <2>12 DEF ChangeSelect
  <2>13. ASSUME NEW h \in Changes, ChangeCommit(h) \/ ChangeMail(h)
         PROVE  ClicksExplained'
    BY <2>0, <2>13 DEF ChangeCommit, ChangeMail
  <2>14. ASSUME NEW h \in Changes, ChangeSweep(h) PROVE ClicksExplained'
    BY <2>0, <2>14 DEF ChangeSweep
  <2>15. CASE Expire
    BY <2>15 DEF Expire
  <2>16. ASSUME NEW t \in Tasks, Die(t) PROVE ClicksExplained'
    BY <2>0, <2>16 DEF Die
  <2>17. CASE UNCHANGED vars
    BY <2>17 DEF vars
  <2> QED
    BY <2>1, <2>2, <2>3, <2>4, <2>5, <2>6, <2>7, <2>8, <2>9, <2>10, <2>11, <2>12, <2>13,
       <2>14, <2>15, <2>16, <2>17
       DEF Next, Signup, Resend, MintLink, Click, SignIn, Change
<1> QED
  BY <1>1, <1>2, TypedAlways, LinksInvariant, PTL DEF Spec

\* The newest link that was mailed is the stored one, two welcome mails go out only when
\* two requests overlapped, and a lost request leaves an address that is verified or for
\* which another link is stored.
THEOREM LinksAreServed == Spec => []LinksServed
<1>1. Typed /\ ClicksExplained => WelcomeOnce
  <2> SUFFICES ASSUME Typed, ClicksExplained, welcomed \cap raced = {}
               PROVE  ~(Cardinality(welcomed) > 1)
    BY DEF WelcomeOnce
  <2>1. welcomed \subseteq Through
    BY DEF Typed, TypeOK, Informed, Through
  <2>2. welcomed = {} \/ \E c \in welcomed : welcomed = {c}
    BY <2>1 DEF ClicksExplained
  <2>3. CASE welcomed = {}
    <3>1. Cardinality(welcomed) = 0
      BY <2>3, FS_EmptySet
    <3> QED
      BY <3>1
  <2>4. ASSUME NEW c \in welcomed, welcomed = {c} PROVE ~(Cardinality(welcomed) > 1)
    <3>1. Cardinality(welcomed) = 1
      BY <2>4, FS_Singleton
    <3> QED
      BY <3>1
  <2> QED
    BY <2>2, <2>3, <2>4
<1>2. LinksExplained /\ WelcomeOnce => LinksServed
  BY DEF LinksExplained, LinksServed
<1> QED
  BY <1>1, <1>2, TypedAlways, LinksInvariant, ClicksInvariant, PTL

-----------------------------------------------------------------------------
(* The sessions and the passwords.                                         *)

\* A sign-in that is about to open a session has found the address verified and typed
\* the password that holds, but for a change that has not swept; a change that has
\* compared the password knows it, or another has overtaken it.
SessionsExplained ==
    /\ SessionsEarned
    /\ verified = "yes" => clicked # {}
    /\ \A i \in SignIns : stage[i] = "opening" =>
         /\ verified = "yes"
         /\ \/ \E h \in Changes : stage[h] \in {"changed", "dead"}
            \/ typed[i] = password \/ i \in raced
    /\ \A h \in Changes : stage[h] = "checked" =>
         password # Nothing /\ (typed[h] = password \/ h \in raced)

\* The sessions are explained by the sign-ins and the changes under way.
LEMMA SessionsInvariant == Spec => []SessionsExplained
<1> USE DEF SessionsExplained, SessionsEarned, SessionNeedsClick, SessionsFollowPassword,
            To, user, token, mails, history, Tasks, Minters
<1>1. Init => SessionsExplained
  BY KindsApart DEF Init
<1>2. Typed /\ SessionsExplained /\ [Next]_vars => SessionsExplained'
  <2> SUFFICES ASSUME Typed, SessionsExplained, [Next]_vars PROVE SessionsExplained'
    OBVIOUS
  <2> USE DEF Typed, TypeOK, Informed
  <2>0. /\ \A t \in Minters : t \notin Clicks /\ t \notin SignIns /\ t \notin Changes
        /\ \A t \in Clicks : t \notin SignIns /\ t \notin Changes
        /\ \A t \in SignIns : t \notin Changes
        /\ Nothing \notin Tasks
    BY KindsApart
  <2>1. ASSUME NEW t \in Minters, TokenSelect(t) PROVE SessionsExplained'
    BY <2>0, <2>1 DEF TokenSelect
  <2>2. ASSUME NEW t \in Minters, TokenCommit(t) PROVE SessionsExplained'
    BY <2>0, <2>2 DEF TokenCommit, RacedBy, Underway
  <2>3. ASSUME NEW t \in Minters, TokenMail(t) PROVE SessionsExplained'
    BY <2>0, <2>3 DEF TokenMail, Written, RacedBy, Underway
  <2>4. ASSUME NEW s \in Signups, SignupSelect(s) \/ SignupSelectAgain(s) \/ SignupInsert(s)
        PROVE  SessionsExplained'
    BY <2>0, <2>4 DEF SignupSelect, SignupSelectAgain, SignupInsert
  <2>5. ASSUME NEW r \in Resends, ResendSelect(r) PROVE SessionsExplained'
    BY <2>0, <2>5 DEF ResendSelect
  <2>6. ASSUME NEW c \in Clicks, ClickSelect(c) PROVE SessionsExplained'
    BY <2>0, <2>6 DEF ClickSelect
  <2>7. ASSUME NEW c \in Clicks, ClickVerify(c) PROVE SessionsExplained'
    BY <2>0, <2>7 DEF ClickVerify, RacedBy, Underway
  <2>8. ASSUME NEW c \in Clicks, ClickDelete(c) PROVE SessionsExplained'
    BY <2>0, <2>8 DEF ClickDelete, RacedBy, Underway
  <2>9. ASSUME NEW c \in Clicks, ClickWelcome(c) PROVE SessionsExplained'
    BY <2>0, <2>9 DEF ClickWelcome
  <2>10. ASSUME NEW i \in SignIns, NEW p \in Signups \cup Changes, SignInSelect(i, p)
         PROVE  SessionsExplained'
    BY <2>0, <2>10 DEF SignInSelect
  <2>11. ASSUME NEW i \in SignIns, SignInOpen(i) PROVE SessionsExplained'
    BY <2>0, <2>11 DEF SignInOpen
  <2>12. ASSUME NEW h \in Changes, NEW p \in Signups \cup Changes, ChangeSelect(h, p)
         PROVE  SessionsExplained'
    BY <2>0, <2>12 DEF ChangeSelect
  <2>13. ASSUME NEW h \in Changes, ChangeCommit(h) \/ ChangeMail(h)
         PROVE  SessionsExplained'
    BY <2>0, <2>13 DEF ChangeCommit, ChangeMail
  <2>14. ASSUME NEW h \in Changes, ChangeSweep(h) PROVE SessionsExplained'
    BY <2>0, <2>14 DEF ChangeSweep
  <2>15. CASE Expire
    BY <2>15 DEF Expire
  <2>16. ASSUME NEW t \in Tasks, Die(t) PROVE SessionsExplained'
    BY <2>0, <2>16 DEF Die
  <2>17. CASE UNCHANGED vars
    BY <2>17 DEF vars
  <2> QED
    BY <2>1, <2>2, <2>3, <2>4, <2>5, <2>6, <2>7, <2>8, <2>9, <2>10, <2>11, <2>12, <2>13,
       <2>14, <2>15, <2>16, <2>17
       DEF Next, Signup, Resend, MintLink, Click, SignIn, Change
<1> QED
  BY <1>1, <1>2, TypedAlways, PTL DEF Spec

\* Whoever signs in has clicked on a mailed link, and no session outlives a change of
\* the password but that of a sign-in which was under way (sign_in, change_password).
THEOREM SessionsAreEarned == Spec => []SessionsEarned
<1>1. SessionsExplained => SessionsEarned
  BY DEF SessionsExplained
<1> QED
  BY <1>1, SessionsInvariant, PTL

\* A password is replaced only by a change whose caller typed that very password, or that
\* another change has overtaken between its check and its commit.
THEOREM ReplacedByWhoKnows == Spec => PasswordKnown
<1>1. Typed /\ SessionsExplained /\ [Next]_vars =>
        [password \notin {Nothing, password'} =>
           \E h \in Changes :
             password' = h /\ (typed[h] = password \/ h \in raced)]_vars
  <2> SUFFICES ASSUME Typed, SessionsExplained, Next, password' # password, password # Nothing
               PROVE  \E h \in Changes :
                        password' = h /\ (typed[h] = password \/ h \in raced)
    BY DEF vars
  <2>1. PICK h \in Changes : ChangeCommit(h)
    BY DEF Next, Signup, SignupSelect, SignupSelectAgain, SignupInsert, Resend, ResendSelect,
           MintLink, TokenSelect, TokenCommit, TokenMail, Click, ClickSelect, ClickVerify,
           ClickDelete, ClickWelcome, SignIn, SignInSelect, SignInOpen, Change, ChangeSelect,
           ChangeSweep, ChangeMail, Expire, Die, user
  <2> QED
    BY <2>1 DEF ChangeCommit, SessionsExplained
<1> QED
  BY <1>1, TypedAlways, SessionsInvariant, PTL DEF Spec, PasswordKnown
=============================================================================
