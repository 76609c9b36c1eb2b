-------------------------- MODULE GoogleSignInProofs --------------------------
(***************************************************************************)
(* Theorems about GoogleSignIn, in both trees, for any number of addresses,*)
(* accounts, registrations, clicks, callbacks and exchanges, any of which  *)
(* may die.                                                                *)
(***************************************************************************)
EXTENDS GoogleSignIn, TLAPS

Told == {"identified", "known", "unknown", "absent", "linking", "signed", "done"}
Holding == {"known", "linking", "signed", "done"}

\* A callback that Google has answered knows an account and an address, one that has
\* a row knows it, one that redeems a code carries a state, a registration inserts
\* an address, and who mints or opens a link knows its user.
Informed ==
    /\ \A c \in Callbacks : pc[c] \in Told => account[c] \in Accounts /\ email[c] \in Emails
    /\ \A c \in Callbacks : pc[c] \in Holding => found[c] \in Rows
    /\ \A c \in Callbacks : pc[c] \in {"read", "missed", "consumed"} => state[c] \in Starts
    /\ \A r \in Registers : pc[r] = "absent" => email[r] \in Emails
    /\ \A q \in Resends : pc[q] \in {"registered", "minting", "renewing"} =>
         found[q] \in Registers
    /\ \A k \in Clicks : pc[k] \in {"accepted", "verifying"} => found[k] \in Registers
    /\ \A t \in Callbacks \cup Clicks : pc[t] \notin {"registered", "minting", "renewing"}

Typed == TypeOK /\ Informed

\* Every variable keeps its type, and no request acts on a row or an address that it
\* does not have.
LEMMA TypedAlways == Spec => []Typed
<1> USE DEF Typed, TypeOK, Informed, Told, Holding, Stages, Tasks, Rows, Seekers, Goto, table,
            redis, issued, requests, ghosts
<1>1. Init => Typed
  BY KindAssumption DEF Init
<1>2. Typed /\ [Next]_vars => Typed'
  <2> SUFFICES ASSUME Typed, [Next]_vars PROVE Typed'
    OBVIOUS
  <2> USE KindAssumption, NothingAssumption
  <2>1. ASSUME NEW r \in Registers, RegisterSelect(r) PROVE Typed'
    BY <2>1 DEF RegisterSelect
  <2>2. ASSUME NEW r \in Registers, RegisterInsert(r) PROVE Typed'
    BY <2>2 DEF RegisterInsert
  <2>19. ASSUME NEW q \in Registers \cup Resends, MintLink(q) PROVE Typed'
    BY <2>19 DEF MintLink, TokenSelect, TokenCommit, Owner
  <2>20. ASSUME NEW q \in Resends, ResendSelect(q) PROVE Typed'
    BY <2>20 DEF ResendSelect
  <2>21. ASSUME NEW k \in Clicks, Click(k) PROVE Typed'
    BY <2>21 DEF Click, ClickSelect, ClickVerify, ClickDelete, AppClick
  <2>3. ASSUME NEW s \in Starts, Start(s) \/ StateExpire(s) PROVE Typed'
    BY <2>3 DEF Start, StateExpire
  <2>4. ASSUME NEW c \in Callbacks, AppStateGet(c) PROVE Typed'
    BY <2>4 DEF AppStateGet
  <2>5. ASSUME NEW c \in Callbacks, AppStateDelete(c) PROVE Typed'
    BY <2>5 DEF AppStateDelete
  <2>6. ASSUME NEW c \in Callbacks, OldStateConsume(c) PROVE Typed'
    BY <2>6 DEF OldStateConsume
  <2>7. ASSUME NEW c \in Callbacks, GoogleAnswer(c) PROVE Typed'
    <3>1. PICK n \in 1..Consents, a \in Accounts, e \in Emails, vouched \in BOOLEAN :
            /\ redeemed' = redeemed \cup {<<state[c], n>>}
            /\ account' = [account EXCEPT ![c] = a]
            /\ email' = [email EXCEPT ![c] = e]
            /\ proven' = IF vouched THEN proven \cup {e} ELSE proven
            /\ Goto(c, IF vouched THEN "identified" ELSE "rejected")
      BY <2>7 DEF GoogleAnswer
    <3>2. pc[c] = "consumed" /\ UNCHANGED <<tree, table, states, issued, state, found, loaded,
                                           grant, rivals, crossed>>
      BY <2>7 DEF GoogleAnswer
    <3>3. state[c] \in Starts
      BY <3>2
    <3>4. CASE vouched = TRUE
      BY <3>1, <3>2, <3>3, <3>4
    <3>5. CASE vouched = FALSE
      BY <3>1, <3>2, <3>3, <3>5
    <3> QED
      BY <3>4, <3>5
  <2>8. ASSUME NEW c \in Callbacks, GoogleRefuse(c) PROVE Typed'
    BY <2>8 DEF GoogleRefuse
  <2>9. ASSUME NEW c \in Callbacks, AppSubSelect(c) PROVE Typed'
    BY <2>9 DEF AppSubSelect, Linked
  <2>10. ASSUME NEW c \in Callbacks, AppKnownCommit(c) PROVE Typed'
    BY <2>10 DEF AppKnownCommit
  <2>11. ASSUME NEW c \in Callbacks, EmailSelect(c) PROVE Typed'
    BY <2>11 DEF EmailSelect
  <2>12. ASSUME NEW c \in Callbacks, LinkCommit(c) PROVE Typed'
    BY <2>12 DEF LinkCommit
  <2>13. ASSUME NEW c \in Callbacks, UserInsert(c) PROVE Typed'
    BY <2>13 DEF UserInsert
  <2>14. ASSUME NEW c \in Callbacks, TokenIssue(c) \/ TokenExpire(c) PROVE Typed'
    BY <2>14 DEF TokenIssue, TokenExpire
  <2>15. ASSUME NEW x \in Exchanges, ExchangeCheck(x) PROVE Typed'
    BY <2>15 DEF ExchangeCheck
  <2>16. ASSUME NEW x \in Exchanges, ExchangeOpen(x) \/ AppExchangeAnswer(x) PROVE Typed'
    BY <2>16 DEF ExchangeOpen, AppExchangeAnswer
  <2>17. ASSUME NEW t \in Tasks, Die(t) PROVE Typed'
    BY <2>17 DEF Die
  <2>18. CASE UNCHANGED vars
    BY <2>18 DEF vars
  <2> QED
    BY <2>1, <2>2, <2>3, <2>4, <2>5, <2>6, <2>7, <2>8, <2>9, <2>10, <2>11, <2>12, <2>13,
       <2>14, <2>15, <2>16, <2>17, <2>18, <2>19, <2>20, <2>21
       DEF Next, Register, Resend, Callback, GetOrCreate, Exchange
<1> QED
  BY <1>1, <1>2, PTL DEF Spec

\* The first half of Typed.
THEOREM TypeCorrect == Spec => []TypeOK
<1>1. Typed => TypeOK
  BY DEF Typed
<1> QED
  BY <1>1, TypedAlways, PTL

-----------------------------------------------------------------------------
(* Verification, links and the sessions that rest on them.                 *)

Unentered == {"idle", "read", "missed", "consumed", "identified", "unknown", "absent"}

\* A row is empty until its request inserts it; what a callback has found is a row with
\* an address; a click finds a row once, and verifies it only in the old tree; a callback
\* under way carries an address that Google vouched for; and the row it has found is
\* linked to its account, unless another link crossed.
LinksExplained ==
    /\ VerifiedSound
    /\ \A u \in Rows : sub[u] # Nothing => mail[u] # Nothing
    /\ \A u \in Rows : pc[u] \in Unentered => mail[u] = Nothing
    /\ \A c \in Callbacks : found[c] # Nothing => mail[found[c]] # Nothing
    /\ \A k \in Clicks : pc[k] = "idle" => found[k] = Nothing
    /\ \A k \in Clicks : pc[k] \in {"accepted", "verifying"} => tree = "old"
    /\ \A c \in Callbacks : pc[c] \in {"identified", "unknown", "absent", "linking"} =>
         email[c] \in proven
    /\ \A c \in Callbacks : pc[c] = "linking" =>
         mail[found[c]] = email[c] /\ loaded[c] \in {Nothing, account[c]}
    /\ \A c \in Callbacks : pc[c] = "known" => found[c] \in verified
    /\ \A c \in crossed : pc[c] \in {"signed", "done", "rejected", "dead"}
    /\ \A c \in Callbacks : pc[c] \in {"known", "signed", "done"} =>
         sub[found[c]] = account[c] \/ \E d \in crossed : found[d] = found[c]
    /\ \A x \in Exchanges : pc[x] \in {"valid", "opened"} \/ x \in sessions =>
         grant[x] \in Callbacks /\ pc[grant[x]] = "done"
    /\ \A x \in sessions : pc[x] # "idle"

\* What the table holds is explained by the requests that wrote it.
LEMMA LinksInvariant == Spec => []LinksExplained
<1> USE DEF Typed, TypeOK, Informed, Told, Holding, Stages, Tasks, Rows, Seekers, Goto, table,
            redis, issued, requests, ghosts, LinksExplained, VerifiedSound, Unentered
<1>1. Init => LinksExplained
  BY KindAssumption, NothingAssumption DEF Init
<1>2. Typed /\ Typed' /\ LinksExplained /\ [Next]_vars => LinksExplained'
  <2> SUFFICES ASSUME Typed, Typed', LinksExplained, [Next]_vars PROVE LinksExplained'
    OBVIOUS
  <2> USE KindAssumption, NothingAssumption
  <2>1. ASSUME NEW r \in Registers, RegisterSelect(r) PROVE LinksExplained'
    BY <2>1 DEF RegisterSelect
  <2>17. ASSUME NEW q \in Registers \cup Resends, MintLink(q) PROVE LinksExplained'
    BY <2>17 DEF MintLink, TokenSelect, TokenCommit
  <2>18. ASSUME NEW q \in Resends, ResendSelect(q) PROVE LinksExplained'
    BY <2>18 DEF ResendSelect
  <2>19. ASSUME NEW k \in Clicks, ClickVerify(k) PROVE LinksExplained'
    BY <2>19 DEF ClickVerify
  <2>20. ASSUME NEW k \in Clicks, ClickSelect(k) \/ ClickDelete(k) \/ AppClick(k)
         PROVE  LinksExplained'
    BY <2>20 DEF ClickSelect, ClickDelete, AppClick
  <2>2. ASSUME NEW r \in Registers, RegisterInsert(r) PROVE LinksExplained'
    BY <2>2 DEF RegisterInsert
  <2>3. ASSUME NEW s \in Starts, Start(s) \/ StateExpire(s) PROVE LinksExplained'
    BY <2>3 DEF Start, StateExpire
  <2>4. ASSUME NEW c \in Callbacks, AppStateGet(c) \/ AppStateDelete(c) \/ OldStateConsume(c)
        PROVE  LinksExplained'
    BY <2>4 DEF AppStateGet, AppStateDelete, OldStateConsume
  <2>5. ASSUME NEW c \in Callbacks, GoogleAnswer(c) PROVE LinksExplained'
    BY <2>5 DEF GoogleAnswer
  <2>6. ASSUME NEW c \in Callbacks, GoogleRefuse(c) PROVE LinksExplained'
    BY <2>6 DEF GoogleRefuse
  <2>7. ASSUME NEW c \in Callbacks, AppSubSelect(c) PROVE LinksExplained'
    <3>1. account[c] \in Accounts /\ pc[c] = "identified" /\ tree = "app"
      BY <2>7 DEF AppSubSelect
    <3>2. ASSUME NEW u \in Rows, sub[u] = account[c], found' = [found EXCEPT ![c] = u],
                 pc' = [pc EXCEPT ![c] = "known"]
          PROVE  LinksExplained'
      <4>1. u \in verified /\ mail[u] # Nothing
        BY <3>1, <3>2
      <4>2. c \notin crossed
        BY <3>1
      <4> QED
        BY <2>7, <3>1, <3>2, <4>1, <4>2 DEF AppSubSelect
    <3>3. CASE UNCHANGED found /\ pc' = [pc EXCEPT ![c] = "unknown"]
      BY <2>7, <3>1, <3>3 DEF AppSubSelect
    <3> QED
      BY <2>7, <3>2, <3>3 DEF AppSubSelect, Linked
  <2>8. ASSUME NEW c \in Callbacks, AppKnownCommit(c) PROVE LinksExplained'
    BY <2>8 DEF AppKnownCommit
  <2>9. ASSUME NEW c \in Callbacks, EmailSelect(c) PROVE LinksExplained'
    BY <2>9 DEF EmailSelect
  <2>10. ASSUME NEW c \in Callbacks, LinkCommit(c) PROVE LinksExplained'
    BY <2>10 DEF LinkCommit
  <2>11. ASSUME NEW c \in Callbacks, UserInsert(c) PROVE LinksExplained'
    BY <2>11 DEF UserInsert
  <2>12. ASSUME NEW c \in Callbacks, TokenIssue(c) \/ TokenExpire(c) PROVE LinksExplained'
    BY <2>12 DEF TokenIssue, TokenExpire
  <2>13. ASSUME NEW x \in Exchanges, ExchangeCheck(x) PROVE LinksExplained'
    BY <2>13 DEF ExchangeCheck
  <2>14. ASSUME NEW x \in Exchanges, ExchangeOpen(x) \/ AppExchangeAnswer(x)
        PROVE  LinksExplained'
    BY <2>14 DEF ExchangeOpen, AppExchangeAnswer
  <2>15. ASSUME NEW t \in Tasks, Die(t) PROVE LinksExplained'
    BY <2>15 DEF Die
  <2>16. CASE UNCHANGED vars
    BY <2>16 DEF vars
  <2> QED
    BY <2>1, <2>2, <2>3, <2>4, <2>5, <2>6, <2>7, <2>8, <2>9, <2>10, <2>11, <2>12, <2>13,
       <2>14, <2>15, <2>16, <2>17, <2>18, <2>19, <2>20
       DEF Next, Register, Resend, Click, Callback, GetOrCreate, Exchange
<1> QED
  BY <1>1, <1>2, TypedAlways, PTL DEF Spec

\* A user is verified only with an address that Google vouched for or, in the old tree
\* alone, after a good link to that address was opened; and in the app every linked row
\* is verified.
THEOREM VerifiedIsSound == Spec => []VerifiedSound
<1>1. LinksExplained => VerifiedSound
  BY DEF LinksExplained
<1> QED
  BY <1>1, LinksInvariant, PTL

\* A Google session belongs to the user whom that account is linked to, unless two
\* callbacks crossed.
THEOREM SessionsOfAccounts == Spec => []SessionOfAccount
<1>1. Typed /\ LinksExplained => SessionOfAccount
  BY DEF Typed, TypeOK, LinksExplained, SessionOfAccount
<1> QED
  BY <1>1, TypedAlways, LinksInvariant, PTL

\* A link is replaced only by a callback that had loaded the row before it was made.
THEOREM LinksStay == Spec => LinkStays
<1> USE DEF Typed, TypeOK, Informed, Holding, Rows, Seekers, Goto, table, redis, issued, requests,
            ghosts, LinksExplained, Unentered
<1> DEFINE Kept == \A u \in Rows : sub[u] # Nothing /\ sub'[u] # sub[u]
                     => \E d \in crossed' : found[d] = u /\ loaded[d] = Nothing
<1>1. Typed /\ LinksExplained /\ [Next]_vars => [Kept]_vars
  <2> SUFFICES ASSUME Typed, LinksExplained, [Next]_vars PROVE [Kept]_vars
    OBVIOUS
  <2> USE KindAssumption, NothingAssumption
  <2>1. ASSUME NEW c \in Callbacks, LinkCommit(c) PROVE Kept
    BY <2>1 DEF LinkCommit
  <2>2. ASSUME NEW c \in Callbacks, UserInsert(c) PROVE Kept
    BY <2>2 DEF UserInsert
  <2>3. CASE sub' = sub
    BY <2>3
  <2>4. \/ \E c \in Callbacks : LinkCommit(c) \/ UserInsert(c)
        \/ sub' = sub
    BY DEF Next, Register, RegisterSelect, RegisterInsert, MintLink, TokenSelect, TokenCommit,
       Resend, ResendSelect, Click, ClickSelect, ClickVerify, ClickDelete, AppClick, Start,
       StateExpire, Callback, AppStateGet, AppStateDelete, OldStateConsume, GoogleAnswer, GoogleRefuse,
       GetOrCreate, AppSubSelect, AppKnownCommit, EmailSelect, TokenIssue, TokenExpire,
       Exchange, ExchangeCheck, ExchangeOpen, AppExchangeAnswer, Die, vars
  <2> QED
    BY <2>1, <2>2, <2>3, <2>4
<1> QED
  BY <1>1, TypedAlways, LinksInvariant, PTL DEF Spec, LinkStays

-----------------------------------------------------------------------------
(* One OAuth state, one callback.                                          *)

\* A state is saved once; a callback that consumed it has removed it, and of two that
\* did, one found it gone, which the old tree refuses.
StatesExplained ==
    /\ StateOnce
    /\ \A s \in Starts : pc[s] \in {"idle", "done"} /\ (s \in states => pc[s] = "done")
    /\ \A c \in Callbacks : state[c] # Nothing => pc[c] # "idle" /\ pc[state[c]] = "done"
    /\ \A c \in Callbacks : pc[c] \in Past => state[c] \in Starts /\ state[c] \notin states
    /\ \A c \in Callbacks : pc[c] \in {"read", "missed"} => tree = "app"

\* A state that was past once is gone, or in the hands of rivals.
LEMMA StatesInvariant == Spec => []StatesExplained
<1> USE DEF Typed, TypeOK, Informed, Told, Holding, Stages, Tasks, Rows, Seekers, Goto, table,
            redis, issued, requests, ghosts, StatesExplained, StateOnce, Past
<1>1. Init => StatesExplained
  BY KindAssumption, NothingAssumption DEF Init
<1>2. Typed /\ StatesExplained /\ [Next]_vars => StatesExplained'
  <2> SUFFICES ASSUME Typed, StatesExplained, [Next]_vars PROVE StatesExplained'
    OBVIOUS
  <2> USE KindAssumption, NothingAssumption
  <2>1. ASSUME NEW r \in Registers, Register(r) PROVE StatesExplained'
    BY <2>1 DEF Register, RegisterSelect, RegisterInsert, MintLink, TokenSelect, TokenCommit
  <2>12. ASSUME NEW q \in Resends, Resend(q) PROVE StatesExplained'
    BY <2>12 DEF Resend, ResendSelect, MintLink, TokenSelect, TokenCommit
  <2>13. ASSUME NEW k \in Clicks, Click(k) PROVE StatesExplained'
    BY <2>13 DEF Click, ClickSelect, ClickVerify, ClickDelete, AppClick
  <2>2. ASSUME NEW s \in Starts, Start(s) \/ StateExpire(s) PROVE StatesExplained'
    BY <2>2 DEF Start, StateExpire
  <2>3. ASSUME NEW c \in Callbacks, AppStateGet(c) PROVE StatesExplained'
    BY <2>3 DEF AppStateGet
  <2>4. ASSUME NEW c \in Callbacks, AppStateDelete(c) PROVE StatesExplained'
    BY <2>4 DEF AppStateDelete
  <2>5. ASSUME NEW c \in Callbacks, OldStateConsume(c) PROVE StatesExplained'
    BY <2>5 DEF OldStateConsume
  <2>6. ASSUME NEW c \in Callbacks, GoogleAnswer(c) \/ GoogleRefuse(c)
        PROVE  StatesExplained'
    <3>1. pc[c] = "consumed" /\ UNCHANGED <<tree, states, state, rivals>>
      BY <2>6 DEF GoogleAnswer, GoogleRefuse
    <3>2. \E stage \in {"identified", "rejected"} : pc' = [pc EXCEPT ![c] = stage]
      <4>1. ASSUME NEW vouched \in BOOLEAN,
                   pc' = [pc EXCEPT ![c] = IF vouched THEN "identified" ELSE "rejected"]
            PROVE  \E stage \in {"identified", "rejected"} : pc' = [pc EXCEPT ![c] = stage]
        BY <4>1
      <4> QED
        BY <2>6, <4>1 DEF GoogleAnswer, GoogleRefuse
    <3> QED
      BY <3>1, <3>2
  <2>7. ASSUME NEW c \in Callbacks, GetOrCreate(c) PROVE StatesExplained'
    BY <2>7 DEF GetOrCreate, AppSubSelect, AppKnownCommit, EmailSelect, LinkCommit, UserInsert
  <2>8. ASSUME NEW c \in Callbacks, TokenIssue(c) \/ TokenExpire(c)
        PROVE  StatesExplained'
    BY <2>8 DEF TokenIssue, TokenExpire
  <2>9. ASSUME NEW x \in Exchanges, Exchange(x) PROVE StatesExplained'
    BY <2>9 DEF Exchange, ExchangeCheck, ExchangeOpen, AppExchangeAnswer
  <2>10. ASSUME NEW t \in Tasks, Die(t) PROVE StatesExplained'
    BY <2>10 DEF Die
  <2>11. CASE UNCHANGED vars
    BY <2>11 DEF vars
  <2> QED
    BY <2>1, <2>2, <2>3, <2>4, <2>5, <2>6, <2>7, <2>8, <2>9, <2>10, <2>11,
       <2>12, <2>13 DEF Next, Callback
<1> QED
  BY <1>1, <1>2, TypedAlways, PTL DEF Spec

\* Two callbacks pass one state only in the app, when both read it before either
\* deleted it.
THEOREM StatesUsedOnce == Spec => []StateOnce
<1>1. StatesExplained => StateOnce
  BY DEF StatesExplained
<1> QED
  BY <1>1, StatesInvariant, PTL
=============================================================================
