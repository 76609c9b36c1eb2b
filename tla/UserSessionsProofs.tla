------------------------- MODULE UserSessionsProofs -------------------------
(***************************************************************************)
(* Theorems about UserSessions, for any number of users, devices and       *)
(* requests, any limit, and any subset of requests that may die.           *)
(***************************************************************************)
EXTENDS UserSessions, FiniteSetTheorems, TLAPS

\* Every step is a step of one request: the cases the proofs split on.
LEMMA NextCases ==
    ASSUME [Next]_vars
    PROVE  \/ \E r \in Logins : LoginAuthenticate(r) \/ Login(r)
           \/ \E r \in Refreshes : RefreshSelectSession(r) \/ Refresh(r)
           \/ \E r \in Logouts : LogoutSelect(r)
           \/ \E r \in LogoutAlls \cup Revokes \cup PasswordChanges :
                 Authorise(r) \/ ResetAccept(r)
           \/ \E r \in Revokes : RevokeSelect(r)
           \/ \E r \in Logouts \cup Revokes : RevokeCommit(r)
           \/ \E r \in PasswordChanges : ChangePassword(r)
           \/ \E r \in LogoutAlls \cup PasswordChanges : SweepSelect(r) \/ SweepCommit(r)
           \/ \E r \in Requests : Crash(r)
           \/ UNCHANGED vars
  BY KindAssumption DEF Next, Send, Step

\* A session's owner is a user.
LEMMA OwnerType == \A s \in Sessions : Owner(s) \in Users
  BY DEF Sessions, Owner

\* A row is absent, inactive or active.
LEMMA StatusType == \A s : Status(s) \in {"none", "inactive", "active"}
  BY DEF Status

\* Every step keeps the types.
LEMMA TypeStep ==
    ASSUME Typed, [Next]_vars
    PROVE  Typed'
<1> USE DEF Typed, At, Goto, Stages, table, local
<1>1. ASSUME NEW r \in Logins, LoginAuthenticate(r) PROVE Typed'
  BY <1>1, OwnerType DEF LoginAuthenticate, Requests
<1>2. ASSUME NEW r \in Logins, Login(r) PROVE Typed'
  <2>1. r \in Requests /\ r \in Hashes /\ Pending \in Hashes
    BY DEF Requests, Hashes, Tokens
  <2>2. CASE LoginSelectSession(r)
    BY <2>1, <2>2, StatusType DEF LoginSelectSession, Load, ReadClock
  <2>3. CASE LoginInsert(r)
    BY <2>1, <2>3, OwnerType DEF LoginInsert, OpenRow
  <2>4. CASE LoginInsertConflict(r)
    BY <2>1, <2>4 DEF LoginInsertConflict
  <2>5. CASE LoginReactivate(r)
    BY <2>1, <2>5, OwnerType DEF LoginReactivate, OpenRow
  <2>6. CASE LoginCommitToken(r)
    BY <2>1, <2>6 DEF LoginCommitToken
  <2>7. CASE LoginSelectActive(r)
    BY <2>1, <2>7 DEF LoginSelectActive, Active
  <2>8. CASE LoginCommitLimit(r) \/ LoginAlert(r)
    BY <2>1, <2>8 DEF LoginCommitLimit, LoginAlert
  <2> QED
    BY <1>2, <2>2, <2>3, <2>4, <2>5, <2>6, <2>7, <2>8 DEF Login
<1>3. ASSUME NEW r \in Refreshes, RefreshSelectSession(r) PROVE Typed'
  BY <1>3, StatusType DEF RefreshSelectSession, Load, Issued, Requests, Tokens
<1>4. ASSUME NEW r \in Refreshes, Refresh(r) PROVE Typed'
  <2>1. r \in Requests /\ r \in Hashes
    BY DEF Requests, Hashes, Tokens
  <2>2. CASE RefreshSelectUser(r)
    BY <2>1, <2>2 DEF RefreshSelectUser, ReadClock
  <2>3. CASE RefreshCommitSeen(r)
    BY <2>1, <2>3 DEF RefreshCommitSeen
  <2>4. CASE RefreshCommitToken(r)
    BY <2>1, <2>4 DEF RefreshCommitToken
  <2> QED
    BY <1>4, <2>2, <2>3, <2>4 DEF Refresh
<1>5. ASSUME NEW r \in Logouts, LogoutSelect(r) PROVE Typed'
  BY <1>5, StatusType DEF LogoutSelect, Load, Issued, Requests, Tokens
<1>6. ASSUME NEW r \in LogoutAlls \cup Revokes \cup PasswordChanges,
             Authorise(r) \/ ResetAccept(r)
      PROVE  Typed'
  BY <1>6, StatusType DEF Authorise, ResetAccept, Load, Issued, Requests, Tokens
<1>7. ASSUME NEW r \in Revokes, RevokeSelect(r) PROVE Typed'
  BY <1>7, StatusType DEF RevokeSelect, Load, Requests
<1>8. ASSUME NEW r \in Logouts \cup Revokes, RevokeCommit(r) PROVE Typed'
  BY <1>8 DEF RevokeCommit, RevokeLoaded, Requests
<1>9. ASSUME NEW r \in PasswordChanges, ChangePassword(r) PROVE Typed'
  BY <1>9, OwnerType DEF ChangePassword, Requests
<1>10. ASSUME NEW r \in LogoutAlls \cup PasswordChanges,
              SweepSelect(r) \/ SweepCommit(r)
       PROVE  Typed'
  BY <1>10 DEF SweepSelect, SweepCommit, Active, Requests
<1>11. ASSUME NEW r \in Requests, Crash(r) PROVE Typed'
  BY <1>11 DEF Crash
<1>12. CASE UNCHANGED vars
  BY <1>12 DEF vars
<1> QED
  BY <1>1, <1>2, <1>3, <1>4, <1>5, <1>6, <1>7, <1>8, <1>9, <1>10, <1>11,
     <1>12, NextCases

\* The model's variables keep their types: Typed is inductive by itself.
LEMMA Typing == Spec => []Typed
<1>1. Init => Typed
  BY DEF Init, Typed, Hashes, Stages, Tokens, Requests
<1>2. Typed /\ [Next]_vars => Typed'
  BY TypeStep
<1> QED
  BY <1>1, <1>2, PTL DEF Spec

-----------------------------------------------------------------------------
(* The placeholder.                                                        *)

\* A login between its two commits keeps its row and what it read of it.
LEMMA OpenedKept ==
    ASSUME Typed, [Next]_vars, NEW q \in Logins, pc[q] = "opened"
    PROVE  /\ target'[q] = target[q] /\ loaded'[q] = loaded[q]
           /\ pc'[q] = "opened" \/ (LoginCommitToken(q) /\ pc'[q] = "minted")
<1> USE DEF Typed, At, Goto, table, local
<1>0. q \in Requests
  BY DEF Requests
<1>1. ASSUME NEW r \in Logins, LoginAuthenticate(r) \/ Login(r)
      PROVE  /\ target'[q] = target[q] /\ loaded'[q] = loaded[q]
             /\ pc'[q] = "opened" \/ (LoginCommitToken(q) /\ pc'[q] = "minted")
  <2>1. r \in Requests
    BY DEF Requests
  <2>2. CASE LoginCommitToken(r)
    BY <1>0, <2>1, <2>2 DEF LoginCommitToken
  <2>3. CASE LoginAuthenticate(r) \/ LoginSelectSession(r) \/ LoginInsert(r)
               \/ LoginInsertConflict(r) \/ LoginReactivate(r)
               \/ LoginSelectActive(r) \/ LoginCommitLimit(r) \/ LoginAlert(r)
    BY <1>0, <2>1, <2>3 DEF LoginAuthenticate, LoginSelectSession, LoginInsert,
       LoginInsertConflict, LoginReactivate, LoginSelectActive, LoginCommitLimit, LoginAlert,
       Load, ReadClock
  <2> QED
    BY <1>1, <2>2, <2>3 DEF Login
<1>2. ASSUME NEW r \in Refreshes, RefreshSelectSession(r) \/ Refresh(r)
      PROVE  target'[q] = target[q] /\ loaded'[q] = loaded[q] /\ pc'[q] = "opened"
  BY <1>0, <1>2 DEF RefreshSelectSession, Refresh, RefreshSelectUser,
     RefreshCommitSeen, RefreshCommitToken, Load, ReadClock, Requests
<1>3. ASSUME NEW r \in Requests,
             \/ LogoutSelect(r) \/ Authorise(r) \/ ResetAccept(r)
             \/ RevokeSelect(r) \/ RevokeCommit(r)
             \/ ChangePassword(r) \/ SweepSelect(r) \/ SweepCommit(r)
      PROVE  target'[q] = target[q] /\ loaded'[q] = loaded[q] /\ pc'[q] = "opened"
  BY <1>0, <1>3 DEF LogoutSelect, Authorise, ResetAccept, RevokeSelect, RevokeCommit,
     ChangePassword, SweepSelect, SweepCommit, Load
<1>4. ASSUME NEW r \in Requests, Crash(r)
      PROVE  target'[q] = target[q] /\ loaded'[q] = loaded[q] /\ pc'[q] = "opened"
  BY <1>4 DEF Crash
<1>5. CASE UNCHANGED vars
  BY <1>5 DEF vars
<1> QED
  BY <1>1, <1>2, <1>3, <1>4, <1>5, NextCases DEF Requests

\* Who writes refresh_token_hash.
LEMMA HashWriters ==
    ASSUME Typed, [Next]_vars
    PROVE  \/ hash' = hash
           \/ \E r \in Logins : LoginInsert(r)
           \/ \E r \in Logins : LoginCommitToken(r)
           \/ \E r \in Refreshes : RefreshCommitToken(r)
<1> USE DEF table, local
<1>1. ASSUME NEW r \in Logins, LoginAuthenticate(r) \/ Login(r)
      PROVE  hash' = hash \/ LoginInsert(r) \/ LoginCommitToken(r)
  BY <1>1 DEF Login, LoginAuthenticate, LoginSelectSession, LoginInsertConflict,
     LoginReactivate, LoginSelectActive, LoginCommitLimit, LoginAlert
<1>2. ASSUME NEW r \in Refreshes, RefreshSelectSession(r) \/ Refresh(r)
      PROVE  hash' = hash \/ RefreshCommitToken(r)
  BY <1>2 DEF Refresh, RefreshSelectSession, RefreshSelectUser, RefreshCommitSeen
<1>3. ASSUME NEW r,
             \/ LogoutSelect(r) \/ Authorise(r) \/ ResetAccept(r)
             \/ RevokeSelect(r) \/ RevokeCommit(r)
             \/ ChangePassword(r) \/ SweepSelect(r) \/ SweepCommit(r) \/ Crash(r)
      PROVE  hash' = hash
  BY <1>3 DEF LogoutSelect, Authorise, ResetAccept, RevokeSelect, RevokeCommit,
     ChangePassword, SweepSelect, SweepCommit, Crash
<1>4. CASE UNCHANGED vars
  BY <1>4 DEF vars
<1> QED
  BY <1>1, <1>2, <1>3, <1>4, NextCases

\* At most one row of the table holds the placeholder, and only while (or
\* because) the login that inserted it is between its two commits.
THEOREM PlaceholderOwned == Spec => []PendingOwned
<1>1. Init => PendingOwned
  BY HashAssumption DEF Init, PendingOwned
<1>2. Typed /\ PendingOwned /\ [Next]_vars => PendingOwned'
  <2> SUFFICES ASSUME Typed, PendingOwned, [Next]_vars PROVE PendingOwned'
    OBVIOUS
  <2>1. ASSUME NEW r \in Logins, LoginInsert(r)
        PROVE  PendingOwned'
    <3>1. r \in Requests
      BY DEF Requests
    <3>2. hash' = [hash EXCEPT ![target[r]] = Pending] /\ target[r] \in Sessions
      BY <2>1, <3>1 DEF LoginInsert, Typed
    <3>3. \A s \in Sessions : hash[s] # Pending
      BY <2>1 DEF LoginInsert, InsertAllowed
    <3>4. pc'[r] = "opened" /\ loaded'[r] = "none" /\ target'[r] = target[r]
      BY <2>1, <3>1 DEF LoginInsert, Goto, local, Typed
    <3> QED
      BY <3>2, <3>3, <3>4 DEF PendingOwned, Typed
  <2>2. ASSUME NEW r \in Logins, LoginCommitToken(r)
        PROVE  PendingOwned'
    <3>1. hash' = [hash EXCEPT ![target[r]] = r] /\ r # Pending
      BY <2>2, HashAssumption DEF LoginCommitToken, Requests
    <3>2. \A s \in Sessions : hash'[s] = Pending => s # target[r] /\ hash[s] = Pending
      BY <3>1 DEF Typed
    <3>3. ASSUME NEW s \in Sessions, hash'[s] = Pending
          PROVE  \E q \in Logins : pc'[q] = "opened" /\ loaded'[q] = "none"
                                     /\ target'[q] = s
      <4>1. PICK q \in Logins : pc[q] = "opened" /\ loaded[q] = "none" /\ target[q] = s
        BY <3>2, <3>3 DEF PendingOwned
      <4>2. q # r /\ q \in Requests
        BY <3>2, <3>3, <4>1 DEF Requests
      <4>3. pc'[q] = pc[q]
        BY <2>2, <4>2 DEF LoginCommitToken, Goto, Typed
      <4> QED
        BY <4>1, <4>3, OpenedKept
    <3> QED
      BY <3>2, <3>3 DEF PendingOwned
  <2>3. ASSUME hash' = hash \/ \E r \in Refreshes : RefreshCommitToken(r)
        PROVE  PendingOwned'
    <3>1. \A s \in Sessions : hash'[s] = Pending => hash[s] = Pending
      BY <2>3, HashAssumption DEF RefreshCommitToken, Requests, Typed
    <3>2. ASSUME NEW s \in Sessions, hash'[s] = Pending
          PROVE  \E q \in Logins : pc'[q] = "opened" /\ loaded'[q] = "none"
                                     /\ target'[q] = s
      <4>1. PICK q \in Logins : pc[q] = "opened" /\ loaded[q] = "none" /\ target[q] = s
        BY <3>1, <3>2 DEF PendingOwned
      <4>2. ~LoginCommitToken(q)
        <5>1. SUFFICES ASSUME LoginCommitToken(q) PROVE FALSE
          OBVIOUS
        <5>2. hash'[s] = q /\ q # Pending
          BY <4>1, <5>1, HashAssumption DEF LoginCommitToken, Requests, Typed
        <5> QED
          BY <3>2, <5>2
      <4> QED
        BY <4>1, <4>2, OpenedKept
    <3> QED
      BY <3>1, <3>2 DEF PendingOwned
  <2> QED
    BY <2>1, <2>2, <2>3, HashWriters
<1> QED
  BY <1>1, <1>2, Typing, PTL DEF Spec

-----------------------------------------------------------------------------
(* Revocation.                                                             *)

\* The only steps that add to the set of active rows.
LEMMA Activations ==
    ASSUME Typed, [Next]_vars
    PROVE  \/ active' \subseteq active
           \/ \E r \in Logins : /\ LoginInsert(r) \/ LoginReactivate(r)
                                /\ active' \subseteq active \cup {target[r]}
<1> USE DEF table, local
<1>1. ASSUME NEW r \in Logins, LoginAuthenticate(r) \/ Login(r)
      PROVE  \/ active' \subseteq active
             \/ /\ LoginInsert(r) \/ LoginReactivate(r)
                /\ active' \subseteq active \cup {target[r]}
  BY <1>1 DEF Login, LoginAuthenticate, LoginSelectSession, LoginInsertConflict,
     LoginInsert, LoginReactivate, LoginCommitToken, LoginSelectActive, LoginCommitLimit, LoginAlert
<1>2. ASSUME NEW r \in Refreshes, RefreshSelectSession(r) \/ Refresh(r)
      PROVE  active' = active
  BY <1>2 DEF Refresh, RefreshSelectSession, RefreshSelectUser, RefreshCommitSeen,
     RefreshCommitToken
<1>3. ASSUME NEW r,
             \/ LogoutSelect(r) \/ Authorise(r) \/ ResetAccept(r)
             \/ RevokeSelect(r) \/ RevokeCommit(r)
             \/ ChangePassword(r) \/ SweepSelect(r) \/ SweepCommit(r) \/ Crash(r)
      PROVE  active' \subseteq active
  BY <1>3 DEF LogoutSelect, Authorise, ResetAccept, RevokeSelect, RevokeCommit, RevokeLoaded,
     ChangePassword, SweepSelect, SweepCommit, Crash
<1>4. CASE UNCHANGED vars
  BY <1>4 DEF vars
<1> QED
  BY <1>1, <1>2, <1>3, <1>4, NextCases

\* A row is re-activated only by a login that had read it as not active.
THEOREM RevocationHolds == Spec => RevocationSticks
<1>1. ASSUME Typed, [Next]_vars
      PROVE  \A s \in Sessions : s \notin active /\ s \in active' =>
               \E r \in Logins : /\ pc[r] = "selected" /\ pc'[r] = "opened"
                                 /\ target[r] = s /\ loaded[r] # "active"
  <2> SUFFICES ASSUME NEW s \in Sessions, s \notin active, s \in active'
               PROVE  \E r \in Logins : /\ pc[r] = "selected" /\ pc'[r] = "opened"
                                        /\ target[r] = s /\ loaded[r] # "active"
    OBVIOUS
  <2>1. PICK r \in Logins : /\ LoginInsert(r) \/ LoginReactivate(r)
                            /\ active' \subseteq active \cup {target[r]}
    BY <1>1, Activations
  <2>2. r \in Requests /\ target[r] = s
    BY <2>1 DEF Requests
  <2>3. pc[r] = "selected" /\ pc'[r] = "opened"
    BY <1>1, <2>1, <2>2 DEF LoginInsert, LoginReactivate, At, Goto, Typed
  <2>4. loaded[r] # "active"
    BY <2>1 DEF LoginInsert, LoginReactivate
  <2> QED
    BY <2>2, <2>3, <2>4
<1> QED
  BY <1>1, Typing, PTL DEF Spec, RevocationSticks

\* A request that has minted its token, or has answered, keeps its row.
LEMMA MintedKept ==
    ASSUME Typed, [Next]_vars, NEW t \in Tokens, pc[t] \in Holding
    PROVE  target'[t] = target[t] /\ pc'[t] \in Holding
<1> USE DEF Typed, At, Goto, table, local, Holding
<1>1. t \in Requests
  BY DEF Tokens, Requests
<1>2. ASSUME NEW r \in Logins, LoginAuthenticate(r) \/ Login(r)
      PROVE  target'[t] = target[t] /\ pc'[t] \in Holding
  BY <1>1, <1>2 DEF Login, LoginAuthenticate, LoginSelectSession, LoginInsert,
     LoginInsertConflict, LoginReactivate, LoginCommitToken, LoginSelectActive,
     LoginCommitLimit, LoginAlert, Load, ReadClock, Requests
<1>3. ASSUME NEW r \in Refreshes, RefreshSelectSession(r) \/ Refresh(r)
      PROVE  target'[t] = target[t] /\ pc'[t] \in Holding
  BY <1>1, <1>3 DEF Refresh, RefreshSelectSession, RefreshSelectUser,
     RefreshCommitSeen, RefreshCommitToken, Load, ReadClock, Requests
<1>4. ASSUME NEW r \in Requests,
             \/ LogoutSelect(r) \/ Authorise(r) \/ ResetAccept(r)
             \/ RevokeSelect(r) \/ RevokeCommit(r)
             \/ ChangePassword(r) \/ SweepSelect(r) \/ SweepCommit(r) \/ Crash(r)
      PROVE  target'[t] = target[t] /\ pc'[t] \in Holding
  BY <1>1, <1>4 DEF LogoutSelect, Authorise, ResetAccept, RevokeSelect, RevokeCommit,
     ChangePassword, SweepSelect, SweepCommit, Load, Crash
<1>5. CASE UNCHANGED vars
  BY <1>5 DEF vars
<1> QED
  BY <1>2, <1>3, <1>4, <1>5, NextCases DEF Requests

\* A token that has been replaced in its row is never stored again.
THEOREM NoTokenReturns == Spec => TokenNeverReturns
<1>1. ASSUME Typed, [Next]_vars
      PROVE  \A t \in Tokens : /\ pc[t] \in Holding
                               /\ hash[target[t]] # t
                               => hash'[target'[t]] # t
  <2> SUFFICES ASSUME NEW t \in Tokens, pc[t] \in Holding,
                      hash[target[t]] # t
               PROVE  hash'[target'[t]] # t
    OBVIOUS
  <2>1. target'[t] = target[t] /\ t \in Requests /\ target[t] \in Sessions
    BY <1>1, MintedKept DEF Typed, Tokens, Requests
  <2>2. ASSUME NEW r \in Logins, LoginInsert(r) PROVE hash'[target'[t]] # t
    BY <1>1, <2>1, <2>2, HashAssumption DEF LoginInsert, Typed
  <2>3. ASSUME NEW r \in Logins, LoginCommitToken(r) PROVE hash'[target'[t]] # t
    <3>1. r # t
      BY <2>3 DEF LoginCommitToken, At, Holding
    <3> QED
      BY <1>1, <2>1, <2>3, <3>1 DEF LoginCommitToken, Typed
  <2>4. ASSUME NEW r \in Refreshes, RefreshCommitToken(r) PROVE hash'[target'[t]] # t
    <3>1. r # t
      BY <2>4 DEF RefreshCommitToken, At, Holding
    <3> QED
      BY <1>1, <2>1, <2>4, <3>1 DEF RefreshCommitToken, Typed
  <2> QED
    BY <1>1, <2>1, <2>2, <2>3, <2>4, HashWriters
<1> QED
  BY <1>1, Typing, PTL DEF Spec, TokenNeverReturns

-----------------------------------------------------------------------------
(* The session limit.                                                      *)

\* Finitely many users and devices have finitely many active rows.
LEMMA SessionsFinite == Typed => IsFiniteSet(active)
<1>1. IsFiniteSet(Sessions)
  BY FiniteAssumption, FS_Product DEF Sessions
<1> QED
  BY <1>1, FS_Subset DEF Typed

\* A set that grows smaller stays within the limit.
LEMMA WithinLimitSubset ==
    ASSUME NEW S, NEW T, IsFiniteSet(T), S \subseteq T, WithinLimit(T)
    PROVE  WithinLimit(S)
<1>1. Cardinality(S) <= Cardinality(T) /\ IsFiniteSet(S)
  BY FS_Subset
<1>2. Cardinality(S) \in Nat /\ Cardinality(T) \in Nat
  BY <1>1, FS_CardinalityType
<1> QED
  BY <1>1, <1>2, LimitAssumption DEF WithinLimit

\* What a limit check leaves alone: the newest rows and its own one.
LEMMA SparedWithinLimit ==
    ASSUME NEW S, IsFiniteSet(S), NEW K \in Newest(S), NEW x
    PROVE  WithinLimit(K \cup {x}) /\ IsFiniteSet(K \cup {x})
<1>1. K \subseteq S /\ IsFiniteSet(K)
  BY FS_Subset DEF Newest
<1>2. Cardinality(S) \in Nat /\ Cardinality(K) \in Nat
  BY <1>1, FS_CardinalityType
<1>3. Cardinality(K) <= MaxSessions
  BY <1>2, LimitAssumption DEF Newest
<1>4. /\ IsFiniteSet(K \cup {x})
      /\ Cardinality(K \cup {x}) = Cardinality(K)
           \/ Cardinality(K \cup {x}) = Cardinality(K) + 1
  BY <1>1, FS_AddElement
<1> QED
  BY <1>2, <1>3, <1>4, LimitAssumption DEF WithinLimit

\* A row leaves Unchecked only by the limit check of its own login, and what
\* a limit check has picked stays picked until it commits.
LEMMA LoginProgress ==
    ASSUME Typed, [Next]_vars, NEW q \in Logins
    PROVE  /\ pc[q] \in {"opened", "minted"} =>
                \/ pc'[q] \in {"opened", "minted"} /\ target'[q] = target[q]
                \/ LoginSelectActive(q)
           /\ pc[q] = "limiting" =>
                \/ /\ pc'[q] = "limiting" /\ target'[q] = target[q]
                   /\ victims'[q] = victims[q]
                \/ LoginCommitLimit(q)
<1> DEFINE Goal == /\ pc[q] \in {"opened", "minted"} =>
                        \/ pc'[q] \in {"opened", "minted"} /\ target'[q] = target[q]
                        \/ LoginSelectActive(q)
                   /\ pc[q] = "limiting" =>
                        \/ /\ pc'[q] = "limiting" /\ target'[q] = target[q]
                           /\ victims'[q] = victims[q]
                        \/ LoginCommitLimit(q)
<1> USE DEF Typed, At, Goto, table, local
<1>0. q \in Requests
  BY DEF Requests
<1>1. ASSUME NEW r \in Logins, LoginAuthenticate(r) \/ Login(r) PROVE Goal
  <2>1. CASE LoginSelectActive(r)
    BY <1>0, <2>1 DEF LoginSelectActive, Requests
  <2>2. CASE LoginCommitLimit(r) \/ LoginAlert(r)
    BY <1>0, <2>2 DEF LoginCommitLimit, LoginAlert, Requests
  <2>3. CASE LoginAuthenticate(r) \/ LoginSelectSession(r) \/ LoginInsert(r)
               \/ LoginInsertConflict(r) \/ LoginReactivate(r) \/ LoginCommitToken(r)
    BY <1>0, <2>3 DEF LoginAuthenticate, LoginSelectSession, LoginInsert,
       LoginInsertConflict, LoginReactivate, LoginCommitToken, Load, ReadClock, Requests
  <2> QED
    BY <1>1, <2>1, <2>2, <2>3 DEF Login
<1>2. ASSUME NEW r \in Refreshes, RefreshSelectSession(r) \/ Refresh(r) PROVE Goal
  BY <1>0, <1>2 DEF Refresh, RefreshSelectSession, RefreshSelectUser,
     RefreshCommitSeen, RefreshCommitToken, Load, ReadClock, Requests
<1>3. ASSUME NEW r \in Requests,
             \/ LogoutSelect(r) \/ Authorise(r) \/ ResetAccept(r)
             \/ RevokeSelect(r) \/ RevokeCommit(r)
             \/ ChangePassword(r) \/ SweepSelect(r) \/ SweepCommit(r) \/ Crash(r)
      PROVE  Goal
  BY <1>0, <1>3, KindAssumption DEF LogoutSelect, Authorise, ResetAccept, RevokeSelect, RevokeCommit,
     ChangePassword, SweepSelect, SweepCommit, Load, Crash
<1>4. CASE UNCHANGED vars
  BY <1>4 DEF vars
<1> QED
  BY <1>1, <1>2, <1>3, <1>4, NextCases DEF Requests
\* A step that is no limit check adds no row that the limit counts: the only
\* rows it may add belong to a login that has its check still ahead.
LEMMA CountedShrinks ==
    ASSUME Typed, [Next]_vars, \A q \in Logins : ~LoginSelectActive(q)
    PROVE  active' \ Unchecked' \subseteq active \ Unchecked
<1> SUFFICES ASSUME NEW s, s \in active', s \notin Unchecked'
             PROVE  s \in active /\ s \notin Unchecked
  OBVIOUS
<1>1. s \notin Unchecked
  <2> SUFFICES ASSUME s \in Unchecked PROVE FALSE
    OBVIOUS
  <2>1. PICK q \in Logins : pc[q] \in {"opened", "minted"} /\ target[q] = s
    BY DEF Unchecked
  <2>2. pc'[q] \in {"opened", "minted"} /\ target'[q] = s
    BY <2>1, LoginProgress
  <2> QED
    BY <2>2 DEF Unchecked
<1>2. s \in active
  <2> SUFFICES ASSUME s \notin active PROVE FALSE
    OBVIOUS
  <2>1. PICK r \in Logins : /\ LoginInsert(r) \/ LoginReactivate(r)
                            /\ active' \subseteq active \cup {target[r]}
    BY Activations
  <2>2. pc'[r] = "opened" /\ target'[r] = s
    BY <2>1 DEF LoginInsert, LoginReactivate, Goto, local, Typed, Requests
  <2> QED
    BY <2>2 DEF Unchecked
<1> QED
  BY <1>1, <1>2

\* The limit is kept in every state: by the rows whose login has checked it,
\* or by what is left once a check that is under way commits.  SessionLimit is
\* inductive together with Typed because the witness may change: it is always
\* the login that read the active rows last.
THEOREM LimitKept == Spec => []SessionLimit
<1>1. Init => SessionLimit
  <2> SUFFICES ASSUME Init, NEW u \in Users PROVE WithinLimit(Active(u) \ Unchecked)
    BY DEF SessionLimit
  <2>1. Active(u) \ Unchecked = {}
    BY DEF Init, Active
  <2> QED
    BY <2>1, FS_EmptySet, LimitAssumption DEF WithinLimit
<1>2. Typed /\ SessionLimit /\ [Next]_vars => SessionLimit'
  <2> SUFFICES ASSUME Typed, SessionLimit, [Next]_vars, NEW u \in Users
               PROVE  \/ WithinLimit(Active(u) \ Unchecked)'
                      \/ \E r \in Logins :
                            /\ pc'[r] = "limiting" /\ Owner(target'[r]) = u
                            /\ WithinLimit(Active(u) \ (Unchecked \cup victims[r]))'
    BY DEF SessionLimit
  <2> DEFINE Counted(V) == Active(u) \ (Unchecked \cup V)
  <2>1. \A V : IsFiniteSet(Active(u) \ V)
    <3>1. IsFiniteSet(active)
      BY SessionsFinite
    <3> QED
      BY <3>1, FS_Subset DEF Active
  <2>2. ASSUME NEW q \in Logins, LoginSelectActive(q), Owner(target[q]) = u
        PROVE  /\ pc'[q] = "limiting" /\ Owner(target'[q]) = u
               /\ WithinLimit(Active(u) \ (Unchecked \cup victims[q]))'
    <3>1. q \in Requests
      BY DEF Requests
    <3>2. /\ pc'[q] = "limiting" /\ target'[q] = target[q] /\ active' = active
      BY <2>2, <3>1 DEF LoginSelectActive, Goto, table, Typed
    <3>3. PICK K \in Newest(Active(u)) : victims'[q] = Active(u) \ (K \cup {target[q]})
      BY <2>2, <3>1 DEF LoginSelectActive, Typed
    <3>4. Active(u)' = Active(u)
      BY <3>2 DEF Active
    <3>5. Active(u)' \ (Unchecked' \cup victims'[q]) \subseteq K \cup {target[q]}
      BY <3>3, <3>4
    <3>6. Active(u) \ {} = Active(u)
      OBVIOUS
    <3>7. IsFiniteSet(Active(u))
      BY <2>1, <3>6
    <3>8. WithinLimit(K \cup {target[q]}) /\ IsFiniteSet(K \cup {target[q]})
      BY <3>7, SparedWithinLimit
    <3>9. WithinLimit(Active(u)' \ (Unchecked' \cup victims'[q]))
      BY <3>5, <3>8, WithinLimitSubset
    <3> QED
      BY <2>2, <3>2, <3>9 DEF WithinLimit
  <2>3. ASSUME \A q \in Logins : LoginSelectActive(q) => Owner(target[q]) # u
        PROVE  Active(u)' \ Unchecked' \subseteq Active(u) \ Unchecked
    <3>1. CASE \A q \in Logins : ~LoginSelectActive(q)
      BY <3>1, CountedShrinks DEF Active
    <3>2. ASSUME NEW q \in Logins, LoginSelectActive(q)
          PROVE  Active(u)' \ Unchecked' \subseteq Active(u) \ Unchecked
      <4>1. active' = active /\ target' = target /\ pc' = [pc EXCEPT ![q] = "limiting"]
        BY <3>2 DEF LoginSelectActive, table, Goto
      <4>2. \A s \in Unchecked : s \in Unchecked' \/ s = target[q]
        BY <4>1 DEF Unchecked, Typed, Requests
      <4>3. target[q] \notin Active(u)
        BY <2>3, <3>2 DEF Active
      <4> QED
        BY <4>1, <4>2, <4>3 DEF Active
    <3> QED
      BY <3>1, <3>2
  <2>4. ASSUME NEW q \in Logins, LoginCommitLimit(q)
        PROVE  /\ Active(u)' = Active(u) \ victims[q] /\ Unchecked' = Unchecked
               /\ \A r \in Logins : ~LoginSelectActive(r)
    <3>1. /\ active' = active \ victims[q] /\ target' = target
          /\ pc[q] = "limiting" /\ pc' = [pc EXCEPT ![q] = "alerting"]
      BY <2>4 DEF LoginCommitLimit, local, Goto, At
    <3>2. Unchecked' = Unchecked
      BY <3>1 DEF Unchecked, Typed, Requests
    <3>3. \A r \in Logins : ~LoginSelectActive(r)
      BY <3>1 DEF LoginSelectActive, At, Goto, Typed, Requests
    <3> QED
      BY <3>1, <3>2, <3>3 DEF Active
  <2>5. CASE \E q \in Logins : LoginSelectActive(q) /\ Owner(target[q]) = u
    BY <2>2, <2>5
  <2>6. CASE \A q \in Logins : LoginSelectActive(q) => Owner(target[q]) # u
    <3>1. Active(u)' \ Unchecked' \subseteq Active(u) \ Unchecked
      BY <2>3, <2>6
    <3>2. CASE WithinLimit(Active(u) \ Unchecked)
      <4>1. WithinLimit(Active(u)' \ Unchecked')
        BY <2>1, <3>1, <3>2, WithinLimitSubset
      <4> QED
        BY <4>1 DEF WithinLimit
    <3>3. ASSUME NEW r \in Logins, pc[r] = "limiting", Owner(target[r]) = u,
                 WithinLimit(Counted(victims[r]))
          PROVE  \/ WithinLimit(Active(u) \ Unchecked)'
                 \/ /\ pc'[r] = "limiting" /\ Owner(target'[r]) = u
                    /\ WithinLimit(Active(u) \ (Unchecked \cup victims[r]))'
      <4>1. CASE LoginCommitLimit(r)
        <5>1. Active(u)' \ Unchecked' = Counted(victims[r])
          BY <2>4, <4>1
        <5> QED
          BY <3>3, <5>1 DEF WithinLimit
      <4>2. CASE /\ pc'[r] = "limiting" /\ target'[r] = target[r]
                 /\ victims'[r] = victims[r]
        <5>1. Active(u)' \ (Unchecked' \cup victims'[r]) \subseteq Counted(victims[r])
          BY <3>1, <4>2
        <5>2. WithinLimit(Active(u)' \ (Unchecked' \cup victims'[r]))
          BY <2>1, <3>3, <5>1, WithinLimitSubset
        <5> QED
          BY <3>3, <4>2, <5>2 DEF WithinLimit
      <4> QED
        BY <3>3, <4>1, <4>2, LoginProgress
    <3> QED
      BY <3>2, <3>3 DEF SessionLimit
  <2> QED
    BY <2>5, <2>6
<1> QED
  BY <1>1, <1>2, Typing, PTL DEF Spec

\* When no login of a user is under way, MaxSessions + 1 rows may be active.
THEOREM LimitSettles == Spec => []SettledLimit
<1>1. SessionLimit => SettledLimit
  <2> SUFFICES ASSUME SessionLimit, NEW u \in Users,
                      \A r \in Logins : Owner(target[r]) = u =>
                          pc[r] \notin {"opened", "minted", "limiting"}
               PROVE  WithinLimit(Active(u))
    BY DEF SettledLimit
  <2>1. Active(u) \ Unchecked = Active(u)
    BY DEF Active, Unchecked
  <2>2. WithinLimit(Active(u) \ Unchecked)
    BY DEF SessionLimit
  <2> QED
    BY <2>1, <2>2
<1> QED
  BY <1>1, LimitKept, PTL
-----------------------------------------------------------------------------
(* Token delivery.                                                         *)

\* Every row's token was minted for it, and its request keeps that row.
LEMMA TokensHeld == Spec => []TokenHeld
<1>1. Init => TokenHeld
  BY HashAssumption DEF Init, TokenHeld, Tokens, Requests
<1>2. Typed /\ TokenHeld /\ [Next]_vars => TokenHeld'
  <2> SUFFICES ASSUME Typed, TokenHeld, [Next]_vars,
                      NEW s \in Sessions, NEW t \in Tokens, hash'[s] = t
               PROVE  target'[t] = s /\ pc'[t] \in Holding
    BY DEF TokenHeld
  <2>1. t \in Requests /\ t # Pending
    BY HashAssumption DEF Tokens, Requests
  <2>2. CASE hash[s] = t
    BY <2>2, MintedKept DEF TokenHeld
  <2>3. ASSUME hash[s] # t, NEW r \in Logins, LoginInsert(r) PROVE FALSE
    BY <2>1, <2>3 DEF LoginInsert, Typed
  <2>4. ASSUME hash[s] # t, NEW r \in Logins, LoginCommitToken(r)
        PROVE  target'[t] = s /\ pc'[t] \in Holding
    BY <2>1, <2>4 DEF LoginCommitToken, Goto, local, Typed, Holding
  <2>5. ASSUME hash[s] # t, NEW r \in Refreshes, RefreshCommitToken(r)
        PROVE  target'[t] = s /\ pc'[t] \in Holding
    BY <2>1, <2>5 DEF RefreshCommitToken, Goto, local, Typed, Holding
  <2> QED
    BY <2>2, <2>3, <2>4, <2>5, HashWriters
<1> QED
  BY <1>1, <1>2, Typing, PTL DEF Spec

\* When all its logins and refreshes are answered, a session's token is one
\* that a response carried.
THEOREM TokensDelivered == Spec => []TokenDelivered
<1>1. Typed /\ TokenHeld /\ PendingOwned => TokenDelivered
  <2> SUFFICES ASSUME Typed, TokenHeld, PendingOwned, NEW s \in Sessions,
                      hash[s] # NoRow,
                      \A r \in Tokens : target[r] = s /\ pc[r] # "idle" => pc[r] \in Answered
               PROVE  hash[s] \in Issued /\ target[hash[s]] = s
    BY DEF TokenDelivered
  <2>1. hash[s] # Pending
    BY DEF PendingOwned, Answered, Tokens
  <2>2. hash[s] \in Tokens
    BY <2>1 DEF Typed, Hashes
  <2>3. target[hash[s]] = s /\ pc[hash[s]] \in Holding
    BY <2>2 DEF TokenHeld
  <2> QED
    BY <2>2, <2>3 DEF Issued, Answered, Holding
<1> QED
  BY <1>1, Typing, TokensHeld, PlaceholderOwned, PTL

-----------------------------------------------------------------------------
(* Password changes.                                                       *)

\* A password change that has committed the password keeps its user until it
\* has revoked what it found.
LEMMA SweepProgress ==
    ASSUME Typed, [Next]_vars, NEW p \in PasswordChanges
    PROVE  /\ pc[p] = "passwordSet" =>
                \/ pc'[p] = "passwordSet" /\ target'[p] = target[p]
                \/ SweepSelect(p)
           /\ pc[p] = "sweeping" =>
                \/ /\ pc'[p] = "sweeping" /\ target'[p] = target[p]
                   /\ victims'[p] = victims[p]
                \/ SweepCommit(p)
<1> DEFINE Goal == /\ pc[p] = "passwordSet" =>
                        \/ pc'[p] = "passwordSet" /\ target'[p] = target[p]
                        \/ SweepSelect(p)
                   /\ pc[p] = "sweeping" =>
                        \/ /\ pc'[p] = "sweeping" /\ target'[p] = target[p]
                           /\ victims'[p] = victims[p]
                        \/ SweepCommit(p)
<1> USE DEF Typed, At, Goto, table, local
<1>0. p \in Requests
  BY DEF Requests
<1>1. ASSUME NEW r \in Logins, LoginAuthenticate(r) \/ Login(r) PROVE Goal
  BY <1>0, <1>1 DEF Login, LoginAuthenticate, LoginSelectSession, LoginInsert,
     LoginInsertConflict, LoginReactivate, LoginCommitToken, LoginSelectActive,
     LoginCommitLimit, LoginAlert, Load, ReadClock, Requests
<1>2. ASSUME NEW r \in Refreshes, RefreshSelectSession(r) \/ Refresh(r) PROVE Goal
  BY <1>0, <1>2 DEF Refresh, RefreshSelectSession, RefreshSelectUser,
     RefreshCommitSeen, RefreshCommitToken, Load, ReadClock, Requests
<1>3. ASSUME NEW r \in Requests, SweepSelect(r) \/ SweepCommit(r) PROVE Goal
  <2>1. CASE r = p
    BY <1>0, <1>3, <2>1 DEF SweepSelect, SweepCommit
  <2>2. CASE r # p
    BY <1>0, <1>3, <2>2 DEF SweepSelect, SweepCommit
  <2> QED
    BY <2>1, <2>2
<1>4. ASSUME NEW r \in Requests,
             \/ LogoutSelect(r) \/ Authorise(r) \/ ResetAccept(r)
             \/ RevokeSelect(r) \/ RevokeCommit(r)
             \/ ChangePassword(r) \/ Crash(r)
      PROVE  Goal
  BY <1>0, <1>4 DEF LogoutSelect, Authorise, ResetAccept, RevokeSelect, RevokeCommit,
     ChangePassword, Load, Crash
<1>5. CASE UNCHANGED vars
  BY <1>5 DEF vars
<1> QED
  BY <1>1, <1>2, <1>3, <1>4, <1>5, NextCases DEF Requests

\* Who moves pwVersion and the password version a row was opened under.
LEMMA VersionWriters ==
    ASSUME Typed, [Next]_vars
    PROVE  \/ pwVersion' = pwVersion /\ opened' = opened
           \/ \E r \in PasswordChanges : ChangePassword(r)
           \/ \E r \in Logins : LoginInsert(r) \/ LoginReactivate(r)
<1> USE DEF table, local
<1>1. ASSUME NEW r \in Logins, LoginAuthenticate(r) \/ Login(r)
      PROVE  \/ pwVersion' = pwVersion /\ opened' = opened
             \/ LoginInsert(r) \/ LoginReactivate(r)
  BY <1>1 DEF Login, LoginAuthenticate, LoginSelectSession, LoginInsertConflict,
     LoginCommitToken, LoginSelectActive, LoginCommitLimit, LoginAlert
<1>2. ASSUME NEW r \in Refreshes, RefreshSelectSession(r) \/ Refresh(r)
      PROVE  pwVersion' = pwVersion /\ opened' = opened
  BY <1>2 DEF Refresh, RefreshSelectSession, RefreshSelectUser, RefreshCommitSeen,
     RefreshCommitToken
<1>3. ASSUME NEW r,
             \/ LogoutSelect(r) \/ Authorise(r) \/ ResetAccept(r)
             \/ RevokeSelect(r) \/ RevokeCommit(r)
             \/ SweepSelect(r) \/ SweepCommit(r) \/ Crash(r)
      PROVE  pwVersion' = pwVersion /\ opened' = opened
  BY <1>3 DEF LogoutSelect, Authorise, ResetAccept, RevokeSelect, RevokeCommit,
     SweepSelect, SweepCommit, Crash
<1>4. CASE UNCHANGED vars
  BY <1>4 DEF vars
<1> QED
  BY <1>1, <1>2, <1>3, <1>4, NextCases
\* A row active under an older password than the user's was opened before the
\* change, and a change that has not finished is at work on it.
THEOREM SweepsComplete == Spec => []SweepComplete
<1>1. Init => SweepComplete
  BY DEF Init, SweepComplete
<1>2. Typed /\ SweepComplete /\ [Next]_vars => SweepComplete'
  <2> SUFFICES ASSUME Typed, SweepComplete, [Next]_vars, NEW s \in active',
                      opened'[s] < pwVersion'[Owner(s)]
               PROVE  \E r \in PasswordChanges :
                          /\ Owner(target'[r]) = Owner(s)
                          /\ \/ pc'[r] = "passwordSet"
                             \/ pc'[r] = "sweeping" /\ s \in victims'[r]
    BY DEF SweepComplete
  <2>1. s \in Sessions /\ Owner(s) \in Users
    <3>1. Typed'
      BY TypeStep
    <3> QED
      BY <3>1, OwnerType DEF Typed
  <2>2. ASSUME s \in active, opened[s] < pwVersion[Owner(s)]
        PROVE  \E r \in PasswordChanges :
                   /\ Owner(target'[r]) = Owner(s)
                   /\ \/ pc'[r] = "passwordSet"
                      \/ pc'[r] = "sweeping" /\ s \in victims'[r]
    <3>1. PICK p \in PasswordChanges :
             /\ Owner(target[p]) = Owner(s)
             /\ \/ pc[p] = "passwordSet"
                \/ pc[p] = "sweeping" /\ s \in victims[p]
      BY <2>2 DEF SweepComplete
    <3>2. CASE SweepSelect(p)
      BY <2>2, <3>1, <3>2 DEF SweepSelect, Goto, Active, Typed, Requests
    <3>3. CASE pc[p] = "sweeping" /\ SweepCommit(p)
      BY <3>1, <3>3 DEF SweepCommit
    <3>4. CASE \/ pc[p] = "passwordSet" /\ pc'[p] = "passwordSet" /\ target'[p] = target[p]
               \/ /\ pc[p] = "sweeping" /\ pc'[p] = "sweeping"
                  /\ target'[p] = target[p] /\ victims'[p] = victims[p]
      BY <3>1, <3>4
    <3> QED
      BY <3>1, <3>2, <3>3, <3>4, SweepProgress
  <2>3. ASSUME NEW r \in Logins, LoginInsert(r) \/ LoginReactivate(r)
        PROVE  s \in active /\ opened[s] < pwVersion[Owner(s)]
    <3>1. r \in Requests /\ target[r] \in Sessions
      BY DEF Requests, Typed
    <3>2. /\ active' \subseteq active \cup {target[r]} /\ pwVersion' = pwVersion
          /\ opened' = [opened EXCEPT ![target[r]] = pwVersion[Owner(target[r])]]
      BY <2>3 DEF LoginInsert, LoginReactivate, OpenRow
    <3>3. s # target[r]
      BY <2>1, <3>1, <3>2 DEF Typed
    <3> QED
      BY <2>1, <3>1, <3>2, <3>3 DEF Typed
  <2>4. ASSUME NEW r \in PasswordChanges, ChangePassword(r)
        PROVE  \/ s \in active /\ opened[s] < pwVersion[Owner(s)]
               \/ Owner(target'[r]) = Owner(s) /\ pc'[r] = "passwordSet"
    <3>1. r \in Requests
      BY DEF Requests
    <3>2. active' = active /\ opened' = opened /\ target' = target
      BY <2>4 DEF ChangePassword, table
    <3>3. CASE /\ pwVersion' = [pwVersion EXCEPT ![Owner(target[r])] = @ + 1]
               /\ pc' = [pc EXCEPT ![r] = "passwordSet"]
      BY <2>1, <3>1, <3>2, <3>3 DEF Typed
    <3>4. CASE UNCHANGED pwVersion
      BY <3>2, <3>4
    <3> QED
      BY <2>4, <3>3, <3>4 DEF ChangePassword, Goto
  <2>5. CASE pwVersion' = pwVersion /\ opened' = opened
    <3>1. CASE active' \subseteq active
      BY <2>2, <2>5, <3>1
    <3>2. CASE \E r \in Logins : LoginInsert(r) \/ LoginReactivate(r)
      BY <2>2, <2>3, <3>2
    <3> QED
      BY <3>1, <3>2, Activations
  <2> QED
    BY <2>2, <2>3, <2>4, <2>5, VersionWriters
<1> QED
  BY <1>1, <1>2, Typing, PTL DEF Spec
-----------------------------------------------------------------------------
(* Rows are never lost.                                                    *)

\* A request either loads a row now, or keeps what it loaded and its row: only
\* a request that has read nothing yet gets a row without loading it.
LEMMA LoadSteps ==
    ASSUME Typed, [Next]_vars, NEW q \in Requests
    PROVE  \/ /\ loaded'[q] = loaded[q]
              /\ target'[q] = target[q] \/ pc[q] = "idle"
              /\ pc'[q] = "idle" => pc[q] = "idle"
           \/ loaded'[q] = Status(target'[q]) /\ pc'[q] # "idle"
<1> DEFINE Goal == \/ /\ loaded'[q] = loaded[q]
                      /\ target'[q] = target[q] \/ pc[q] = "idle"
                      /\ pc'[q] = "idle" => pc[q] = "idle"
                   \/ loaded'[q] = Status(target'[q]) /\ pc'[q] # "idle"
<1> USE DEF Typed, At, Goto, table, local
<1>1. ASSUME NEW r \in Logins, LoginAuthenticate(r) \/ Login(r) PROVE Goal
  <2>1. CASE LoginSelectSession(r)
    BY <2>1 DEF LoginSelectSession, Load, Requests
  <2>2. CASE LoginAuthenticate(r) \/ LoginInsert(r) \/ LoginInsertConflict(r)
               \/ LoginReactivate(r) \/ LoginCommitToken(r) \/ LoginSelectActive(r)
               \/ LoginCommitLimit(r) \/ LoginAlert(r)
    BY <2>2 DEF LoginAuthenticate, LoginInsert, LoginInsertConflict,
       LoginReactivate, LoginCommitToken, LoginSelectActive, LoginCommitLimit, LoginAlert, Requests
  <2> QED
    BY <1>1, <2>1, <2>2 DEF Login
<1>2. ASSUME NEW r \in Refreshes, RefreshSelectSession(r) \/ Refresh(r) PROVE Goal
  <2>1. CASE RefreshSelectSession(r)
    BY <2>1 DEF RefreshSelectSession, Load, Issued, Tokens, Requests
  <2>2. CASE Refresh(r)
    BY <2>2 DEF Refresh, RefreshSelectUser, RefreshCommitSeen, RefreshCommitToken,
       ReadClock, Requests
  <2> QED
    BY <1>2, <2>1, <2>2
<1>3. ASSUME NEW r \in Requests, LogoutSelect(r) \/ Authorise(r) \/ ResetAccept(r)
                              \/ RevokeSelect(r)
      PROVE  Goal
  BY <1>3 DEF LogoutSelect, Authorise, ResetAccept, RevokeSelect, Load, Issued, Tokens, Requests
<1>4. ASSUME NEW r \in Requests,
             \/ RevokeCommit(r) \/ ChangePassword(r) \/ SweepSelect(r)
             \/ SweepCommit(r) \/ Crash(r)
      PROVE  Goal
  BY <1>4 DEF RevokeCommit, ChangePassword, SweepSelect, SweepCommit, Crash
<1>5. CASE UNCHANGED vars
  BY <1>5 DEF vars
<1> QED
  BY <1>1, <1>2, <1>3, <1>4, <1>5, NextCases DEF Requests

\* A row that is there stays there: rows are revoked, not deleted.
LEMMA RowsKept ==
    ASSUME Typed, [Next]_vars, NEW s \in Sessions, hash[s] # NoRow
    PROVE  hash'[s] # NoRow
  BY HashWriters, HashAssumption
     DEF LoginInsert, LoginCommitToken, RefreshCommitToken, Typed, Requests

\* The model is type correct, and an active row or a row that a request has
\* loaded is in the table, whatever the requests do and wherever they die.
THEOREM TypeCorrect == Spec => []TypeOK
<1>1. Init => RowsExist
  BY DEF Init, RowsExist
<1>2. Typed /\ RowsExist /\ [Next]_vars => RowsExist'
  <2> SUFFICES ASSUME Typed, RowsExist, [Next]_vars PROVE RowsExist'
    OBVIOUS
  <2>1. Typed'
    BY TypeStep
  <2>2. ASSUME NEW s \in active' PROVE hash'[s] # NoRow
    <3>1. CASE s \in active
      BY <3>1, RowsKept DEF RowsExist, Typed
    <3>2. ASSUME NEW r \in Logins, LoginInsert(r), s = target[r]
          PROVE  hash'[s] # NoRow
      BY <2>1, <2>2, <3>2, HashAssumption DEF LoginInsert, Typed
    <3>3. ASSUME NEW r \in Logins, LoginReactivate(r), s = target[r]
          PROVE  hash'[s] # NoRow
      BY <3>3 DEF LoginReactivate, RowsExist, Requests
    <3> QED
      BY <2>2, <3>1, <3>2, <3>3, Activations
  <2>3. ASSUME NEW q \in Requests, loaded'[q] # "none"
        PROVE  hash'[target'[q]] # NoRow /\ pc'[q] # "idle"
    <3>1. target'[q] \in Sessions
      BY <2>1 DEF Typed
    <3>2. hash[target'[q]] # NoRow /\ pc'[q] # "idle"
      BY <2>3, LoadSteps DEF RowsExist, Status
    <3> QED
      BY <3>1, <3>2, RowsKept
  <2> QED
    BY <2>2, <2>3 DEF RowsExist
<1>3. Typed /\ RowsExist => TypeOK
  BY DEF TypeOK
<1> QED
  BY <1>1, <1>2, <1>3, Typing, PTL DEF Spec
=============================================================================
