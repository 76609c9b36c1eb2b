------------------------- MODULE PasswordResetProofs -------------------------
(***************************************************************************)
(* Theorems about the reset links of both trees, for any number of         *)
(* requests, confirmations and sign-ins, any of which may die, and any     *)
(* limits.  First those of the app, PasswordReset; then those of the old   *)
(* tree, OldPasswordReset, which is the instance Old; then both together,  *)
(* as TLC checks them.                                                     *)
(***************************************************************************)
EXTENDS MCPasswordReset, FiniteSetTheorems, TLAPS

\* A confirmation that has read the row carries a mailed token.
CarriesMailed == \A c \in Confirms : pc[c] = "accepted" => shown[c] \in mailed

\* Every variable keeps its type, and only mailed tokens reset the password.
THEOREM TypeCorrect == Spec => [](TypeOK /\ CarriesMailed)
<1> USE DEF TypeOK, CarriesMailed, Stages, Tasks, Tokens, Goto, row, ghosts
<1>1. Init => TypeOK /\ CarriesMailed
  BY DEF Init
<1>2. TypeOK /\ CarriesMailed /\ [Next]_vars => TypeOK' /\ CarriesMailed'
  <2> SUFFICES ASSUME TypeOK, CarriesMailed, [Next]_vars
               PROVE  TypeOK' /\ CarriesMailed'
    OBVIOUS
  <2>1. ASSUME NEW r \in Requests, RequestSelect(r) PROVE TypeOK' /\ CarriesMailed'
    BY <2>1, KindAssumption DEF RequestSelect
  <2>2. ASSUME NEW r \in Requests, Request(r) PROVE TypeOK' /\ CarriesMailed'
    BY <2>2, KindAssumption
       DEF Request, RequestInsert, RequestInsertConflict, RequestUpdate, RequestMail
  <2>3. ASSUME NEW c \in Confirms, ConfirmSelect(c) PROVE TypeOK' /\ CarriesMailed'
    BY <2>3 DEF ConfirmSelect, Selected
  <2>4. ASSUME NEW c \in Confirms, ConfirmCommit(c) PROVE TypeOK' /\ CarriesMailed'
    BY <2>4 DEF ConfirmCommit
  <2>5. ASSUME NEW t \in Tasks, Die(t) PROVE TypeOK' /\ CarriesMailed'
    BY <2>5 DEF Die
  <2>6. CASE Expire \/ UNCHANGED vars
    BY <2>6 DEF Expire, vars
  <2> QED
    BY <2>1, <2>2, <2>3, <2>4, <2>5, <2>6 DEF Next
<1> QED
  BY <1>1, <1>2, PTL DEF Spec

-----------------------------------------------------------------------------
(* A spent token is never accepted again.                                  *)

\* The row holds a spent token only while it is marked used, and the mail of a
\* request comes after its commit.
SpentMarked == /\ token \in spent => used = "used"
               /\ \A r \in mailed : pc[r] = "done"

\* A spent token is marked, or no longer the row's.
LEMMA SpentInvariant == Spec => []SpentMarked
<1> USE DEF TypeOK, CarriesMailed, SpentMarked, Stages, Tasks, Tokens, Goto, row, ghosts
<1>1. Init => SpentMarked
  BY DEF Init
<1>2. TypeOK /\ CarriesMailed /\ SpentMarked /\ [Next]_vars => SpentMarked'
  <2> SUFFICES ASSUME TypeOK, CarriesMailed, SpentMarked, [Next]_vars
               PROVE  SpentMarked'
    OBVIOUS
  <2>1. ASSUME NEW r \in Requests, RequestSelect(r) PROVE SpentMarked'
    BY <2>1 DEF RequestSelect
  <2>2. ASSUME NEW r \in Requests, Request(r) PROVE SpentMarked'
    BY <2>2 DEF Request, RequestInsert, RequestInsertConflict, RequestUpdate, RequestMail
  <2>3. ASSUME NEW c \in Confirms, ConfirmSelect(c) \/ ConfirmCommit(c)
        PROVE  SpentMarked'
    BY <2>3, KindAssumption DEF ConfirmSelect, ConfirmCommit
  <2>4. ASSUME NEW t \in Tasks, Die(t) PROVE SpentMarked'
    BY <2>4 DEF Die
  <2>5. CASE Expire \/ UNCHANGED vars
    BY <2>5 DEF Expire, vars
  <2> QED
    BY <2>1, <2>2, <2>3, <2>4, <2>5 DEF Next
<1> QED
  BY <1>1, <1>2, TypeCorrect, PTL DEF Spec

\* confirm_password_reset accepts no token that has reset the password before.
THEOREM SpentRejected == Spec => SpentStaysSpent
<1>1. TypeOK /\ SpentMarked /\ [Next]_vars =>
        [\A c \in Confirms : pc[c] = "idle" /\ pc'[c] = "accepted"
            => shown'[c] \notin spent]_vars
  <2> SUFFICES ASSUME TypeOK, SpentMarked, Next, NEW c \in Confirms,
                      pc[c] = "idle", pc'[c] = "accepted"
               PROVE  shown'[c] \notin spent
    BY DEF vars
  <2> USE DEF TypeOK, Stages, Tasks, Tokens, Goto
  <2>1. ConfirmSelect(c)
    BY KindAssumption DEF Next, Request, RequestSelect, RequestInsert,
       RequestInsertConflict, RequestUpdate, RequestMail, ConfirmSelect,
       ConfirmCommit, Die, Expire
  <2> QED
    BY <2>1 DEF ConfirmSelect, Acceptable, SpentMarked
<1> QED
  BY <1>1, TypeCorrect, SpentInvariant, PTL DEF Spec, SpentStaysSpent

-----------------------------------------------------------------------------
(* A link that overlapped no confirmation is good.                         *)

\* What may still mark the row: a confirmation under way either carries the
\* row's token or overlapped the request that put it there; and a request that
\* will not reset the mark either loaded the row unused, or overlapped.
MarksExplained ==
    /\ LinkGood
    /\ \A c \in Accepted : token \in {shown[c]} \cup crossed
    /\ \A c \in Accepted : Selected \subseteq crossed
    /\ \A r \in Selected : loaded[r] = "fresh" /\ used = "used" => r \in crossed
    /\ token = NoToken => used = "fresh"

\* Marking the row used can spoil the link of a newer request only if the two
\* overlapped (create_password_reset_token against confirm_password_reset).
THEOREM LinksGood == Spec => []LinkGood
<1> USE DEF TypeOK, CarriesMailed, MarksExplained, LinkGood, Accepted, Selected,
            Stages, Tasks, Tokens, Goto, row, ghosts
<1>1. Init => MarksExplained
  BY DEF Init
<1>2. TypeOK /\ CarriesMailed /\ MarksExplained /\ [Next]_vars => MarksExplained'
  <2> SUFFICES ASSUME TypeOK, CarriesMailed, MarksExplained, [Next]_vars
               PROVE  MarksExplained'
    OBVIOUS
  <2>1. ASSUME NEW r \in Requests, RequestSelect(r) PROVE MarksExplained'
    BY <2>1, KindAssumption DEF RequestSelect
  <2>2. ASSUME NEW r \in Requests, RequestInsert(r) PROVE MarksExplained'
    BY <2>2, KindAssumption DEF RequestInsert
  <2>3. ASSUME NEW r \in Requests, RequestUpdate(r) PROVE MarksExplained'
    BY <2>3, KindAssumption, TokenAssumption DEF RequestUpdate
  <2>4. ASSUME NEW r \in Requests,
               RequestInsertConflict(r) \/ RequestMail(r)
        PROVE  MarksExplained'
    BY <2>4, KindAssumption DEF RequestInsertConflict, RequestMail
  <2>5. ASSUME NEW c \in Confirms, ConfirmSelect(c) PROVE MarksExplained'
    BY <2>5, KindAssumption DEF ConfirmSelect, Acceptable
  <2>6. ASSUME NEW c \in Confirms, ConfirmCommit(c) PROVE MarksExplained'
    BY <2>6, KindAssumption, TokenAssumption DEF ConfirmCommit
  <2>7. ASSUME NEW t \in Tasks, Die(t) PROVE MarksExplained'
    BY <2>7 DEF Die
  <2>8. CASE Expire \/ UNCHANGED vars
    BY <2>8 DEF Expire, vars
  <2> QED
    BY <2>1, <2>2, <2>3, <2>4, <2>5, <2>6, <2>7, <2>8 DEF Next, Request
<1>3. MarksExplained => LinkGood
  BY DEF MarksExplained
<1> QED
  BY <1>1, <1>2, <1>3, TypeCorrect, PTL DEF Spec

-----------------------------------------------------------------------------
(* The old tree.                                                           *)

\* A request under way would not exceed the daily maximum, a confirmation under way
\* carries a link that was mailed, and links are stored before they are mailed.
OldInformed ==
    /\ \A r \in Requests : stage[r] = "selected" => Old!NextCount(got[r], at[r]) <= MaxPerDay
    /\ \A c \in OldConfirms : stage[c] \in {"accepted", "changed"} => carried[c] \in sent
    /\ \A r \in sent : stage[r] \in {"mailing", "done", "dead"}
    /\ link # NoToken => stage[link] \in {"mailing", "done", "dead"}
    /\ link = NoToken => /\ linkUsed = "fresh" /\ sent = {}
                         /\ \A r \in Requests : stage[r] \notin {"mailing", "done"}

OldTyped == Old!OldTypeOK /\ OldInformed

\* What a request writes is within the limits, and a natural number.
LEMMA LimitsFit ==
    ASSUME Old!ConstantsFit,
           NEW before \in [row : {"none", "row"}, used : {"fresh", "used"},
                           count : 0..MaxPerDay, window : Nat],
           NEW time \in Nat
    PROVE  /\ Old!NextCount(before, time) \in Nat \ {0}
           /\ Old!Midnight(time) \in Nat
           /\ Old!NextWindow(before, time) \in Nat
           /\ Old!Cooldown(Old!NextCount(before, time)) \in Nat
<1>1. Old!NextCount(before, time) \in Nat \ {0}
  BY DEF Old!NextCount, Old!ConstantsFit
<1>2. time \div DayLength \in Nat
  BY DEF Old!ConstantsFit
<1>3. Old!Midnight(time) \in Nat
  BY <1>2 DEF Old!Midnight, Old!ConstantsFit
<1>4. Old!NextWindow(before, time) \in Nat
  BY <1>3 DEF Old!NextWindow
<1>5. Old!Cooldown(Old!NextCount(before, time)) \in Nat
  BY <1>1 DEF Old!Cooldown, Old!ConstantsFit
<1> QED
  BY <1>1, <1>3, <1>4, <1>5

\* Every variable keeps its type, and the count never exceeds the daily maximum.
LEMMA OldTypedAlways == ASSUME Old!ConstantsFit PROVE Old!OldSpec => []OldTyped
<1> USE DEF OldTyped, Old!OldTypeOK, OldInformed, Old!To, Old!linkRow, Old!signins, Old!account,
            Old!carriedBy, Old!history
<1>1. Old!OldInit => OldTyped
  BY DEF Old!OldInit, Old!NoRow, Old!ConstantsFit
<1>2. OldTyped /\ [Old!OldNext]_(Old!oldVars) => OldTyped'
  <2> SUFFICES ASSUME OldTyped, [Old!OldNext]_(Old!oldVars) PROVE OldTyped'
    OBVIOUS
  <2> DEFINE Loads == [row : {"none", "row"}, used : {"fresh", "used"},
                       count : 0..MaxPerDay, window : Nat]
  <2>0. /\ \A t \in Requests : t \notin OldConfirms /\ t \notin SignIns /\ t # NoToken
        /\ \A t \in OldConfirms : t \notin SignIns
    BY DEF Old!ConstantsFit
  <2>1. ASSUME NEW r \in Requests, Old!RequestSelect(r) PROVE OldTyped'
    <3>1. PICK before : /\ before = IF link = NoToken THEN Old!NoRow
                            ELSE [row |-> "row", used |-> linkUsed, count |-> count,
                                  window |-> windowEnd]
                       /\ got' = [got EXCEPT ![r] = before]
                       /\ at' = [at EXCEPT ![r] = tick]
                       /\ \/ Old!Refused(before, cooldownUntil, tick) /\ Old!To(r, "rejected")
                          \/ ~Old!Refused(before, cooldownUntil, tick) /\ Old!To(r, "selected")
      BY <2>1 DEF Old!RequestSelect
    <3>2. before \in Loads
      BY <3>1 DEF Old!NoRow, Old!ConstantsFit
    <3>3. Old!NextCount(before, tick) \in Nat
      BY <3>2, LimitsFit
    <3>4. stage[r] = "idle" /\ clashed' \in SUBSET Requests
      BY <2>1 DEF Old!RequestSelect
    <3>5. UNCHANGED <<tick, Old!linkRow, carried, chosen, Old!account, sent, spentOld, minted,
                      overlapped>>
      BY <2>1 DEF Old!RequestSelect
    <3>6. got' \in [Requests -> Loads] /\ at' \in [Requests -> 0..Horizon]
      BY <3>1, <3>2
    <3>7. Old!OldTypeOK'
      BY <3>1, <3>4, <3>5, <3>6
    <3>8. stage'[r] = "selected" => Old!NextCount(got'[r], at'[r]) <= MaxPerDay
      <4>1. CASE Old!Refused(before, cooldownUntil, tick)
        BY <4>1, <3>1, <3>4
      <4>2. CASE ~Old!Refused(before, cooldownUntil, tick)
        <5>1. got'[r] = before /\ at'[r] = tick
          BY <3>1
        <5>2. Old!NextCount(before, tick) <= MaxPerDay
          <6>1. CASE link = NoToken
            BY <6>1, <3>1 DEF Old!NoRow, Old!NextCount, Old!ConstantsFit
          <6>2. CASE link # NoToken
            <7>1. before.row = "row"
              BY <6>2, <3>1
            <7> QED
              BY <7>1, <4>2, <3>3 DEF Old!Refused, Old!ConstantsFit
          <6> QED
            BY <6>1, <6>2
        <5> QED
          BY <5>1, <5>2
      <4> QED
        BY <4>1, <4>2
    <3>9. \A q \in Requests \ {r} : got'[q] = got[q] /\ at'[q] = at[q] /\ stage'[q] = stage[q]
      BY <3>1
    <3> QED
      BY <3>1, <3>4, <3>5, <3>7, <3>8, <3>9, <2>0
  <2>2. ASSUME NEW r \in Requests, Old!RequestCommit(r) PROVE OldTyped'
    <3> DEFINE n == Old!NextCount(got[r], at[r])
    <3> DEFINE w == Old!NextWindow(got[r], at[r])
    <3>0. got[r] \in Loads /\ at[r] \in Nat
      OBVIOUS
    <3>1. n \in Nat \ {0} /\ w \in Nat /\ Old!Cooldown(n) \in Nat
      BY <3>0, LimitsFit
    <3>2. n <= MaxPerDay
      BY <2>2 DEF Old!RequestCommit
    <3> HIDE DEF n, w
    <3>3. at[r] + LinkLife \in Nat /\ at[r] + Old!Cooldown(n) \in Nat
      BY <3>0, <3>1 DEF Old!ConstantsFit
    <3>4. link' \in Requests \cup {NoToken} /\ linkUsed' \in {"fresh", "used"} /\ linkEnd' \in Nat
          /\ count' \in 0..MaxPerDay /\ cooldownUntil' \in Nat /\ windowEnd' \in Nat
      BY <2>2, <3>0, <3>1, <3>2, <3>3 DEF Old!RequestCommit, Old!Written, n, w
    <3>5. Old!To(r, "failed") \/ Old!To(r, "mailing")
      BY <2>2 DEF Old!RequestCommit
    <3>6. minted' \in SUBSET Requests /\ overlapped' \in SUBSET Requests
      BY <2>2 DEF Old!RequestCommit, Old!Reading
    <3>7. UNCHANGED <<tick, Old!carriedBy, Old!account, sent, spentOld,
                      clashed>> /\ stage[r] = "selected"
      BY <2>2 DEF Old!RequestCommit
    <3>8. link' # NoToken
      BY <2>0, <2>2 DEF Old!RequestCommit
    <3>9. Old!OldTypeOK'
      BY <3>4, <3>5, <3>6, <3>7
    <3>10. link' # NoToken => stage'[link'] \in {"mailing", "done", "dead"}
      BY <2>0, <2>2, <3>7 DEF Old!RequestCommit
    <3> QED
      BY <2>0, <3>5, <3>7, <3>8, <3>9, <3>10
  <2>3. ASSUME NEW r \in Requests, Old!RequestMail(r) PROVE OldTyped'
    BY <2>0, <2>3 DEF Old!RequestMail
  <2>4. ASSUME NEW c \in OldConfirms, Old!ConfirmSelect(c) PROVE OldTyped'
    <3>1. PICK t \in sent : carried' = [carried EXCEPT ![c] = t]
      BY <2>4 DEF Old!ConfirmSelect
    <3>2. clashed' \in SUBSET Requests
      BY <2>4 DEF Old!ConfirmSelect, Old!Reading
    <3>3. Old!To(c, "accepted") \/ Old!To(c, "rejected")
      BY <2>4 DEF Old!ConfirmSelect
    <3>4. UNCHANGED <<tick, Old!linkRow, at, got, chosen, Old!account, sent, spentOld, minted,
                      overlapped>>
      BY <2>4 DEF Old!ConfirmSelect
    <3> QED
      BY <2>0, <3>1, <3>2, <3>3, <3>4
  <2>5. ASSUME NEW c \in OldConfirms, Old!ConfirmPassword(c) PROVE OldTyped'
    <3>1. 0..password \subseteq 0..(password + 1) /\ password + 1 \in Nat
      OBVIOUS
    <3> QED
      BY <2>0, <2>5, <3>1 DEF Old!ConfirmPassword
  <2>6. ASSUME NEW c \in OldConfirms, Old!ConfirmMark(c) PROVE OldTyped'
    BY <2>0, <2>6 DEF Old!ConfirmMark
  <2>7. ASSUME NEW c \in OldConfirms, Old!ConfirmSessions(c) PROVE OldTyped'
    BY <2>0, <2>7 DEF Old!ConfirmSessions
  <2>8. ASSUME NEW s \in SignIns, Old!SignInVerify(s) \/ Old!SignInOpen(s) PROVE OldTyped'
    <3>1. CASE Old!SignInVerify(s)
      BY <2>0, <3>1 DEF Old!SignInVerify
    <3>2. CASE Old!SignInOpen(s)
      <4>1. verified[s] \in 0..password
        OBVIOUS
      <4>2. sessions' \in SUBSET (0..password) /\ late' \in SUBSET sessions'
        BY <3>2, <4>1 DEF Old!SignInOpen
      <4> QED
        BY <2>0, <3>2, <4>2 DEF Old!SignInOpen
    <3> QED
      BY <2>8, <3>1, <3>2
  <2>9. CASE Old!Tick
    BY <2>9 DEF Old!Tick, Old!ConstantsFit
  <2>10. ASSUME NEW t \in Requests \cup OldConfirms, Old!OldDie(t) PROVE OldTyped'
    BY <2>0, <2>10 DEF Old!OldDie
  <2>11. CASE UNCHANGED Old!oldVars
    BY <2>11 DEF Old!oldVars
  <2> QED
    BY <2>1, <2>2, <2>3, <2>4, <2>5, <2>6, <2>7, <2>8, <2>9, <2>10, <2>11
       DEF Old!OldNext, Old!Request, Old!Confirm, Old!SignIn
<1> QED
  BY <1>1, <1>2, PTL DEF Old!OldSpec

\* Every variable keeps its type, and the count stays within the daily maximum.
THEOREM OldTypeCorrect == ASSUME Old!ConstantsFit PROVE Old!OldSpec => []Old!OldTypeOK
<1>1. OldTyped => Old!OldTypeOK
  BY DEF OldTyped
<1> QED
  BY <1>1, OldTypedAlways, PTL

-----------------------------------------------------------------------------
(* A link that is dead without use.                                        *)

\* A confirmation under way carries the link of the row, or the row's request met
\* it; a request under way has met every confirmation under way, and one that loaded
\* the row unmarked has met the confirmation that marked it since.
OldLinkExplained ==
    /\ Old!OldLinkGood
    /\ \A c \in Old!Confirming : link = carried[c] \/ link \in clashed
    /\ \A c \in OldConfirms : stage[c] = "changed" => carried[c] \in spentOld
    /\ Old!Confirming # {} => Old!Reading \subseteq clashed
    /\ \A r \in Old!Reading : got[r].used = "fresh" /\ linkUsed = "used" => r \in clashed

\* An unused link is dead only when its request overlapped a confirmation.
THEOREM OldLinksGood == ASSUME Old!ConstantsFit PROVE Old!OldSpec => []Old!OldLinkGood
<1> USE DEF Old!OldLinkGood, OldLinkExplained, Old!Confirming, Old!Reading, Old!To, Old!linkRow,
            Old!signins, Old!account,
            Old!carriedBy, Old!history
<1>1. Old!OldInit => OldLinkExplained
  BY DEF Old!OldInit, Old!ConstantsFit
<1>2. OldTyped /\ OldLinkExplained /\ [Old!OldNext]_(Old!oldVars) => OldLinkExplained'
  <2> SUFFICES ASSUME OldTyped, OldLinkExplained, [Old!OldNext]_(Old!oldVars)
               PROVE  OldLinkExplained'
    OBVIOUS
  <2>0. /\ \A t \in Requests : t \notin OldConfirms /\ t \notin SignIns /\ t # NoToken
        /\ \A t \in OldConfirms : t \notin SignIns
    BY DEF Old!ConstantsFit
  <2> USE DEF OldTyped, Old!OldTypeOK, OldInformed
  <2>1. ASSUME NEW r \in Requests, Old!RequestSelect(r) PROVE OldLinkExplained'
    <3>1. got'[r].used = "fresh" => linkUsed = "fresh"
      BY <2>1, <2>0 DEF Old!RequestSelect, Old!NoRow
    <3>2. \A q \in Requests \ {r} : got'[q] = got[q] /\ stage'[q] = stage[q]
      BY <2>1, <2>0 DEF Old!RequestSelect
    <3>3. /\ clashed \subseteq clashed'
          /\ stage'[r] = "selected" /\ Old!Confirming # {} => r \in clashed'
          /\ \A c \in OldConfirms : stage'[c] = stage[c]
          /\ UNCHANGED <<link, linkUsed, carried, spentOld>>
      BY <2>1, <2>0 DEF Old!RequestSelect
    <3> QED
      BY <3>1, <3>2, <3>3
  <2>2. ASSUME NEW r \in Requests, Old!RequestCommit(r) PROVE OldLinkExplained'
    <3>1. \A t \in (Requests \cup OldConfirms) \ {r} : stage'[t] = stage[t]
      BY <2>2, <2>0 DEF Old!RequestCommit
    <3>2. stage[r] = "selected" /\ stage'[r] \in {"failed", "mailing"}
          /\ UNCHANGED <<carried, got, spentOld, clashed>>
      BY <2>2, <2>0 DEF Old!RequestCommit
    <3>3. \/ UNCHANGED <<link, linkUsed>>
          \/ link' = r /\ linkUsed' = Old!Written("fresh", got[r].used, linkUsed)
      BY <2>2 DEF Old!RequestCommit
    <3>4. CASE UNCHANGED <<link, linkUsed>>
      BY <2>0, <3>1, <3>2, <3>4
    <3>5. CASE link' = r /\ linkUsed' = Old!Written("fresh", got[r].used, linkUsed)
      <4>1. linkUsed' = "used" => linkUsed = "used" /\ r \in clashed
        BY <3>2, <3>5 DEF Old!Written
      <4>2. Old!Confirming # {} => r \in clashed
        BY <3>2
      <4> QED
        BY <2>0, <3>1, <3>2, <3>5, <4>1, <4>2
    <3> QED
      BY <3>3, <3>4, <3>5
  <2>3. ASSUME NEW r \in Requests, Old!RequestMail(r) PROVE OldLinkExplained'
    BY <2>0, <2>3 DEF Old!RequestMail
  <2>4. ASSUME NEW c \in OldConfirms, Old!ConfirmSelect(c) PROVE OldLinkExplained'
    <3>1. PICK t \in sent :
            /\ carried' = [carried EXCEPT ![c] = t]
            /\ \/ Old!Usable(t) /\ Old!To(c, "accepted") /\ clashed' = clashed \cup Old!Reading
               \/ Old!To(c, "rejected") /\ UNCHANGED clashed
      BY <2>4 DEF Old!ConfirmSelect
    <3>2. stage[c] = "idle" /\ UNCHANGED <<link, linkUsed, got, spentOld>>
      BY <2>4 DEF Old!ConfirmSelect
    <3>3. CASE Old!Usable(t) /\ Old!To(c, "accepted") /\ clashed' = clashed \cup Old!Reading
      BY <2>0, <3>1, <3>2, <3>3 DEF Old!Usable
    <3>4. CASE Old!To(c, "rejected") /\ UNCHANGED clashed
      BY <2>0, <3>1, <3>2, <3>4
    <3> QED
      BY <3>1, <3>3, <3>4
  <2>5. ASSUME NEW c \in OldConfirms, Old!ConfirmPassword(c) PROVE OldLinkExplained'
    BY <2>0, <2>5 DEF Old!ConfirmPassword
  <2>6. ASSUME NEW c \in OldConfirms, Old!ConfirmMark(c) PROVE OldLinkExplained'
    <3>1. c \in Old!Confirming
      BY <2>6 DEF Old!ConfirmMark
    <3> QED
      BY <2>0, <2>6, <3>1 DEF Old!ConfirmMark
  <2>7. ASSUME NEW c \in OldConfirms, Old!ConfirmSessions(c) PROVE OldLinkExplained'
    BY <2>0, <2>7 DEF Old!ConfirmSessions
  <2>8. ASSUME NEW s \in SignIns, Old!SignInVerify(s) \/ Old!SignInOpen(s) PROVE OldLinkExplained'
    BY <2>0, <2>8 DEF Old!SignInVerify, Old!SignInOpen
  <2>9. CASE Old!Tick
    BY <2>9 DEF Old!Tick
  <2>10. ASSUME NEW t \in Requests \cup OldConfirms, Old!OldDie(t) PROVE OldLinkExplained'
    BY <2>0, <2>10 DEF Old!OldDie
  <2>11. CASE UNCHANGED Old!oldVars
    BY <2>11 DEF Old!oldVars
  <2> QED
    BY <2>1, <2>2, <2>3, <2>4, <2>5, <2>6, <2>7, <2>8, <2>9, <2>10, <2>11
       DEF Old!OldNext, Old!Request, Old!Confirm, Old!SignIn
<1>3. OldLinkExplained => Old!OldLinkGood
  OBVIOUS
<1> QED
  BY <1>1, <1>2, <1>3, OldTypedAlways, PTL DEF Old!OldSpec

-----------------------------------------------------------------------------
(* A link that is used twice.                                              *)

\* A spent link that could be used again is of a confirmation that has not marked
\* it yet, or never will.
OldSpentExplained ==
    link \in spentOld /\ linkUsed = "fresh" =>
        \E d \in OldConfirms : carried[d] = link /\ stage[d] \in {"changed", "dead"}

\* A link resets the password twice only in the gap between two commits.
THEOREM OldLinksSpentOnce == ASSUME Old!ConstantsFit PROVE Old!OldSpec => Old!OldSpentOnce
<1> USE DEF OldSpentExplained, Old!To, Old!linkRow, Old!signins, Old!account, Old!carriedBy,
            Old!history
<1>1. Old!OldInit => OldSpentExplained
  BY DEF Old!OldInit
<1>2. OldTyped /\ OldSpentExplained /\ [Old!OldNext]_(Old!oldVars) => OldSpentExplained'
  <2> SUFFICES ASSUME OldTyped, OldSpentExplained, [Old!OldNext]_(Old!oldVars),
                      link' \in spentOld', linkUsed' = "fresh"
               PROVE  \E d \in OldConfirms :
                        carried'[d] = link' /\ stage'[d] \in {"changed", "dead"}
    OBVIOUS
  <2>0. /\ \A t \in Requests : t \notin OldConfirms /\ t \notin SignIns /\ t # NoToken
        /\ \A t \in OldConfirms : t \notin SignIns
    BY DEF Old!ConstantsFit
  <2> USE DEF OldTyped, Old!OldTypeOK, OldInformed
  <2> DEFINE Kept == \A d \in OldConfirms : stage[d] \in {"changed", "dead"} =>
                       carried'[d] = carried[d] /\ stage'[d] \in {"changed", "dead"}
  <2>a. ASSUME Kept, UNCHANGED <<link, linkUsed, spentOld>>
        PROVE  \E d \in OldConfirms : carried'[d] = link' /\ stage'[d] \in {"changed", "dead"}
    BY <2>a
  <2>1. ASSUME NEW r \in Requests, Old!RequestSelect(r) \/ Old!RequestMail(r) PROVE Kept
    BY <2>0, <2>1 DEF Old!RequestSelect, Old!RequestMail
  <2>2. ASSUME NEW r \in Requests, Old!RequestCommit(r)
        PROVE  Kept /\ UNCHANGED <<link, linkUsed, spentOld>>
    <3>1. r \notin spentOld
      BY <2>2 DEF Old!RequestCommit
    <3> QED
      BY <2>0, <2>2, <3>1 DEF Old!RequestCommit
  <2>3. ASSUME NEW c \in OldConfirms, Old!ConfirmSelect(c) PROVE Kept
    BY <2>0, <2>3 DEF Old!ConfirmSelect
  <2>4. ASSUME NEW c \in OldConfirms, Old!ConfirmPassword(c)
        PROVE  \E d \in OldConfirms : carried'[d] = link' /\ stage'[d] \in {"changed", "dead"}
    <3>1. stage'[c] = "changed" /\ Kept
      BY <2>0, <2>4 DEF Old!ConfirmPassword
    <3>2. UNCHANGED <<link, linkUsed, carried>> /\ spentOld' = spentOld \cup {carried[c]}
      BY <2>4 DEF Old!ConfirmPassword
    <3> QED
      BY <3>1, <3>2
  <2>5. ASSUME NEW c \in OldConfirms PROVE ~Old!ConfirmMark(c)
    BY DEF Old!ConfirmMark
  <2>6. ASSUME NEW c \in OldConfirms, Old!ConfirmSessions(c) PROVE Kept
    BY <2>0, <2>6 DEF Old!ConfirmSessions
  <2>7. ASSUME NEW s \in SignIns, Old!SignInVerify(s) \/ Old!SignInOpen(s) PROVE Kept
    BY <2>0, <2>7 DEF Old!SignInVerify, Old!SignInOpen
  <2>8. CASE Old!Tick
    BY <2>8 DEF Old!Tick
  <2>9. ASSUME NEW t \in Requests \cup OldConfirms, Old!OldDie(t) PROVE Kept
    BY <2>0, <2>9 DEF Old!OldDie
  <2>10. CASE UNCHANGED Old!oldVars
    BY <2>10 DEF Old!oldVars
  <2> DEFINE LinkStays == UNCHANGED <<link, linkUsed, spentOld>>
  <2>11. /\ \A r \in Requests : Old!RequestSelect(r) \/ Old!RequestMail(r) => LinkStays
         /\ \A c \in OldConfirms : Old!ConfirmSelect(c) \/ Old!ConfirmSessions(c) => LinkStays
         /\ \A s \in SignIns : Old!SignInVerify(s) \/ Old!SignInOpen(s) => LinkStays
         /\ \A t \in Requests \cup OldConfirms : Old!OldDie(t) => LinkStays
    BY DEF Old!RequestSelect, Old!RequestMail, Old!ConfirmSelect, Old!ConfirmSessions,
           Old!SignInVerify, Old!SignInOpen, Old!OldDie
  <2> HIDE DEF Kept
  <2> QED
    BY <2>a, <2>1, <2>2, <2>3, <2>4, <2>5, <2>6, <2>7, <2>8, <2>9, <2>10, <2>11
       DEF Old!OldNext, Old!Request, Old!Confirm, Old!SignIn
<1>3. OldTyped /\ OldSpentExplained /\ [Old!OldNext]_(Old!oldVars) =>
        [\A c \in OldConfirms : stage[c] = "idle" /\ stage'[c] = "accepted" =>
           \/ carried'[c] \notin spentOld
           \/ \E d \in OldConfirms :
                carried[d] = carried'[c] /\ stage[d] \in {"changed", "dead"}]_(Old!oldVars)
  <2> SUFFICES ASSUME OldTyped, OldSpentExplained, Old!OldNext,
                      NEW c \in OldConfirms, stage[c] = "idle", stage'[c] = "accepted"
               PROVE  \/ carried'[c] \notin spentOld
                      \/ \E d \in OldConfirms :
                           carried[d] = carried'[c] /\ stage[d] \in {"changed", "dead"}
    BY DEF Old!oldVars
  <2>0. /\ \A t \in Requests : t \notin OldConfirms /\ t \notin SignIns
        /\ \A t \in OldConfirms : t \notin SignIns
    BY DEF Old!ConstantsFit
  <2>1. Old!ConfirmSelect(c)
    <3> USE DEF OldTyped, Old!OldTypeOK
    <3>1. ASSUME NEW r \in Requests, Old!Request(r) PROVE FALSE
      BY <2>0, <3>1 DEF Old!Request, Old!RequestSelect, Old!RequestCommit, Old!RequestMail
    <3>2. ASSUME NEW d \in OldConfirms, Old!Confirm(d), ~Old!ConfirmSelect(c) PROVE FALSE
      BY <2>0, <3>2
         DEF Old!Confirm, Old!ConfirmSelect, Old!ConfirmPassword, Old!ConfirmMark,
             Old!ConfirmSessions
    <3>3. ASSUME NEW s \in SignIns, Old!SignIn(s) PROVE FALSE
      BY <2>0, <3>3 DEF Old!SignIn, Old!SignInVerify, Old!SignInOpen
    <3>4. ASSUME NEW t \in Requests \cup OldConfirms, Old!OldDie(t) PROVE FALSE
      BY <2>0, <3>4 DEF Old!OldDie
    <3>5. ~Old!Tick
      BY DEF Old!Tick
    <3> QED
      BY <3>1, <3>2, <3>3, <3>4, <3>5 DEF Old!OldNext
  <2>2. link = carried'[c] /\ linkUsed = "fresh"
    BY <2>1 DEF Old!ConfirmSelect, Old!Usable, OldTyped, Old!OldTypeOK
  <2> QED
    BY <2>2
<1> QED
  BY <1>1, <1>2, <1>3, OldTypedAlways, PTL DEF Old!OldSpec, Old!OldSpentOnce

-----------------------------------------------------------------------------
(* Sessions that outlive a password.                                       *)

\* Once a confirmation has answered, no session of an older password is open, but of
\* a sign-in that was under way.
THEOREM PasswordEndsSessions ==
    ASSUME Old!ConstantsFit PROVE Old!OldSpec => []Old!SessionsFollowPassword
<1> USE DEF Old!SessionsFollowPassword, Old!To, Old!linkRow, Old!signins, Old!account,
            Old!carriedBy, Old!history
<1>1. Old!OldInit => Old!SessionsFollowPassword
  BY DEF Old!OldInit, Old!ConstantsFit
<1>2. OldTyped /\ Old!SessionsFollowPassword /\ [Old!OldNext]_(Old!oldVars) =>
        Old!SessionsFollowPassword'
  <2> SUFFICES ASSUME OldTyped, Old!SessionsFollowPassword, [Old!OldNext]_(Old!oldVars)
               PROVE  Old!SessionsFollowPassword'
    OBVIOUS
  <2>0. /\ \A t \in Requests : t \notin OldConfirms /\ t \notin SignIns
        /\ \A t \in OldConfirms : t \notin SignIns
    BY DEF Old!ConstantsFit
  <2> USE DEF OldTyped, Old!OldTypeOK
  <2>1. ASSUME NEW r \in Requests, Old!Request(r) PROVE Old!SessionsFollowPassword'
    <3>1. UNCHANGED <<carried, chosen,
                      Old!account>> /\ \A c \in OldConfirms : stage'[c] = stage[c]
      <4>1. CASE Old!RequestSelect(r)
        BY <2>0, <4>1 DEF Old!RequestSelect
      <4>2. CASE Old!RequestCommit(r)
        BY <2>0, <4>2 DEF Old!RequestCommit
      <4>3. CASE Old!RequestMail(r)
        BY <2>0, <4>3 DEF Old!RequestMail
      <4> QED
        BY <2>1, <4>1, <4>2, <4>3 DEF Old!Request
    <3> QED
      BY <3>1
  <2>2. ASSUME NEW c \in OldConfirms, Old!ConfirmSelect(c) \/ Old!ConfirmMark(c)
        PROVE  Old!SessionsFollowPassword'
    BY <2>0, <2>2 DEF Old!ConfirmSelect, Old!ConfirmMark
  <2>3. ASSUME NEW c \in OldConfirms, Old!ConfirmPassword(c) PROVE Old!SessionsFollowPassword'
    BY <2>0, <2>3 DEF Old!ConfirmPassword
  <2>4. ASSUME NEW c \in OldConfirms, Old!ConfirmSessions(c) PROVE Old!SessionsFollowPassword'
    BY <2>4 DEF Old!ConfirmSessions
  <2>5. ASSUME NEW s \in SignIns, Old!SignInVerify(s) PROVE Old!SessionsFollowPassword'
    BY <2>0, <2>5 DEF Old!SignInVerify
  <2>6. ASSUME NEW s \in SignIns, Old!SignInOpen(s) PROVE Old!SessionsFollowPassword'
    <3>1. \A c \in OldConfirms :
            stage'[c] = stage[c] /\ chosen'[c] = chosen[c] /\ chosen[c] \in 0..password
      BY <2>0, <2>6 DEF Old!SignInOpen
    <3>2. CASE verified[s] = password
      BY <2>6, <3>1, <3>2 DEF Old!SignInOpen
    <3>3. CASE verified[s] # password
      BY <2>6, <3>1, <3>3 DEF Old!SignInOpen
    <3> QED
      BY <3>2, <3>3
  <2>7. CASE Old!Tick
    BY <2>7 DEF Old!Tick
  <2>8. ASSUME NEW t \in Requests \cup OldConfirms, Old!OldDie(t)
        PROVE  Old!SessionsFollowPassword'
    BY <2>0, <2>8 DEF Old!OldDie
  <2>9. CASE UNCHANGED Old!oldVars
    BY <2>9 DEF Old!oldVars
  <2> QED
    BY <2>1, <2>2, <2>3, <2>4, <2>5, <2>6, <2>7, <2>8, <2>9
       DEF Old!OldNext, Old!Confirm, Old!SignIn
<1> QED
  BY <1>1, <1>2, OldTypedAlways, PTL DEF Old!OldSpec

-----------------------------------------------------------------------------
(* The cooldown.                                                           *)

\* Without an overlap the cooldown of every link that was minted ends before that of
\* the row, and that of the row before any request under way has read the clock.
CooldownExplained ==
    /\ link = NoToken => cooldownUntil = 0
    /\ \A q \in minted : stage[q] \notin {"idle", "selected"}
    /\ Old!CooldownKept
    /\ overlapped = {} =>
         /\ \A q \in minted : at[q] + CooldownSteps[1] <= cooldownUntil
         /\ \A r \in Old!Reading : cooldownUntil <= at[r]

\* No cooldown is shorter than the first.
LEMMA CooldownLeast ==
    ASSUME Old!ConstantsFit, NEW n \in Nat \ {0}
    PROVE  /\ CooldownSteps[1] \in Nat /\ Old!Cooldown(n) \in Nat
           /\ CooldownSteps[1] <= Old!Cooldown(n)
<1>1. Len(CooldownSteps) \in Nat \ {0} /\ CooldownSteps \in Seq(Nat)
  BY DEF Old!ConstantsFit
<1> DEFINE i == IF n < Len(CooldownSteps) THEN n ELSE Len(CooldownSteps)
<1>2. i \in 1..Len(CooldownSteps) /\ 1 \in 1..Len(CooldownSteps)
  BY <1>1
<1>3. Old!Cooldown(n) = CooldownSteps[i]
  BY DEF Old!Cooldown
<1> HIDE DEF i
<1> QED
  BY <1>1, <1>2, <1>3 DEF Old!ConstantsFit

\* Two links are a cooldown apart unless requests overlap.
THEOREM LinksApart == ASSUME Old!ConstantsFit PROVE Old!OldSpec => []Old!CooldownKept
<1> USE DEF Old!CooldownKept, CooldownExplained, Old!Reading, Old!To, Old!linkRow, Old!signins,
            Old!account, Old!carriedBy,
            Old!history
<1>1. Old!OldInit => CooldownExplained
  BY DEF Old!OldInit, Old!ConstantsFit
<1>2. OldTyped /\ CooldownExplained /\ [Old!OldNext]_(Old!oldVars) => CooldownExplained'
  <2> SUFFICES ASSUME OldTyped, CooldownExplained, [Old!OldNext]_(Old!oldVars)
               PROVE  CooldownExplained'
    OBVIOUS
  <2>0. /\ \A t \in Requests : t \notin OldConfirms /\ t \notin SignIns /\ t # NoToken
        /\ \A t \in OldConfirms : t \notin SignIns
    BY DEF Old!ConstantsFit
  <2> USE DEF OldTyped, Old!OldTypeOK, OldInformed
  <2>a. CooldownSteps[1] \in Nat
    BY CooldownLeast
  <2>b. ASSUME NEW c \in Requests \cup OldConfirms \cup SignIns,
               stage[c] # "idle" \/ c \notin Requests, stage'[c] # "selected",
               stage'[c] # "idle" \/ c \notin Requests,
               \A t \in (Requests \cup OldConfirms \cup SignIns) \ {c} : stage'[t] = stage[t],
               UNCHANGED <<link, cooldownUntil, at, minted, overlapped>>
        PROVE  CooldownExplained'
    BY <2>b, <2>0
  <2>1. ASSUME NEW r \in Requests, Old!RequestSelect(r) PROVE CooldownExplained'
    <3>1. /\ \A q \in Requests \ {r} : at'[q] = at[q] /\ stage'[q] = stage[q]
          /\ at'[r] = tick /\ stage[r] = "idle"
          /\ UNCHANGED <<link, cooldownUntil, minted, overlapped>>
      BY <2>1 DEF Old!RequestSelect
    <3>2. stage'[r] = "selected" => cooldownUntil <= tick
      <4>1. CASE link = NoToken
        BY <4>1
      <4>2. CASE link # NoToken
        BY <2>1, <4>2 DEF Old!RequestSelect, Old!Refused
      <4> QED
        BY <4>1, <4>2
    <3>3. r \notin minted
      BY <3>1
    <3> QED
      BY <3>1, <3>2, <3>3
  <2>2. ASSUME NEW r \in Requests, Old!RequestCommit(r) PROVE CooldownExplained'
    <3> DEFINE n == Old!NextCount(got[r], at[r])
    <3>1. n \in Nat \ {0}
      BY LimitsFit
    <3> HIDE DEF n
    <3>2. Old!Cooldown(n) \in Nat /\ CooldownSteps[1] <= Old!Cooldown(n)
      BY <3>1, CooldownLeast
    <3>3. stage[r] = "selected" /\ at' = at
      BY <2>2 DEF Old!RequestCommit
    <3>4. CASE Old!To(r, "failed") /\ UNCHANGED <<Old!linkRow, minted, overlapped>>
      BY <2>b, <3>3, <3>4
    <3>5. CASE /\ link' = r /\ cooldownUntil' = at[r] + Old!Cooldown(n)
               /\ minted' = minted \cup {r} /\ Old!To(r, "mailing")
               /\ overlapped' = overlapped \cup (Old!Reading \ {r})
      <4>1. r \notin minted /\ at[r] \in Nat /\ \A q \in minted : at[q] \in Nat
        BY <3>3
      <4>2. \A q \in minted' : stage'[q] \notin {"idle", "selected"}
        BY <3>3, <3>5
      <4>3. ASSUME overlapped' = {}
            PROVE  /\ \A q \in minted : at[q] + CooldownSteps[1] <= at[r]
                   /\ \A q \in Requests : stage'[q] # "selected"
        <5>1. overlapped = {} /\ Old!Reading \subseteq {r} /\ r \in Old!Reading
          BY <4>3, <3>3, <3>5
        <5>2. /\ cooldownUntil <= at[r]
              /\ \A q \in minted : at[q] + CooldownSteps[1] <= cooldownUntil
          BY <5>1
        <5> QED
          BY <5>1, <5>2, <4>1, <2>a, <3>5
      <4>4. overlapped' = {} => \A q \in minted' : at'[q] + CooldownSteps[1] <= cooldownUntil'
        BY <4>1, <4>3, <3>2, <3>3, <3>5, <2>a
      <4>5. Old!CooldownKept'
        BY <4>1, <4>3, <3>3, <3>5
      <4>6. link' # NoToken
        BY <2>0, <3>5
      <4> QED
        BY <4>2, <4>3, <4>4, <4>5, <4>6
    <3> QED
      BY <2>2, <3>4, <3>5 DEF Old!RequestCommit, n
  <2>3. ASSUME NEW r \in Requests, Old!RequestMail(r) PROVE CooldownExplained'
    BY <2>b, <2>3 DEF Old!RequestMail
  <2>4. ASSUME NEW c \in OldConfirms, Old!Confirm(c) PROVE CooldownExplained'
    <3>1. /\ stage'[c] \notin {"selected", "idle"}
          /\ \A t \in (Requests \cup OldConfirms \cup SignIns) \ {c} : stage'[t] = stage[t]
          /\ UNCHANGED <<link, cooldownUntil, at, minted, overlapped>>
      <4>1. CASE Old!ConfirmSelect(c)
        BY <4>1 DEF Old!ConfirmSelect
      <4>2. CASE Old!ConfirmPassword(c)
        BY <4>2 DEF Old!ConfirmPassword
      <4>3. CASE Old!ConfirmMark(c)
        BY <4>3 DEF Old!ConfirmMark
      <4>4. CASE Old!ConfirmSessions(c)
        BY <4>4 DEF Old!ConfirmSessions
      <4> QED
        BY <2>4, <4>1, <4>2, <4>3, <4>4 DEF Old!Confirm
    <3> QED
      BY <2>0, <2>b, <3>1
  <2>5. ASSUME NEW s \in SignIns, Old!SignInVerify(s) \/ Old!SignInOpen(s)
        PROVE  CooldownExplained'
    BY <2>0, <2>b, <2>5 DEF Old!SignInVerify, Old!SignInOpen
  <2>6. CASE Old!Tick
    BY <2>6 DEF Old!Tick
  <2>7. ASSUME NEW t \in Requests \cup OldConfirms, Old!OldDie(t) PROVE CooldownExplained'
    BY <2>b, <2>7 DEF Old!OldDie
  <2>8. CASE UNCHANGED Old!oldVars
    BY <2>8 DEF Old!oldVars
  <2> QED
    BY <2>1, <2>2, <2>3, <2>4, <2>5, <2>6, <2>7, <2>8 DEF Old!OldNext, Old!Request, Old!SignIn
<1>3. CooldownExplained => Old!CooldownKept
  OBVIOUS
<1> QED
  BY <1>1, <1>2, <1>3, OldTypedAlways, PTL DEF Old!OldSpec

-----------------------------------------------------------------------------
(* The daily maximum.                                                      *)

\* A time is within its day, the days being DayLength long.
LEMMA Days ==
    ASSUME DayLength \in Nat \ {0}, NEW a \in Nat
    PROVE  /\ a \div DayLength \in Nat
           /\ (a \div DayLength) * DayLength <= a
           /\ a < (a \div DayLength) * DayLength + DayLength
<1>1. a \div DayLength \in Nat
  OBVIOUS
<1>2. a % DayLength \in 0..(DayLength - 1)
  OBVIOUS
<1>3. a = DayLength * (a \div DayLength) + (a % DayLength)
  OBVIOUS
<1> QED
  BY <1>1, <1>2, <1>3

\* Multiples of d are d apart.
LEMMA Multiples ==
    ASSUME NEW k \in Nat, NEW m \in Nat, NEW d \in Nat, m < k
    PROVE  m * d + d <= k * d
<1>1. PICK e \in Nat : k = m + 1 + e
  <2>1. k - m - 1 \in Nat /\ k = m + 1 + (k - m - 1)
    OBVIOUS
  <2> QED
    BY <2>1
<1>2. k * d = m * d + d + e * d
  BY <1>1
<1>3. e * d \in Nat /\ m * d \in Nat
  OBVIOUS
<1> QED
  BY <1>2, <1>3

\* The midnight after a time is after it, and the same for all times before it.
LEMMA MidnightFollows ==
    ASSUME DayLength \in Nat \ {0}, NEW a \in Nat, NEW b \in Nat
    PROVE  /\ Old!Midnight(a) \in Nat /\ a < Old!Midnight(a)
           /\ a <= b /\ b < Old!Midnight(a) => Old!Midnight(b) = Old!Midnight(a)
<1> DEFINE m == a \div DayLength
           n == b \div DayLength
<1>1. /\ m \in Nat /\ m * DayLength <= a /\ a < m * DayLength + DayLength
      /\ n \in Nat /\ n * DayLength <= b /\ b < n * DayLength + DayLength
  BY Days
<1>2. Old!Midnight(a) = (m + 1) * DayLength /\ Old!Midnight(b) = (n + 1) * DayLength
  BY DEF Old!Midnight
<1> HIDE DEF m, n
<1>3. (m + 1) * DayLength = m * DayLength + DayLength
  BY <1>1
<1>4. m * DayLength \in Nat /\ n * DayLength \in Nat
  BY <1>1
<1>5. ASSUME a <= b, b < m * DayLength + DayLength PROVE m = n
  <2>1. CASE m < n
    <3>1. m * DayLength + DayLength <= n * DayLength
      BY <2>1, <1>1, Multiples
    <3> QED
      BY <3>1, <1>1, <1>4, <1>5
  <2>2. CASE n < m
    <3>1. n * DayLength + DayLength <= m * DayLength
      BY <2>2, <1>1, Multiples
    <3> QED
      BY <3>1, <1>1, <1>4, <1>5
  <2> QED
    BY <2>1, <2>2, <1>1
<1> QED
  BY <1>1, <1>2, <1>3, <1>4, <1>5

\* The links that were minted in the day that ends at a midnight.
MintedUntil(midnight) == {q \in minted : Old!Midnight(at[q]) = midnight}

\* Without an overlap the row's count covers the links of its day, which is the last
\* day of any, and a request under way has loaded the row as it is.
DayExplained ==
    /\ IsFiniteSet(minted)
    /\ link = NoToken => minted = {} /\ count = 0 /\ windowEnd = 0
    /\ \A q \in minted : stage[q] \notin {"idle", "selected"}
    /\ \A r \in Requests : at[r] <= tick
    /\ overlapped = {} =>
         /\ \A q \in minted : Old!Midnight(at[q]) <= windowEnd
         /\ link # NoToken => \E q \in minted : windowEnd = Old!Midnight(at[q])
         /\ Cardinality(MintedUntil(windowEnd)) <= count
         /\ \A midnight \in Nat : Cardinality(MintedUntil(midnight)) <= MaxPerDay
         /\ \A r \in Old!Reading : /\ got[r].count = count /\ got[r].window = windowEnd
                               /\ \A q \in minted : at[q] <= at[r]

\* What a commit without an overlap does to the counts.
LEMMA CommitCounts ==
    ASSUME Old!ConstantsFit, OldTyped, DayExplained, NEW r \in Requests, stage[r] = "selected",
           overlapped = {}, NEW n, n = Old!NextCount(got[r], at[r]),
           NEW w, w = Old!NextWindow(got[r], at[r])
    PROVE  LET until(midnight) == {q \in minted \cup {r} : Old!Midnight(at[q]) = midnight}
           IN  /\ \A q \in minted \cup {r} : Old!Midnight(at[q]) <= w
               /\ \E q \in minted \cup {r} : w = Old!Midnight(at[q])
               /\ Cardinality(until(w)) <= n
               /\ \A midnight \in Nat : Cardinality(until(midnight)) <= MaxPerDay
<1> DEFINE until(midnight) == {q \in minted \cup {r} : Old!Midnight(at[q]) = midnight}
<1>0. /\ DayLength \in Nat \ {0} /\ MaxPerDay \in Nat \ {0}
      /\ \A q \in Requests : at[q] \in Nat
      /\ minted \subseteq Requests /\ windowEnd \in Nat /\ count \in Nat
  BY DEF Old!ConstantsFit, OldTyped, Old!OldTypeOK
<1>1. /\ \A q \in Requests : Old!Midnight(at[q]) \in Nat /\ at[q] < Old!Midnight(at[q])
      /\ \A q, p \in Requests :
           at[q] <= at[p] /\ at[p] < Old!Midnight(at[q]) =>
             Old!Midnight(at[p]) = Old!Midnight(at[q])
  BY <1>0, MidnightFollows
<1>2. /\ got[r].count = count /\ got[r].window = windowEnd
      /\ \A q \in minted : at[q] <= at[r]
      /\ \A q \in minted : Old!Midnight(at[q]) <= windowEnd
      /\ n <= MaxPerDay /\ r \notin minted
  BY DEF DayExplained, Old!Reading, OldTyped, OldInformed
<1>3. /\ n = IF windowEnd > at[r] THEN count + 1 ELSE 1
      /\ w = IF windowEnd > at[r] THEN windowEnd ELSE Old!Midnight(at[r])
  BY <1>2 DEF Old!NextCount, Old!NextWindow
<1>4. Old!Midnight(at[r]) = w
  <2>1. CASE windowEnd > at[r]
    <3>1. link # NoToken
      BY <2>1, <1>0 DEF DayExplained
    <3>2. PICK q \in minted : windowEnd = Old!Midnight(at[q])
      BY <3>1 DEF DayExplained
    <3> QED
      BY <2>1, <3>2, <1>0, <1>1, <1>2, <1>3
  <2>2. CASE ~(windowEnd > at[r])
    BY <2>2, <1>3
  <2> QED
    BY <2>1, <2>2
<1>5. \A q \in minted \cup {r} : Old!Midnight(at[q]) <= w
  <2>1. windowEnd <= w
    <3>1. CASE windowEnd > at[r]
      BY <3>1, <1>0, <1>3
    <3>2. CASE ~(windowEnd > at[r])
      BY <3>2, <1>0, <1>1, <1>3
    <3> QED
      BY <3>1, <3>2
  <2>2. ASSUME NEW q \in minted PROVE Old!Midnight(at[q]) <= w
    <3>1. /\ Old!Midnight(at[q]) \in Nat /\ windowEnd \in Nat /\ w \in Nat
          /\ Old!Midnight(at[q]) <= windowEnd
      BY <1>0, <1>1, <1>2, <1>4
    <3> QED
      BY <3>1, <2>1
  <2>3. w \in Nat /\ Old!Midnight(at[r]) <= w
    BY <1>1, <1>4
  <2> QED
    BY <2>2, <2>3
<1>6. \A midnight \in Nat : /\ IsFiniteSet(MintedUntil(midnight))
                            /\ Cardinality(MintedUntil(midnight)) \in Nat
                            /\ Cardinality(MintedUntil(midnight)) <= MaxPerDay
  <2>1. ASSUME NEW midnight \in Nat PROVE IsFiniteSet(MintedUntil(midnight))
    BY FS_Subset DEF DayExplained, MintedUntil
  <2> QED
    BY <2>1, FS_CardinalityType DEF DayExplained
<1>7. Cardinality(until(w)) <= n
  <2>1. CASE windowEnd > at[r]
    <3>1. w = windowEnd /\ n = count + 1 /\ until(w) = MintedUntil(windowEnd) \cup {r}
      BY <2>1, <1>3, <1>4 DEF MintedUntil
    <3>2. Cardinality(MintedUntil(windowEnd)) <= count
      BY DEF DayExplained
    <3>3. r \notin MintedUntil(windowEnd)
      BY <1>2 DEF MintedUntil
    <3>4. Cardinality(until(w)) = Cardinality(MintedUntil(windowEnd)) + 1
      BY <3>1, <3>3, <1>0, <1>6, FS_AddElement
    <3> HIDE DEF until
    <3> QED
      BY <3>1, <3>2, <3>4, <1>0, <1>6
  <2>2. CASE ~(windowEnd > at[r])
    <3>1. ASSUME NEW q \in minted PROVE Old!Midnight(at[q]) # w
      <4>1. /\ Old!Midnight(at[q]) \in Nat /\ windowEnd \in Nat /\ at[r] \in Nat
            /\ Old!Midnight(at[q]) <= windowEnd
        BY <1>0, <1>1, <1>2
      <4>2. w = Old!Midnight(at[r]) /\ at[r] < Old!Midnight(at[r]) /\ Old!Midnight(at[r]) \in Nat
        BY <2>2, <1>1, <1>3
      <4> QED
        BY <2>2, <4>1, <4>2
    <3>2. until(w) = {r} /\ n = 1
      BY <2>2, <3>1, <1>3, <1>4
    <3> QED
      BY <3>2, FS_Singleton
  <2> QED
    BY <2>1, <2>2
<1>8. ASSUME NEW midnight \in Nat PROVE Cardinality(until(midnight)) <= MaxPerDay
  <2>1. CASE midnight = w
    <3>1. n \in Nat /\ w \in Nat
      BY <1>0, <1>1, <1>3
    <3>2. Cardinality(until(w)) \in Nat
      <4>1. IsFiniteSet(minted \cup {r})
        BY FS_AddElement DEF DayExplained
      <4>2. until(w) \in SUBSET (minted \cup {r})
        OBVIOUS
      <4> QED
        BY <4>1, <4>2, FS_Subset, FS_CardinalityType
    <3> HIDE DEF until
    <3> QED
      BY <2>1, <3>1, <3>2, <1>0, <1>2, <1>7
  <2>2. CASE midnight # w
    <3>1. until(midnight) = MintedUntil(midnight)
      BY <2>2, <1>4 DEF MintedUntil
    <3> QED
      BY <3>1, <1>6
  <2> QED
    BY <2>1, <2>2
<1> QED
  BY <1>4, <1>5, <1>7, <1>8

\* The instance counts as FiniteSets does.
LEMMA SameCount == \A S : Old!Cardinality(S) = Cardinality(S)
BY DEF Old!Cardinality, Cardinality

\* The cooldown and the daily maximum hold unless two requests overlap.
THEOREM RateIsKept == ASSUME Old!ConstantsFit PROVE Old!OldSpec => []Old!RateKept
<1> USE DEF Old!To, Old!linkRow, Old!signins, Old!account, Old!carriedBy, Old!history
<1>1. Old!OldInit => DayExplained
  <2> SUFFICES ASSUME Old!OldInit PROVE DayExplained
    OBVIOUS
  <2>1. minted = {} /\ \A midnight : MintedUntil(midnight) = {}
    BY DEF Old!OldInit, MintedUntil
  <2>2. Old!Reading = {}
    BY DEF Old!OldInit, Old!Reading, Old!ConstantsFit
  <2>3. 0 <= MaxPerDay
    BY DEF Old!ConstantsFit
  <2>4. /\ link = NoToken /\ count = 0 /\ windowEnd = 0
        /\ \A r \in Requests : at[r] <= tick
    BY DEF Old!OldInit
  <2> QED
    BY <2>1, <2>2, <2>3, <2>4, FS_EmptySet DEF DayExplained
<1>2. OldTyped /\ DayExplained /\ [Old!OldNext]_(Old!oldVars) => DayExplained'
  <2> SUFFICES ASSUME OldTyped, DayExplained, [Old!OldNext]_(Old!oldVars) PROVE DayExplained'
    OBVIOUS
  <2>0. /\ \A t \in Requests : t \notin OldConfirms /\ t \notin SignIns /\ t # NoToken
        /\ \A t \in OldConfirms : t \notin SignIns
    BY DEF Old!ConstantsFit
  <2> USE DEF OldTyped, Old!OldTypeOK
  <2>a. ASSUME UNCHANGED <<tick, link, count, windowEnd, at, got, minted, overlapped>>,
               \A r \in Requests : \/ stage'[r] = stage[r]
                                   \/ stage[r] # "idle" /\ stage'[r] \notin {"idle", "selected"}
        PROVE  DayExplained'
    <3>1. Old!Reading' \subseteq Old!Reading
      BY <2>a DEF Old!Reading
    <3>2. \A midnight : MintedUntil(midnight)' = MintedUntil(midnight)
      BY <2>a DEF MintedUntil
    <3> QED
      BY <2>a, <3>1, <3>2 DEF DayExplained
  <2>1. ASSUME NEW r \in Requests, Old!RequestSelect(r) PROVE DayExplained'
    <3>1. /\ \A q \in Requests \ {r} : at'[q] = at[q] /\ got'[q] = got[q] /\ stage'[q] = stage[q]
          /\ at'[r] = tick /\ stage[r] = "idle"
          /\ UNCHANGED <<tick, link, count, windowEnd, minted, overlapped>>
      BY <2>1 DEF Old!RequestSelect
    <3>2. link = NoToken => count = 0 /\ windowEnd = 0
      BY DEF DayExplained
    <3>3. got'[r].count = count /\ got'[r].window = windowEnd
      BY <2>1, <3>2 DEF Old!RequestSelect, Old!NoRow
    <3>4. r \notin minted
      BY <3>1 DEF DayExplained
    <3>5. Old!Reading' \subseteq Old!Reading \cup {r}
      BY <3>1 DEF Old!Reading
    <3>6. \A midnight : MintedUntil(midnight)' = MintedUntil(midnight)
      BY <3>1, <3>4 DEF MintedUntil
    <3>7. \A q \in minted : at'[q] = at[q] /\ stage'[q] = stage[q]
      BY <3>1, <3>4
    <3>8. \A q \in Requests : at'[q] <= tick'
      BY <3>1 DEF DayExplained
    <3>9. ASSUME overlapped = {}, NEW q \in Old!Reading'
          PROVE  /\ got'[q].count = count /\ got'[q].window = windowEnd
                 /\ \A p \in minted : at[p] <= at'[q]
      <4>1. CASE q = r
        BY <4>1, <3>1, <3>3 DEF DayExplained
      <4>2. CASE q # r
        <5>1. q \in Old!Reading /\ at'[q] = at[q] /\ got'[q] = got[q]
          BY <4>2, <3>1, <3>5 DEF Old!Reading
        <5> QED
          BY <5>1, <3>9 DEF DayExplained
      <4> QED
        BY <4>1, <4>2
    <3>10. \A q \in minted : Old!Midnight(at[q])' = Old!Midnight(at[q])
      BY <3>7 DEF Old!Midnight
    <3> QED
      BY <3>1, <3>6, <3>7, <3>8, <3>9, <3>10 DEF DayExplained
  <2>2. ASSUME NEW r \in Requests, Old!RequestCommit(r) PROVE DayExplained'
    <3> DEFINE n == Old!NextCount(got[r], at[r])
               w == Old!NextWindow(got[r], at[r])
    <3>1. stage[r] = "selected" /\ UNCHANGED <<tick, at, got>>
      BY <2>2 DEF Old!RequestCommit
    <3>2. CASE Old!To(r, "failed") /\ UNCHANGED <<Old!linkRow, minted, overlapped>>
      BY <2>a, <3>1, <3>2
    <3>3. CASE /\ link' = r /\ count' = Old!Written(n, got[r].count, count)
               /\ windowEnd' = Old!Written(w, got[r].window, windowEnd)
               /\ minted' = minted \cup {r} /\ Old!To(r, "mailing")
               /\ overlapped' = overlapped \cup (Old!Reading \ {r})
      <4>1. IsFiniteSet(minted')
        BY <3>3, FS_AddElement DEF DayExplained
      <4>2. link' # NoToken
        BY <2>0, <3>3
      <4>3. \A q \in minted' : stage'[q] \notin {"idle", "selected"}
        BY <3>1, <3>3 DEF DayExplained
      <4>4. \A q \in Requests : at'[q] <= tick'
        BY <3>1 DEF DayExplained
      <4>5. ASSUME overlapped' = {}
            PROVE  /\ \A q \in minted' : Old!Midnight(at[q])' <= windowEnd'
                   /\ \E q \in minted' : windowEnd' = Old!Midnight(at[q])'
                   /\ Cardinality(MintedUntil(windowEnd)') <= count'
                   /\ \A midnight \in Nat : Cardinality(MintedUntil(midnight)') <= MaxPerDay
                   /\ Old!Reading' = {}
        <5>1. overlapped = {} /\ Old!Reading = {r}
          BY <4>5, <3>1, <3>3 DEF Old!Reading
        <5>2. got[r].count = count /\ got[r].window = windowEnd
          BY <5>1 DEF DayExplained
        <5>3. count' = n /\ windowEnd' = w
          BY <5>2, <3>3 DEF Old!Written
        <5>4. Old!Reading' = {}
          BY <5>1, <3>1, <3>3 DEF Old!Reading
        <5>5. \A midnight :
                MintedUntil(midnight)' = {q \in minted \cup {r} : Old!Midnight(at[q]) = midnight}
          BY <3>1, <3>3 DEF MintedUntil
        <5> HIDE DEF n, w
        <5>6. /\ \A q \in minted \cup {r} : Old!Midnight(at[q]) <= w
              /\ \E q \in minted \cup {r} : w = Old!Midnight(at[q])
              /\ Cardinality({q \in minted \cup {r} : Old!Midnight(at[q]) = w}) <= n
              /\ \A midnight \in Nat :
                   Cardinality({q \in minted \cup {r} : Old!Midnight(at[q]) = midnight})
                     <= MaxPerDay
          BY <5>1, <3>1, CommitCounts DEF n, w
        <5> QED
          BY <5>3, <5>4, <5>5, <5>6, <3>1, <3>3
      <4> QED
        BY <4>1, <4>2, <4>3, <4>4, <4>5 DEF DayExplained
    <3> QED
      BY <2>2, <3>2, <3>3 DEF Old!RequestCommit
  <2>3. ASSUME NEW r \in Requests, Old!RequestMail(r) PROVE DayExplained'
    BY <2>a, <2>3 DEF Old!RequestMail
  <2>4. ASSUME NEW c \in OldConfirms, Old!Confirm(c) PROVE DayExplained'
    <3>1. /\ \A r \in Requests : stage'[r] = stage[r]
          /\ UNCHANGED <<tick, link, count, windowEnd, at, got, minted, overlapped>>
      <4>1. CASE Old!ConfirmSelect(c)
        BY <2>0, <4>1 DEF Old!ConfirmSelect
      <4>2. CASE Old!ConfirmPassword(c)
        BY <2>0, <4>2 DEF Old!ConfirmPassword
      <4>3. CASE Old!ConfirmMark(c)
        BY <2>0, <4>3 DEF Old!ConfirmMark
      <4>4. CASE Old!ConfirmSessions(c)
        BY <2>0, <4>4 DEF Old!ConfirmSessions
      <4> QED
        BY <2>4, <4>1, <4>2, <4>3, <4>4 DEF Old!Confirm
    <3> QED
      BY <2>a, <3>1
  <2>5. ASSUME NEW s \in SignIns, Old!SignInVerify(s) \/ Old!SignInOpen(s) PROVE DayExplained'
    BY <2>0, <2>a, <2>5 DEF Old!SignInVerify, Old!SignInOpen
  <2>6. CASE Old!Tick
    <3>1. \A midnight : MintedUntil(midnight)' = MintedUntil(midnight)
      BY <2>6 DEF Old!Tick, MintedUntil
    <3>2. \A q \in Requests : at[q] <= tick + 1
      BY DEF DayExplained
    <3> QED
      BY <2>6, <3>1, <3>2 DEF Old!Tick, DayExplained, Old!Reading
  <2>7. ASSUME NEW t \in Requests \cup OldConfirms, Old!OldDie(t) PROVE DayExplained'
    BY <2>0, <2>a, <2>7 DEF Old!OldDie
  <2>8. CASE UNCHANGED Old!oldVars
    BY <2>a, <2>8 DEF Old!oldVars
  <2> QED
    BY <2>1, <2>2, <2>3, <2>4, <2>5, <2>6, <2>7, <2>8 DEF Old!OldNext, Old!Request, Old!SignIn
<1>3. OldTyped /\ Old!CooldownKept /\ DayExplained => Old!RateKept
  <2> SUFFICES ASSUME OldTyped, DayExplained, overlapped = {},
                      NEW day \in 0..(Horizon \div DayLength)
               PROVE  Cardinality({r \in minted : at[r] \div DayLength = day}) <= MaxPerDay
    BY SameCount DEF Old!RateKept
  <2> DEFINE midnight == (day + 1) * DayLength
             ofDay == {r \in minted : at[r] \div DayLength = day}
  <2>1. midnight \in Nat
    <3>1. day \in Nat /\ DayLength \in Nat
      BY DEF Old!ConstantsFit
    <3> QED
      BY <3>1
  <2>2. ofDay \in SUBSET MintedUntil(midnight)
    BY DEF MintedUntil, Old!Midnight
  <2> HIDE DEF midnight, ofDay
  <2>3. IsFiniteSet(MintedUntil(midnight))
    BY FS_Subset DEF DayExplained, MintedUntil
  <2>4. Cardinality(MintedUntil(midnight)) <= MaxPerDay
    BY <2>1 DEF DayExplained
  <2>5. /\ Cardinality(ofDay) <= Cardinality(MintedUntil(midnight))
        /\ Cardinality(ofDay) \in Nat /\ Cardinality(MintedUntil(midnight)) \in Nat
    BY <2>2, <2>3, FS_Subset, FS_CardinalityType
  <2> QED
    BY <2>4, <2>5 DEF ofDay, Old!ConstantsFit
<1> QED
  BY <1>1, <1>2, <1>3, OldTypedAlways, LinksApart, PTL DEF Old!OldSpec

-----------------------------------------------------------------------------
(* Both trees: each takes its own steps.                                   *)

\* A behaviour of either tree is one of the app's row.
LEMMA AppSteps == TreesSpec => Spec
<1>1. [TreesNext]_<<part, vars, oldVars>> => [Next]_vars
  BY DEF TreesNext, vars
<1> QED
  BY <1>1, PTL DEF TreesSpec, TreesInit, Spec

\* A behaviour of either tree is one of the old tree's row.
LEMMA OldSteps == TreesSpec => Old!OldSpec
<1>1. [TreesNext]_<<part, vars, oldVars>> => [Old!OldNext]_(Old!oldVars)
  BY DEF TreesNext, oldVars, Old!oldVars, Old!linkRow, Old!account, Old!signins,
         Old!carriedBy, Old!history
<1> QED
  BY <1>1, PTL DEF TreesSpec, TreesInit, Old!OldSpec

\* The app's links, as they are checked next to those of the old tree: a link is dead
\* without use only by an overlap, and one that has reset the password stays spent.
THEOREM AppLinks == TreesSpec => []LinkGood /\ SpentStaysSpent
BY AppSteps, LinksGood, SpentRejected, PTL

\* Without an overlap two links of the old tree are a cooldown apart, and no day sees
\* more of them than the daily maximum.
THEOREM OldRate == TreesSpec => []RateKept
<1>1. Old!RateKept => RateKept
  BY DEF RateKept
<1> QED
  BY <1>1, OldSteps, RateIsKept, OldConstantsFit, PTL

\* A link of the old tree resets the password a second time only in the gap between the
\* two commits of a confirmation.
THEOREM OldSpent == TreesSpec => OldSpentOnce
<1>1. TreesSpec => Old!OldSpentOnce
  BY OldSteps, OldLinksSpentOnce, OldConstantsFit, PTL
<1> QED
  BY <1>1 DEF OldSpentOnce

\* The old tree's types, its links that are dead without use, and the sessions that a
\* confirmation ends.
THEOREM OldResets == TreesSpec => []OldResetSound
<1>1. Old!OldTypeOK /\ Old!OldLinkGood /\ Old!SessionsFollowPassword => OldResetSound
  BY DEF OldResetSound
<1> QED
  BY <1>1, OldSteps, OldTypeCorrect, OldLinksGood, PasswordEndsSessions, OldConstantsFit, PTL
=============================================================================
