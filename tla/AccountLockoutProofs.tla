------------------------ MODULE AccountLockoutProofs ------------------------
(***************************************************************************)
(* Theorems about AccountLockout, for any number of concurrent attempts,   *)
(* any of which may die, and any four durations that do not decrease.      *)
(***************************************************************************)
EXTENDS AccountLockout, TLAPS

\* A duration is a natural number, whatever the count.
LEMMA DurationType == \A n \in Nat : GetLockoutDuration(n) \in Nat
  BY LockoutsAssumption DEF GetLockoutDuration

\* The count stays within its cap and does not fall.
LEMMA OneMoreType ==
    \A n \in 0..MaxFailed : /\ OneMore(n) \in 0..MaxFailed
                            /\ OneMore(n) >= n
  BY DEF OneMore, MaxFailed

\* Every variable keeps its type, and a lock that stands is in the row
\* (authenticate_email_user).
THEOREM TypeCorrect == Spec => []TypeOK
<1> USE DEF TypeOK
<1>1. Init => TypeOK
  BY DEF Init, MaxFailed
<1>2. TypeOK /\ [Next]_vars => TypeOK'
  <2> SUFFICES ASSUME TypeOK, [Next]_vars PROVE TypeOK'
    OBVIOUS
  <2>1. ASSUME NEW a \in Attempts, WrongPassword(a) PROVE TypeOK'
    <3>1. OneMore(failed) \in Nat
      BY OneMoreType DEF MaxFailed
    <3> QED
      BY <2>1, <3>1, DurationType DEF WrongPassword, Read, row
  <2>2. ASSUME NEW a \in Attempts, RightPassword(a) PROVE TypeOK'
    BY <2>2 DEF RightPassword, Read, row
  <2>3. ASSUME NEW a \in Attempts, CommitFailure(a) PROVE TypeOK'
    <3>1. OneMore(loaded[a]) \in 0..MaxFailed /\ GetLockoutDuration(OneMore(loaded[a])) \in Nat
      BY OneMoreType, DurationType DEF MaxFailed
    <3> QED
      BY <2>3, <3>1 DEF CommitFailure, Answer, Underway, MaxFailed
  <2>4. ASSUME NEW a \in Attempts, CommitSuccess(a) PROVE TypeOK'
    BY <2>4 DEF CommitSuccess, Answer, Underway, MaxFailed
  <2>5. ASSUME NEW a \in Attempts, Die(a) PROVE TypeOK'
    BY <2>5 DEF Die, Answer, row, MaxFailed
  <2>6. CASE Tick
    BY <2>6 DEF Tick, Less
  <2>7. CASE UNCHANGED vars
    BY <2>7 DEF vars, row
  <2> QED
    BY <2>1, <2>2, <2>3, <2>4, <2>5, <2>6, <2>7 DEF Next, Commit
<1> QED
  BY <1>1, <1>2, PTL DEF Spec

-----------------------------------------------------------------------------
\* While the account is locked, only attempts that were under way when the
\* lock was written are still under way (the check of lockdown_left_seconds).
THEOREM LockShuts == Spec => []LockShutsOut
<1> USE DEF TypeOK, LockShutsOut, Underway
<1>1. Init => LockShutsOut
  BY DEF Init
<1>2. TypeOK /\ LockShutsOut /\ [Next]_vars => LockShutsOut'
  <2> SUFFICES ASSUME TypeOK, LockShutsOut, [Next]_vars PROVE LockShutsOut'
    OBVIOUS
  <2>1. ASSUME NEW a \in Attempts, WrongPassword(a) \/ RightPassword(a)
        PROVE  LockShutsOut'
    BY <2>1 DEF WrongPassword, RightPassword, Read, row
  <2>2. ASSUME NEW a \in Attempts, Commit(a) \/ Die(a) PROVE LockShutsOut'
    BY <2>2 DEF Commit, CommitFailure, CommitSuccess, Die, Answer, row
  <2>3. CASE Tick
    BY <2>3 DEF Tick, Less
  <2>4. CASE UNCHANGED vars
    BY <2>4 DEF vars, row
  <2> QED
    BY <2>1, <2>2, <2>3, <2>4 DEF Next
<1> QED
  BY <1>1, <1>2, TypeCorrect, PTL DEF Spec

-----------------------------------------------------------------------------
\* No interleaving of failures takes the count below what the slowest of them
\* had read; only the commit of a login with the right password does.
THEOREM CountKept == Spec => CountHolds
<1> USE DEF TypeOK, AtLeast
<1>1. ASSUME TypeOK, [Next]_vars, NEW n \in 0..MaxFailed, AtLeast(n),
             ~\E a \in Attempts : pc[a] = "passing" /\ pc'[a] = "idle"
      PROVE  AtLeast(n)'
  <2>1. ASSUME NEW a \in Attempts, WrongPassword(a) \/ RightPassword(a)
        PROVE  AtLeast(n)'
    BY <1>1, <2>1 DEF WrongPassword, RightPassword, Read, row
  <2>2. ASSUME NEW a \in Attempts, CommitFailure(a) PROVE AtLeast(n)'
    BY <1>1, <2>2, OneMoreType DEF CommitFailure, Answer, MaxFailed
  <2>3. ASSUME NEW a \in Attempts, CommitSuccess(a) PROVE AtLeast(n)'
    BY <1>1, <2>3 DEF CommitSuccess, Answer
  <2>4. ASSUME NEW a \in Attempts, Die(a) PROVE AtLeast(n)'
    BY <1>1, <2>4 DEF Die, Answer, row
  <2>5. CASE Tick
    BY <1>1, <2>5 DEF Tick
  <2>6. CASE UNCHANGED vars
    BY <1>1, <2>6 DEF vars, row
  <2> QED
    BY <1>1, <2>1, <2>2, <2>3, <2>4, <2>5, <2>6 DEF Next, Commit
<1>2. TypeOK /\ [Next]_vars =>
        [\A n \in 0..MaxFailed : AtLeast(n) =>
            AtLeast(n)' \/ \E a \in Attempts : pc[a] = "passing" /\ pc'[a] = "idle"]_vars
  BY <1>1
<1> QED
  BY <1>2, TypeCorrect, PTL DEF Spec, CountHolds

-----------------------------------------------------------------------------
(* Attempts that do not overlap.                                           *)

\* What an attempt that no other commit has overtaken knows of the row.
Current ==
    \A a \in Underway \ stale :
        /\ loaded[a] = failed /\ marked[a] = column /\ left = 0
        /\ pc[a] = "failing" => until[a] <= GetLockoutDuration(OneMore(loaded[a]))

\* An attempt that no commit has overtaken holds what the row holds.
LEMMA CurrentInvariant == Spec => []Current
<1> USE DEF TypeOK, Current, Underway
<1>1. Init => Current
  BY DEF Init
<1>2. TypeOK /\ Current /\ [Next]_vars => Current'
  <2> SUFFICES ASSUME TypeOK, Current, [Next]_vars PROVE Current'
    OBVIOUS
  <2>0. OneMore(failed) \in Nat /\ \A a \in Attempts : OneMore(loaded[a]) \in Nat
    BY OneMoreType DEF MaxFailed
  <2>1. ASSUME NEW a \in Attempts, WrongPassword(a) PROVE Current'
    BY <2>0, <2>1, DurationType DEF WrongPassword, Read, row
  <2>2. ASSUME NEW a \in Attempts, RightPassword(a) PROVE Current'
    BY <2>2 DEF RightPassword, Read, row
  <2>3. ASSUME NEW a \in Attempts, Commit(a) PROVE Current'
    BY <2>3 DEF Commit, CommitFailure, CommitSuccess, Answer
  <2>4. ASSUME NEW a \in Attempts, Die(a) PROVE Current'
    BY <2>4 DEF Die, Answer, row
  <2>5. CASE Tick
    BY <2>0, <2>5, DurationType DEF Tick, Less
  <2>6. CASE UNCHANGED vars
    BY <2>6 DEF vars, row
  <2> QED
    BY <2>1, <2>2, <2>3, <2>4, <2>5, <2>6 DEF Next
<1> QED
  BY <1>1, <1>2, TypeCorrect, PTL DEF Spec

\* The duration of a count is the lock that the abstract account earns with it.
LEMMA DurationEarned ==
    \A n \in 0..MaxFailed : /\ Policy!Earned(n, GetLockoutDuration(n))
                            /\ GetLockoutDuration(n) \in {0} \cup {Lockouts[i] : i \in 1..4}
  BY LockoutsAssumption DEF Policy!Earned, GetLockoutDuration, MaxFailed

\* Attempts that do not overlap implement the lockout policy: the commit of an
\* attempt that no other commit overtook is a step of the policy.
THEOREM PolicyFollowed == Spec => FollowsPolicy
<1> USE DEF TypeOK, Current, Underway
<1>1. Init => Policy!Init
  BY DEF Init, Policy!Init
<1>2. TypeOK /\ Current /\ [Next]_vars =>
        [Policy!Next \/ \E a \in stale : pc'[a] = "idle"]_<<failed, column, left>>
  <2> SUFFICES ASSUME TypeOK, Current, [Next]_vars,
                      ~\E a \in stale : pc'[a] = "idle"
               PROVE  [Policy!Next]_<<failed, column, left>>
    OBVIOUS
  <2>1. ASSUME NEW a \in Attempts, WrongPassword(a) \/ RightPassword(a) \/ Die(a)
        PROVE  UNCHANGED <<failed, column, left>>
    BY <2>1 DEF WrongPassword, RightPassword, Die, row
  <2>2. ASSUME NEW a \in Attempts, CommitFailure(a) PROVE Policy!Next
    <3>1. pc'[a] = "idle" /\ a \in Underway \ stale
      BY <2>2 DEF CommitFailure, Answer
    <3>2. left = 0 /\ failed' = OneMore(failed) /\ failed' \in 0..MaxFailed
      BY <2>2, <3>1, OneMoreType DEF CommitFailure
    <3>3. left' \in 0..GetLockoutDuration(failed')
      BY <2>2, <3>1, <3>2, DurationType DEF CommitFailure, MaxFailed
    <3>4. column' = IF GetLockoutDuration(failed') > 0 THEN GetLockoutDuration(failed')
                    ELSE column
      BY <2>2, <3>1, <3>2 DEF CommitFailure
    <3>5. Policy!Failure
      BY <3>2, <3>3, <3>4, DurationEarned DEF Policy!Failure, OneMore, MaxFailed
    <3> QED
      BY <3>5 DEF Policy!Next
  <2>3. ASSUME NEW a \in Attempts, CommitSuccess(a) PROVE Policy!Next
    <3>1. pc'[a] = "idle" /\ a \in Underway \ stale
      BY <2>3 DEF CommitSuccess, Answer
    <3> QED
      BY <2>3, <3>1 DEF CommitSuccess, Policy!Success, Policy!Next
  <2>4. CASE Tick
    BY <2>4 DEF Tick, Less, Policy!Tick, Policy!Next
  <2>5. CASE UNCHANGED vars
    BY <2>5 DEF vars, row
  <2> QED
    BY <2>1, <2>2, <2>3, <2>4, <2>5 DEF Next, Commit
<1> QED
  BY <1>1, <1>2, TypeCorrect, CurrentInvariant, PTL DEF Spec, FollowsPolicy
=============================================================================
