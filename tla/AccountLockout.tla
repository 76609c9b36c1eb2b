--------------------------- MODULE AccountLockout ---------------------------
(***************************************************************************)
(* The failed-login counter and the lock of one account                    *)
(* (authenticate_email_user in app/services/auth_service.py).  An attempt  *)
(* reads the user row and checks the password in one step and commits in   *)
(* another; any other attempt may run in between.  The commit writes the   *)
(* values computed from the row as LOADED, and only the columns they       *)
(* change.  A task that has been answered may be started again.            *)
(***************************************************************************)
EXTENDS Integers

CONSTANTS
    Attempts,     \* POST /login tasks for this account
    CrashProne,   \* those whose task may die before its commit
    Lockouts      \* 60 s, 5 min, 15 min and 1 h, in ticks of the clock

ASSUME LockoutsAssumption ==
    Lockouts \in [1..4 -> Nat \ {0}] /\ \A i \in 1..3 : Lockouts[i] <= Lockouts[i + 1]

VARIABLES
    failed,   \* failed_login_attempts
    left,     \* ticks until login_locked_until, 0 once it is past
    column,   \* login_locked_until itself: 0 for null, or the duration it was set with
    pc,       \* what each attempt is about to commit
    loaded,   \* failed_login_attempts as the attempt's SELECT saw it
    marked,   \* login_locked_until as the SELECT saw it
    until,    \* ticks until the lock the attempt is about to write is past
    stale     \* the attempts that another commit has overtaken since they read

row == <<failed, left, column>>
vars == <<row, pc, loaded, marked, until, stale>>

\* Bound: the count stops where nothing tells 20 failures from more.
MaxFailed == 20

\* Mutant: the second comparison includes the threshold.
GetLockoutDurationLate(n) ==
    IF n < 5 THEN 0
    ELSE IF n <= 8 THEN Lockouts[1]
    ELSE IF n < 10 THEN Lockouts[2]
    ELSE IF n < 20 THEN Lockouts[3] ELSE Lockouts[4]

GetLockoutDuration(n) ==
    IF n < 5 THEN 0
    ELSE IF n < 8 THEN Lockouts[1]
    ELSE IF n < 10 THEN Lockouts[2]
    ELSE IF n < 20 THEN Lockouts[3] ELSE Lockouts[4]

OneMore(n) == IF n < MaxFailed THEN n + 1 ELSE n

Init ==
    /\ failed = 0 /\ left = 0 /\ column = 0
    /\ pc = [a \in Attempts |-> "idle"]
    /\ loaded = [a \in Attempts |-> 0]
    /\ marked = [a \in Attempts |-> 0]
    /\ until = [a \in Attempts |-> 0]
    /\ stale = {}

Underway == {a \in Attempts : pc[a] # "idle"}

\* Mutant: the lock is not looked at.
ReadBlind(a) ==
    /\ pc[a] = "idle"
    /\ loaded' = [loaded EXCEPT ![a] = failed]
    /\ marked' = [marked EXCEPT ![a] = column]

\* The SELECT, and the check of the lock: an attempt that finds the account
\* locked is answered with 423 and changes nothing.
Read(a) ==
    /\ pc[a] = "idle" /\ left = 0
    /\ loaded' = [loaded EXCEPT ![a] = failed]
    /\ marked' = [marked EXCEPT ![a] = column]

WrongPassword(a) ==
    /\ Read(a)
    /\ pc' = [pc EXCEPT ![a] = "failing"]
    /\ until' = [until EXCEPT ![a] = GetLockoutDuration(OneMore(failed))]
    /\ UNCHANGED <<row, stale>>

\* The right password of an account that may log in; one that is disabled or
\* unverified is refused here and changes nothing.
RightPassword(a) ==
    /\ Read(a)
    /\ pc' = [pc EXCEPT ![a] = "passing"]
    /\ UNCHANGED <<row, until, stale>>

\* The response ends the database session and what it holds.
Answer(a) ==
    /\ pc' = [pc EXCEPT ![a] = "idle"]
    /\ loaded' = [loaded EXCEPT ![a] = 0]
    /\ marked' = [marked EXCEPT ![a] = 0]
    /\ until' = [until EXCEPT ![a] = 0]

\* Mutant: the failure is counted on the object and never committed.
CommitFailureLost(a) ==
    /\ pc[a] = "failing"
    /\ Answer(a)
    /\ UNCHANGED <<row, stale>>

\* Mutant: the count starts anew once a lock is over.
CommitFailureAnew(a) ==
    /\ pc[a] = "failing"
    /\ failed' = IF marked[a] # 0 THEN 1 ELSE OneMore(loaded[a])
    /\ IF GetLockoutDuration(failed') > 0
       THEN left' = until[a] /\ column' = GetLockoutDuration(failed')
       ELSE UNCHANGED <<left, column>>
    /\ stale' = Underway \ {a}
    /\ Answer(a)

CommitFailure(a) ==
    /\ pc[a] = "failing"
    /\ failed' = OneMore(loaded[a])
    /\ IF GetLockoutDuration(OneMore(loaded[a])) > 0
       THEN left' = until[a] /\ column' = GetLockoutDuration(OneMore(loaded[a]))
       ELSE UNCHANGED <<left, column>>
    /\ stale' = Underway \ {a}
    /\ Answer(a)

\* Both columns are set to "none", and reach the UPDATE if they were loaded
\* as anything else.
CommitSuccess(a) ==
    /\ pc[a] = "passing"
    /\ failed' = IF loaded[a] # 0 THEN 0 ELSE failed
    /\ IF marked[a] # 0 THEN left' = 0 /\ column' = 0 ELSE UNCHANGED <<left, column>>
    /\ stale' = Underway \ {a}
    /\ Answer(a)

\* The task dies before its commit: nothing is written.
Die(a) ==
    /\ a \in CrashProne /\ pc[a] # "idle"
    /\ stale' = stale \ {a}
    /\ Answer(a)
    /\ UNCHANGED row

Less(t) == IF t > 0 THEN t - 1 ELSE 0

Tick ==
    /\ left > 0 \/ \E a \in Attempts : until[a] > 0
    /\ left' = Less(left)
    /\ until' = [a \in Attempts |-> Less(until[a])]
    /\ UNCHANGED <<failed, column, pc, loaded, marked, stale>>

Commit(a) == CommitFailure(a) \/ CommitSuccess(a)

Next ==
    \/ Tick
    \/ \E a \in Attempts : WrongPassword(a) \/ RightPassword(a) \/ Commit(a) \/ Die(a)

Spec == Init /\ [][Next]_vars

\* Time passes, and a task whose commit has been sent is answered.
FairSpec == Spec /\ WF_vars(Tick) /\ \A a \in Attempts : WF_vars(Commit(a))

-----------------------------------------------------------------------------
(* Correctness.                                                            *)

\* Every variable keeps its type, and a lock that stands is in the row.
TypeOK ==
    /\ failed \in 0..MaxFailed
    /\ left \in Nat /\ column \in Nat
    /\ left > 0 => column # 0
    /\ pc \in [Attempts -> {"idle", "failing", "passing"}]
    /\ loaded \in [Attempts -> 0..MaxFailed]
    /\ marked \in [Attempts -> Nat]
    /\ until \in [Attempts -> Nat]
    /\ stale \in SUBSET Attempts

\* While the account is locked, the only attempts under way are those that the
\* commit of another has overtaken: whatever happens to the lock or the count
\* until it opens is the doing of a login sent before the lock.
LockShutsOut == left > 0 => Underway \subseteq stale

\* The count is at least n, and so is what every failing attempt read.
AtLeast(n) == failed >= n /\ \A a \in Attempts : pc[a] = "failing" => loaded[a] >= n

\* Concurrent failures overwrite each other's count, but only a login with the
\* right password takes it below the lowest value that an attempt has read.
CountHolds ==
    [][\A n \in 0..MaxFailed : AtLeast(n) =>
         AtLeast(n)' \/ \E a \in Attempts : pc[a] = "passing" /\ pc'[a] = "idle"]_vars

\* A locked account opens again, however many attempts keep coming.
LockEnds == left > 0 ~> left = 0

\* Failures that go on, with no login that succeeds, end in a lock, although
\* concurrent ones are counted once.
FailuresLock ==
    []<><<\E a \in Attempts : CommitFailure(a)>>_vars
      => \/ []<><<\E a \in Attempts : CommitSuccess(a)>>_vars
         \/ <>(column # 0)

\* An attempt that no other commit overtakes between its read and its commit
\* is a step of the policy, whatever went before it.
Policy == INSTANCE LockoutPolicy WITH failures <- failed, lock <- column, Thresholds <- <<5, 8, 10, 20>>
FollowsPolicy ==
    /\ Policy!Init
    /\ [][Policy!Next \/ \E a \in stale : pc'[a] = "idle"]_<<failed, column, left>>
=============================================================================
