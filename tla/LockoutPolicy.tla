---------------------------- MODULE LockoutPolicy ----------------------------
(***************************************************************************)
(* What the failed-login lockout promises about one account when attempts  *)
(* do not overlap (app/core/utils.py:get_lockout_duration and              *)
(* scripts/smoke_auth_user.py): consecutive failures are counted, and      *)
(* reaching a threshold locks the account for that threshold's duration.   *)
(***************************************************************************)
EXTENDS Naturals

CONSTANTS
    Thresholds,   \* failures at which the lock starts or grows: <<5, 8, 10, 20>>
    Lockouts      \* for how long each of them locks

VARIABLES
    failures,     \* consecutive failed attempts
    lock,         \* the duration of the last lock, 0 when none was given since a success
    left          \* how long the account stays locked

Init == failures = 0 /\ left = 0 /\ lock = 0

\* The lock that n failures earn.
Earned(n, d) ==
    \/ n < Thresholds[1] /\ d = 0
    \/ \E i \in 1..4 : /\ Thresholds[i] <= n
                       /\ i < 4 => n < Thresholds[i + 1]
                       /\ d = Lockouts[i]

\* Only an open account takes an attempt.  The lock counts from the moment the
\* password was refused: part of it may be over when the row is written.  The
\* count stops at the last threshold, where one more failure changes nothing.
Failure ==
    /\ left = 0
    /\ failures' = IF failures < Thresholds[4] THEN failures + 1 ELSE failures
    /\ \E d \in {0} \cup {Lockouts[i] : i \in 1..4} :
         /\ Earned(failures', d)
         /\ left' \in 0..d
         /\ lock' = IF d > 0 THEN d ELSE lock

Success == left = 0 /\ failures' = 0 /\ left' = 0 /\ lock' = 0

Tick == left > 0 /\ left' = left - 1 /\ UNCHANGED <<failures, lock>>

Next == Failure \/ Success \/ Tick

Policy == Init /\ [][Next]_<<failures, lock, left>>
=============================================================================
