SPECIFICATION FairSpec
CONSTANTS
    a1 = a1
    a2 = a2
    a3 = a3
    Attempts = {a1,a2}
    CrashProne = {a1}
    Lockouts <- ShortLockouts

CHECK_DEADLOCK FALSE
INVARIANTS
    LockShutsOut
PROPERTIES
    CountHolds
    FollowsPolicy
    LockEnds
    FailuresLock
