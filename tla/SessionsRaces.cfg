SPECIFICATION FairSpec
CONSTANTS
    Users = {u1}
    Devices = {d1,d2}
    Logins = {l1,l2}
    Refreshes = {f1}
    Logouts = {o1}
    LogoutAlls = {a1}
    Revokes = {}
    PasswordChanges = {}
    Resets = {}
    CrashProne = {l1}
    MaxSessions = 1
    NoRow = NoRow
    Pending = Pending
CHECK_DEADLOCK FALSE
INVARIANTS
    PendingOwned
    TokenDelivered
PROPERTIES
    RevocationSticks
    TokenNeverReturns
    PendingResolved
