SPECIFICATION Spec
CONSTANTS
    Users = {u1}
    Devices = {d1,d2}
    Logins = {l1,l2}
    Refreshes = {}
    Logouts = {}
    LogoutAlls = {}
    Revokes = {}
    PasswordChanges = {p1}
    Resets = {}
    CrashProne = {}
    MaxSessions = 1
    NoRow = NoRow
    Pending = Pending
CHECK_DEADLOCK FALSE
INVARIANTS
    NoSessionOutlivesPassword
