\* One user with a limit of one session: three logins on three devices, or two logins
\* with a revocation by id, a change of password and a reset.
SPECIFICATION Spec
CONSTANTS
    Users = {u1}
    Devices = {d1,d2,d3}
    Logins = {l1,l2,l3}
    Refreshes = {}
    Logouts = {}
    LogoutAlls = {}
    Revokes = {v1}
    PasswordChanges = {p1,p2}
    Resets = {p2}
    CrashProne = {}
    MaxSessions = 1
    MixedBound = 2
    NoRow = NoRow
    Pending = Pending
ACTION_CONSTRAINT CrowdBound
SYMMETRY Symmetry
CHECK_DEADLOCK FALSE
INVARIANTS
    SessionLimit
    SweepComplete
