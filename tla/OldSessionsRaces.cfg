\* Two devices, at most one session.  Either three logins and a refresh arrive, or two logins, a
\* refresh, a sign-out, a deletion of all and a list; one login is remembered and
\* expires, the deletion of all may die.
SPECIFICATION FairSpec
CONSTANTS
    Devices = {d1, d2}
    Logins = {l1, l2, l3}
    Remembered = {l1}
    Expiring = {l1}
    Refreshes = {f1}
    Signouts = {o1}
    DeleteAlls = {a1}
    Lists = {i1}
    Arrivals = {{l1, l2, l3, f1}, {l1, l2, f1, o1, a1, i1}}
    MaxSessions = 1
    CrashProne = {a1}
    Nothing = Nothing
INVARIANTS
    OneRowPerDevice
    WithinMaximum
    PasswordEndsSessions
PROPERTIES
    EvictsLeastRecent
    RequestsEnd
CHECK_DEADLOCK FALSE
