\* One address.  Among "links": two sign-ups, two requests for a link and two clicks;
\* among "passwords": one sign-up, one click, two sign-ins and two changes of password.
SPECIFICATION CrowdSpec
CONSTANTS
    Signups = {s1, s2}
    Resends = {r1, r2}
    Clicks = {c1, c2}
    SignIns = {i1, i2}
    Changes = {h1, h2}
    CrashProne = {s1, c1, h1}
    AmongLinks = {i1, i2, h1, h2}
    AmongPasswords = {s2, r1, r2, c2}
    Nothing = Nothing
    LockAt = 1
INVARIANTS
    TypeOK
    LinksServed
    SessionsEarned
PROPERTIES
    PasswordKnown
CHECK_DEADLOCK FALSE
