\* Two addresses and two Google accounts: a registration, a request for
\* another link, a click on one, two starts, two callbacks and two exchanges, in either
\* tree; the registration and the click may die.
SPECIFICATION Spec
CONSTANTS
    Emails = {e1, e2}
    Accounts = {g1, g2}
    Registers = {r1}
    Resends = {q1}
    Clicks = {k1}
    Starts = {s1, s2}
    Callbacks = {c1, c2}
    Exchanges = {x1, x2}
    Consents = 2
    CrashProne = {r1, k1}
    Nothing = Nothing
SYMMETRY Symmetry
INVARIANTS
    StateOnce
    VerifiedSound
    SessionOfAccount
PROPERTIES
    LinkStays
CHECK_DEADLOCK FALSE
