\* One user in either tree: requests for a link and confirmations, of which one may
\* die; in the old tree two requests a day, over two days.
SPECIFICATION TreesSpec
CONSTANTS
    Requests = {r1, r2, r3}
    Confirms = {c1, c2, c3}
    OldConfirms = {c1, c2}
    SignIns = {s1}
    CrashProne = {c1}
    NoToken = NoToken
    CooldownSteps <- TwoSteps
    MaxPerDay = 2
    LinkLife = 1
    DayLength = 4
    Horizon = 4
SYMMETRY Symmetry
INVARIANTS
    LinkGood
    RateKept
    OldResetSound
PROPERTIES
    SpentStaysSpent
    OldSpentOnce
CHECK_DEADLOCK FALSE
