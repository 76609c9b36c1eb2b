\* One user in either tree.  The app: three enrolments, two verifications, a disabling,
\* a login and an answer to its challenge; one enrolment and the login may die.  The old
\* tree: two setups and two confirmations, or two sign-ins, with a regeneration, which
\* may die, and a disabling; recovery codes in batches of one.
SPECIFICATION TreesSpec
CONSTANTS
    Enables = {e1, e2, e3}
    Verifies = {v1, v2}
    Disables = {d1}
    Logins = {l1}
    Validates = {x1}
    CrashProne = {e1, l1}
    Nothing = Nothing
    Setups = {s1, s2}
    Confirms = {c1, c2}
    Regenerates = {r1}
    CodeCount = 1
    OldCrashProne = {r1}
    AmongSetups = {v2}
    AmongCodes = {s2, c2}
SYMMETRY Symmetry
INVARIANTS
    EnabledConfirmed
    SecondFactor
    CodeOnce
    OneBatch
    OldFactorSound
CHECK_DEADLOCK FALSE
