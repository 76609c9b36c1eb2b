\* A registration by email and a click on the link that it mails; what has begun ends.
SPECIFICATION FairSpec
CONSTANTS
    Emails = {e1}
    Accounts = {g1}
    Registers = {r1}
    Resends = {}
    Clicks = {k1}
    Starts = {s1}
    Callbacks = {c1}
    Exchanges = {x1}
    Consents = 1
    CrashProne = {}
    Nothing = Nothing
PROPERTIES
    ClickVerifies
CHECK_DEADLOCK FALSE
