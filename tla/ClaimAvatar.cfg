\* Two uploads of one user's avatar.
SPECIFICATION AvatarSpec
CONSTANTS
    Uploads = {u1, u2}
    NoFile = NoFile
INVARIANTS
    AvatarStays
CHECK_DEADLOCK FALSE
