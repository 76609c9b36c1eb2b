\* Three mails of which two carry links, two orders, three uploads of an avatar, and
\* every picture with sides of up to 12.
SPECIFICATION Spec
CONSTANTS
    Links = {m1, m2}
    Notices = {m3}
    MaxRetries = 1
    Orders = {o1, o2}
    MaxNotices = 2
    Uploads = {u1, u2, u3}
    NoFile = NoFile
    Sides = {1, 2, 3, 5, 8, 12}
    Limit = 6
    Boxes = {2, 5}
    Pad = 1
    LogoShare = 2
    HeifSupport = FALSE
INVARIANTS
    MailsAccounted
    NewestLinkOnTop
    OrdersSound
    PicturesSound
PROPERTIES
    MailSettles
CHECK_DEADLOCK FALSE
