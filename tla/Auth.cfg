SPECIFICATION FairSpec

CONSTANTS
    ann = ann
    t1 = t1
    t2 = t2
    c1 = c1
    c2 = c2
    People = {ann}
    Codes = {1, 2}
    Passwords = {"old", "$2x"}
    Prefixed = {"$2x"}
    Tokens = {t1, t2}
    Calls = {c1, c2}
    MaxFaults = 1
    Both = FALSE
    Mixed = FALSE

INVARIANTS
    TypeOK
    PasswordAsGiven

PROPERTIES
    RecordedFirst
    DeletedStays
    LogoutSticks
    EventuallyVerified
