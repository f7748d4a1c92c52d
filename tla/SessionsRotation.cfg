\* Two requests at a time of one browser and two users, lost replies, crashes.
CONSTANTS
    None = None
    Request = {r1, r2}
    Browser = {b1}
    User = {u1, u2}
    MaxTokens = 3
SPECIFICATION FairSpec
CHECK_DEADLOCK FALSE
INVARIANTS
    NoOwnerlessMerchant
    OneLiveToken
    LogoutIsFinal
    CookieWorks
PROPERTIES
    SessionKept
