SPECIFICATION FairSpec
CONSTANTS
    Clients = {c1}
    Tokens = {t1, t2}
    Requests = {r1, r2}
    ExpirationTime = 1
    RefreshTokenExpirationTime = 1
    MaxTime = 2
    None = None
    Foreign = Foreign
PROPERTIES
    RequestsEnd
    ExpiredCollected
