SPECIFICATION Spec
CONSTANTS
    Clients = {c1, c2}
    Tokens = {t1, t2, t3}
    Requests = {r1, r2}
    ExpirationTime = 1
    RefreshTokenExpirationTime = 2
    MaxTime = 2
    None = None
    Foreign = Foreign
SYMMETRY Symmetry
INVARIANTS
    SingleUse
    RedeemableUntilSpent
    RowsHaveClients
    ClaimInherited
    AccessUntilExpiry
    AccessOutlivesClientBriefly
    FoundUnexpiredAtPurge
PROPERTIES
    ImplementsService
