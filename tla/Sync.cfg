SPECIFICATION FairSpec
CONSTANTS
    Articles = {a1}
    Writers = {w1, w2}
    MaxLag = 1
    Overlap = 2
    MaxTime = 4
    MaxVersion = 3
    SetBacks = TRUE
    None = None
    Gone = Gone
INVARIANTS
    OnlyReloadsAreMissed
    RefusedOnlyAfterSetBack
PROPERTIES
    RequestsAreDelivered
