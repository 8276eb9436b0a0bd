SPECIFICATION Spec
CONSTANTS
    Users = {u1, u2}
    Words = {w1, w2}
    Labels = {l1}
    Registered = {}
    MaxId = 2
    MaxCrashes = 1
INVARIANTS
    LinksOfOneUser
    TagIdsNotReused
    SearchCoversOldEntries
PROPERTIES
    StartsAgain
