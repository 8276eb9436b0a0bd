SPECIFICATION Spec
CONSTANTS
    Users = {u1}
    Words = {w1}
    Labels = {l1}
    Registered = {u1}
    MaxId = 1
    MaxCrashes = 0
PROPERTIES
    UpgradeKeepsReferences
