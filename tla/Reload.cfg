SPECIFICATION Spec
CONSTANTS
    Articles = {a1, a2}
    Users = {u1, u2}
    Requests = {q1}
    Reloads = {r1, r2}
    Webs <- MCWebs
    Names <- MCNames
    Lower <- MCLower
    BeforeDot <- MCBeforeDot
    Stem <- MCStem
    Chars <- MCChars
    MaxLength = 20
    MaxWords = 1000
    None = None
    Gone = Gone
SYMMETRY Symmetry
CONSTRAINT Bounded
INVARIANTS
    AlwaysTitled
    LargestPrintIsTitle
PROPERTIES
    NothingNewerOverwritten
    WholeRunOrNothing
    ImplementsService
