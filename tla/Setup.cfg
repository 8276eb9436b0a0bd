SPECIFICATION Spec
CONSTANTS
    a = a
    b = b
    Space = Space
    UsernameMax = 2
    PasswordMax = 3
    TypedNames <- MCNames
    TypedPasswords <- MCPasswords
    Web = {w1, w2}
    Cli = {c1, c2}
    None = None
SYMMETRY Symmetry
INVARIANTS
    SetupOnlyFirst
    NamesDistinct
    OwnersLogIn
