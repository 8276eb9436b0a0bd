SPECIFICATION Spec
CONSTANTS
    Users = {u1, u2}
    Tabs = {t1, t2}
    MaxRows = 2
    None = None
SYMMETRY Symmetry
INVARIANTS
    NotFoundIsFinal
    LoginOutsidePages
    RedirectsEnd
PROPERTIES
    DeletesWhatItShowed
