SPECIFICATION Spec
CONSTANTS
    u1 = u1
    u2 = u2
    Users = {u1, u2}
    EntryIds = {1, 2, 3}
    Rows <- MCRows
    Asked <- MCAsked
    MaxStates = 2
    MaxI64 = 9
    None = None
INVARIANTS
    AnswersOfOneState
    EachCounterWasTrue
