SPECIFICATION Spec
CONSTANTS
    Workers = {w1, w2}
    Requests = {r1, r2, r3}
    Connections = 2
    MaxTakes = 2
\* The server ends.
CHECK_DEADLOCK FALSE
INVARIANTS
    CollectorOutlivesWorkers
    NobodyCutOff
PROPERTIES
    RequestsAreAnswered
    ShutdownCompletes
