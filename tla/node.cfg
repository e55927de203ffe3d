SPECIFICATION MCSpec
CONSTANTS
    c1 = c1
    c2 = c2
    w1 = w1
    g1 = g1
    Conns <- MCConns
    Workers <- MCWorkers
    Greetings <- MCGreetings
    Backlog = 1
    NoConn = NoConn
CHECK_DEADLOCK FALSE
INVARIANTS
    NodeTypeOK
    OneOwner
    OnlyKnownLate
PROPERTIES
    ImplementsRequestQueue
    StopsWhenTold
    RequestsAnswered
