CONSTANTS
    c1 = c1
    c2 = c2
    c3 = c3
    w1 = w1
    w2 = w2
    Clients = {c1, c2}
    Workers = {w1, w2}
    Limit = 4
    MaxRefused = 1
    MaxFincs = 1
    PIPE = PIPE
    NULL = NULL
SPECIFICATION Spec
SYMMETRY Symmetric
CHECK_DEADLOCK FALSE
INVARIANTS
    TypeOK
    MapNames
    SocketsLost
    Accounting
