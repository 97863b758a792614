CONSTANTS
    c1 = c1
    c2 = c2
    w1 = w1
    w2 = w2
    Clients = {c1, c2}
    Workers = {w1, w2}
    ClientFd = 2
    ClientLoops <- TwiceOnce
    PeerLoops = 2
    Environments <- Faulty
    NULL = NULL
SPECIFICATION Spec
SYMMETRY SymmetricWorkers
CHECK_DEADLOCK FALSE
INVARIANTS
    TypeOK
    MapPaired
    OkMeansMapped
    EchoesInOrder
    EchoOnItsWay
    NoCrossTalk
