CONSTANTS
    c1 = c1
    c2 = c2
    w1 = w1
    w2 = w2
    Clients = {c1, c2}
    Workers = {w1, w2}
    ClientFd = 0
    ClientLoops <- Once
    PeerLoops = 1
    Environments <- NoFault
    NULL = NULL
SPECIFICATION FairSpec
CHECK_DEADLOCK FALSE
PROPERTIES
    AnswerArrives
