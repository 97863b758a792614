CONSTANTS
    c1 = c1
    c2 = c2
    w1 = w1
    w2 = w2
    Clients = {c1}
    Workers = {w1, w2}
    ClientFd = 1
    ClientLoops <- Twice
    PeerLoops = 2
    Environments <- Departing
    NULL = NULL
SPECIFICATION FairSpec
CHECK_DEADLOCK FALSE
PROPERTIES
    AnswerArrives
