CONSTANTS
    s1 = s1
    s2 = s2
    NumThreads = 2
    MaxEvents = 3
    Socks = {s1}
    Foreign = Foreign
    NULL = NULL
SPECIFICATION FairSpec
PROPERTY
    IdleWaitEnds
