CONSTANTS
    p1 = p1
    p2 = p2
    p3 = p3
    Pushers = {p1, p2, p3}
    MaxPushes = 1
    NodeSize = 2
    GARBLED = GARBLED
SPECIFICATION FairSpec
CHECK_DEADLOCK FALSE
INVARIANTS
    TypeOK
    LinesConserved
    StampOwnUnlessOverlap
PROPERTY
    SignalledLinesWritten
