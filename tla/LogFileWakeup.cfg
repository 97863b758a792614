CONSTANTS
    p1 = p1
    p2 = p2
    p3 = p3
    Pushers = {p1, p2}
    MaxPushes = 1
    NodeSize = 64
    GARBLED = GARBLED
SPECIFICATION FairSpec
CHECK_DEADLOCK FALSE
PROPERTY
    BufferGetsWritten
