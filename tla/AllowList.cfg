CONSTANTS
    r1 = r1
    r2 = r2
    Addresses = {1, 2}
    Registers = {r1, r2}
    MaxModifies = 2
    EMPTY = 0
    NOISE = 3
SPECIFICATION Spec
SYMMETRY SymmetricRegisters
CHECK_DEADLOCK FALSE
INVARIANTS
    TypeOK
    ModifyPrefixKept
    FileExact
    StartSeesRegistered
