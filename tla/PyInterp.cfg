CONSTANTS
    k1 = k1
    k2 = k2
    k3 = k3
    Calls = {k1, k2, k3}
    MaxExec = 2
    NULL = NULL
    DUMMY = DUMMY
    NONE = NONE
SPECIFICATION Spec
SYMMETRY SymmetricCalls
CHECK_DEADLOCK FALSE
INVARIANTS
    TypeOK
    CountsExact
    AnswerOwn
    ResultsReadable
    InterpreterEnded
