CONSTANTS
    NULL = NULL
    Sig = {s1}
    Fd = {f1}
    Dir = {"READ"}
    MAX_REGS = 1
SPECIFICATION LiveSpec
PROPERTIES StopReturns
CHECK_DEADLOCK FALSE
