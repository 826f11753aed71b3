CONSTANTS
    s1 = s1
    s2 = s2
    f1 = f1
    f2 = f2
    NULL = NULL
    Sig = {s1, s2}
    Fd = {f1}
    Dir = {"READ"}
    MAX_REGS = 1
    Slices = 2
SPECIFICATION HSSpec
INVARIANTS FiltersMatch NoLostWake NothingLeftRegistered
CHECK_DEADLOCK FALSE
