CONSTANTS
    s1 = s1
    s2 = s2
    f1 = f1
    f2 = f2
    NULL = NULL
    Sig = {s1}
    Fd = {f1}
    Dir = {"READ", "WRITE"}
    MAX_REGS = 1
    Slices = 2
SPECIFICATION HSLive
PROPERTIES  ReadyWakesParked
CHECK_DEADLOCK FALSE
