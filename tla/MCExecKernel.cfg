CONSTANTS
    t1 = t1
    t2 = t2
    t3 = t3
    boot = boot
    Task = {t1, t2, t3}
    SigBit = {s1}
    Pri <- PriTwo
    Ops = {"Wait", "Signal", "Crit"}
    Overflow = {}
SPECIFICATION Spec
SYMMETRY Sym
INVARIANTS TypeOK ForbidExclusion ListsAgree NoLostWakeup WaitReturnsSignal CleanShutdown
PROPERTIES StrictPriority RoundRobin
CHECK_DEADLOCK FALSE
