CONSTANTS
    prod = prod
    cons = cons
    busy = busy
    boot = boot
    Task = {prod, cons, busy}
    DATA = DATA
    ACK = ACK
    SigBit = {DATA, ACK}
    Pri <- PriFlat
    Ops = {"Wait", "Signal"}
    Overflow = {}
    CountMod = 5
SPECIFICATION PPLive
PROPERTIES PingPongProgress ReadyRuns MainReturns
CHECK_DEADLOCK FALSE
