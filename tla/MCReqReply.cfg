CONSTANTS
    c1 = c1
    server = server
    idle = idle
    boot = boot
    NULL = NULL
    reqBit = reqBit
    replyBit = replyBit
    Client = {c1}
    Task = {c1, server, idle}
    Port = {c1, server}
    Message = {c1}
    SigBit = {reqBit, replyBit}
    Pri <- PriFlat
    PortBit <- Bits
    Ops = {"Wait", "Signal", "Crit"}
    Overflow = {}
    ValueMod = 3
SPECIFICATION RRLive
INVARIANTS NoWrongReply MessageOnce
PROPERTIES RoundTrips
CHECK_DEADLOCK FALSE
