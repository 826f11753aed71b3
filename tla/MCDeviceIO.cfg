CONSTANTS
    client = client
    device = device
    idle = idle
    boot = boot
    NULL = NULL
    io = io
    Mixed = Mixed
    Empty = Empty
    devBit = devBit
    cliBit = cliBit
    Task = {client, device, idle}
    Port = {client, device}
    Message = {io}
    SigBit = {devBit, cliBit}
    Pri <- PriFlat
    PortBit <- Bits
    Ops = {"Wait", "Signal", "Crit"}
    Overflow = {}
    PatMod = 3
    Fails = {"WRITE", "READ"}
    MaxErrors = 1
SPECIFICATION DIOSpec
INVARIANTS DoIOTruthful RequestOwnership
CHECK_DEADLOCK FALSE
