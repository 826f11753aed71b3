CONSTANTS
    ByteBits = 2
    MemTop = 15
    RawFaults = FALSE
    Vals = {0, 1, 2, 3, 7, 8, 15, 16, 90, 127, 128, 129, 240, 255}
    FewVals = {3, 129, 255}
    BcdVals = {0, 1, 5, 9, 10, 15, 49, 50, 90, 95, 99}
    FpNums = {0, 3}
    FpAllForms = FALSE
    Programs <- MCPrograms
    RegMod = 3
    StackMax = 2
    MaxBlocks = 6
    IndexMod = 8
    Quantum = 3
    MaxStops = 1
SPECIFICATION MCSpec
INVARIANTS JitMatchesOracle   LinksLive
PROPERTIES GuestUnaware StopLands
