CONSTANTS
    Programs <- MCPrograms
    RegMod = 3
    StackMax = 2
    MaxBlocks = 7
    IndexMod = 2
    Quantum = 3
    MaxStops = 0
SPECIFICATION JitSpec
PROPERTIES GuestUnaware
