CONSTANTS
    Task = {1, 2, 3}
    boot = 0
    Pri <- PriFlat
    SigBit = {}
    Ops = {"Crit"}
    Overflow = {1}
    MEMCHUNK_TOTAL = 2
    Word = 64
    mh_Lower = 4
    RegionLen = 13
    Sizes = {0, 1, 2, 3, 5, 7, 14}
    MaxLive = 6
    BlockSize = 5
SPECIFICATION KHSpec
INVARIANTS Tiling HeapSound PatternsSurvive
CHECK_DEADLOCK FALSE
