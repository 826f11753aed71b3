CONSTANTS
    Cap = 4
    Word = 8
    FrameMod = 5
    Frame = {0, 1, 2, 3, 4}
    Silence = 99
    Src <- Number
    MaxPush = 4
    MaxWant = 4
    Total = 11
SPECIFICATION LiveSpec
INVARIANTS Counters PendingIntact GateMeansNoUnderrun
PROPERTIES FifoSpec RenderReturns
CHECK_DEADLOCK FALSE
