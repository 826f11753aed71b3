CONSTANTS
    NCtx = 3
    MaxMsgs = 1
    MaxCalls = 1
    MaxOps = 4
    FirstSliceYields = FALSE
    ChildCommands = FALSE
    LibContexts = 1
    LibNames = {"a", "b"}
    LibSlots = 2
    LibOpens = 2
    HeapEnd = 7
    MaxLoads = 2
SPECIFICATION MCSpec
INVARIANTS    HeapDisjoint 
CHECK_DEADLOCK FALSE
