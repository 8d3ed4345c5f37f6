SPECIFICATION Spec
CONSTANTS
    Banks <- MCBanks
    BoardBanks = 2
    Image <- MCImage
    StartupSize = 1
    ListsSize = 1
    TempSize = 1
    PageSize = 2
    MemTop = 15
    Low = 4
    Limit = 14
    Requests <- MCRequests
    Reserves <- MCReserves
    JtagRanges <- MCJtagRanges
    MaxRam = 3
    MaxAvoid = 6
    MaxCalls = 5
INVARIANTS MemoryAccounted AsinfoAccounted
PROPERTY ImplementsFreeMemory
CHECK_DEADLOCK FALSE
