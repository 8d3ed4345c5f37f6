SPECIFICATION Spec
CONSTANTS
    NumCpu = 3
    Gicd <- MCGicd
    Gits <- MCGits
    Gicr <- MCGicr
    ProcNum <- MCProcNum
    Offered <- MCOffered
    Slots = 5
    Tries = 3
    MaxLag = 2
    MaxStalls = 1
    MaxCalls = 2
INVARIANTS TablesAgree
PROPERTIES ImplementsCommandQueue TakesEffect
CHECK_DEADLOCK FALSE
