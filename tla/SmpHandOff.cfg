SPECIFICATION HandOffSpec
CONSTANTS
    NumCores = 4
    BoardCpus = 4
    Affinity <- Crossed
    MaxCpus <- MCMaxCpus
    SpinWrap = 6
INVARIANTS TypeOK StackExclusive OwnNumber SyspageOneWriter CalloutInPlace KernelOwnsMachine NoStaleZero
INVARIANTS HandedOverOnce
PROPERTIES BootEnds ImplementsBringUp ShutdownReachesAll EveryCpuArrives
CHECK_DEADLOCK FALSE
