SPECIFICATION HandOffSpec
CONSTANTS
    NumCores <- QRB2210_CPU_CORES_NUMBER
    BoardCpus <- QRB2210_CPU_CORES_NUMBER
    Affinity <- BoardAffinity
    MaxCpus <- BoardMaxCpus
    SpinWrap = 8
INVARIANT StartsFreshCore
CHECK_DEADLOCK FALSE
