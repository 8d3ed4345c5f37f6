SPECIFICATION Spec
CONSTANTS
    Kinds = {"pcie", "msi", "qoriq_v1", "qoriq_v2"}
    VectorsOf <- MCVectors
    MaxRaise = 2
    MaxMask = 2
    MaxMasks = 1
    Cpus = {0, 1}
    Iface <- Swapped
    ItLines = 1
    Spis = {40}
    CascadeSpi = 41
    MaxIpis = 2
INVARIANTS EnablesAreAsked
PROPERTIES ServedInTheEnd
CHECK_DEADLOCK FALSE
