SPECIFICATION Spec
CONSTANTS
    ITLines = 2
    EspiLines = 1
    Mbis = TRUE
    NumCpu = 2
    Gicr <- Swapped
    Ident <- MCIdent
    GicrSize = 262144
    SharedIds <- MCSharedIds
    Ppis <- MCPpis
    Offered <- MCOffered
    Firmware <- MCFirmware
    SendIpi = "sendipi_gic_v2"
    MaxRaise = 1
    MaxWanted = 2
INVARIANTS IpiNotLost
CHECK_DEADLOCK FALSE
