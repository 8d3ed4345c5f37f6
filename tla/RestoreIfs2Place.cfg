SPECIFICATION MCSpec
CONSTANTS
    Parts = {"restore"}
    RestorePlaces = {6}
    Cpus <- BootCpus
    ArgvMax = 6
    Tweaks = {"none", "fdt", "efi"}
    ValueOf <- MCValueOf
    Machines <- MCMachines
    Images <- MCImages
    Lines <- MCLines
    MainOptions <- MCMainOptions
    LateOptions <- MCLateOptions
    Devices <- MCDevices
    Maps <- MCMaps
    MaxEvents = 4
    Slots = 6
    NumBoot = 2
    MaxBootable = 2
    MaxPower = 3
    MaxFaults = 1
    Options <- MCInstallations
    Fixed <- MCFixed
    Grown <- MCGrown
    Callouts <- MCCallouts
    RwSize <- MCRwSize
    Data = {"gic", "its"}
    Header = 2
    PageCells = 4
    Blocks <- MCBlocks
    MaxGrow = 2
    MaxSplits = 4
INVARIANTS Ifs2Reserved
CHECK_DEADLOCK FALSE
