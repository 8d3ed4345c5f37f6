SPECIFICATION DevicesSpec
CONSTANTS
    Chips <- MCChips
    Depth = 2
    Polls = 3
    Puts = 2
    Displays = 2
    Keys = 2
    Switches = 1
    Faults = 1
    Lines <- MCLines
    OutOfRange <- Huge
    Timeout = 8
    Lag = 2
    Rivals = 10
    DelayWrap = 16
    UINT_MAX = 9999
    UlongWrap = 200000
    Nano = 5
    Freqs <- MCFreqs
    Ticks = {0, 1, 2, 19, 96, 1000}
    Nanos = {0, 1, 99, 1000}
    Clocks = {0, 5}
INVARIANTS ConsoleKept TimeIsTrue DogIsFed TicksAgree
PROPERTIES RoutineReturns AskedRuns
CHECK_DEADLOCK FALSE
