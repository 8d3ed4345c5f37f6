SPECIFICATION Spec
CONSTANTS
    StrLen <- MCStrLen
    TypedWords <- MCTypedWords
    StrChunk = 8
    TagSize <- MCTagSize
    TagAlign <- MCTagAlign
    HwChunk = 8
    Attrs <- MCAttrs
    Shapes <- MCShapes
    aarch64_cpuid <- MCCpuIds
    NumCpus = 2
    MaxCalls = 2
INVARIANTS TablesReadAsSaid
PROPERTIES ImplementsHwTree
CHECK_DEADLOCK FALSE
