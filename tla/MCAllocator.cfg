SPECIFICATION Spec
CONSTANTS
    SizeWidth = 8
    UnsignedWidth = 4
    TREEBIN_SHIFT = 4
    PageSize = 8
    Unchecked = 16
    Brk0 = 3
    BrkLimit = 64
    DEFAULT_TRIM_THRESHOLD = 24
    Programs <- AllPrograms
CHECK_DEADLOCK FALSE
INVARIANTS
    TypeOK
    CheckMallocState
    InUseAccounted
    BreakPartitioned
    StatisticsAgree
PROPERTIES
    KeepsPromise
    SystemAskedLast
    CheckMallocedChunk
    FootprintLimited
