SPECIFICATION Spec
CONSTANTS
    SizeWidth = 9
    UnsignedWidth = 3
    TREEBIN_SHIFT = 5
    PageSize = 16
    Unchecked = 8
    NTREEBINS = 4
    Chunks = {1, 2, 3, 4, 5, 6, 7, 8}
    ChunkSize <- Sizes
    Requests <- SomeRequests
INVARIANTS
    CheckTreebins
    EveryChunkFound
PROPERTIES
    QueuesKept
    BestFit
