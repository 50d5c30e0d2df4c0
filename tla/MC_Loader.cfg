SPECIFICATION FairSpec
CONSTANTS
    RamTop = 23
    SIZE_1M = 4
    SIZE_4K = 2
    PROM_CLAIM_MAX_ADDR = 20
    IQUIK_BASE = 3
    IQUIK_SIZE = 1
    MALLOC_BASE = 5
    MALLOC_SIZE = 2
    LOAD_BASE = 8
    FwClaims = {0, 4, 17}
    Files = {"k1", "k2", "r"}
    NoFile = NoFile
    FileLen <- MCFileLen
    Elf <- MCElf
    Headers <- MCHeaders
    AddrSize = 32
INVARIANTS
    TypeOK
    BaseKept
    IdleHoldsOnlyBss
    InitrdClearOfKernel
    RetrySameAddress
    HandoffImage
    SegmentsInPlace
PROPERTIES
    FreshBssIsClaimed
    LoadSettles
