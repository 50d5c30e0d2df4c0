SPECIFICATION Spec
CONSTANTS
    MALLOC_BASE = 4
    MALLOC_SIZE = 16
    Word = 2
    AddrSpace = 64
    Sizes = {0, 1, 2, 3, 5}
INVARIANTS
    TypeOK
    LastIsTop
    NulBehindBlock
PROPERTY
    ImplementsHeap
