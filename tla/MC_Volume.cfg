SPECIFICATION Spec
CONSTANTS
    None = None
    Maps <- MCMaps
    SECTOR_SIZE = 1
    Width = 64
    Targets <- MCTargets
    Fs <- MCFs
    Nodes = {"a", "b", "c"}
    Fileblocks <- MCFileblocks
INVARIANTS
    OneInstance
    ReadsWhatWasOpened
    BlockMapsRightUnlessShared
