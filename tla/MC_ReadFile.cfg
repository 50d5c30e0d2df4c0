\* Blocks of four bytes; slices that start and end anywhere, also behind the end of the file.
CONSTANTS
    Zero = Zero
    BlockSize = 4
    PartLen = 200
    FirstDataBlock = 1
    DescPerBlock = 2
    InodesPerGroup = 4
    InodesPerBlock = 2
    MaxAsked = 12
    Meta <- MCMeta
    Files <- MCFiles
SPECIFICATION Spec
INVARIANTS RightSoFar ReadsAll OverrunOnlyInTailHole
