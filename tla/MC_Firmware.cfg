\* Any number of commands before and of calls after the kernel is started.
CONSTANTS
    Junk = Junk
    Machines <- MCMachines
    Initrds <- MCInitrds
    Sizes = {0, 2, 4, 6, 8, 16}
    Word = 32
    CellBound = 6
    FlagChoices <- MCFlags
SPECIFICATION Spec
INVARIANTS ShimWhereNeeded KernelFindsInitrd KernelSeesDevices AnswerFits
