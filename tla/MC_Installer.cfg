SPECIFICATION Spec
CONSTANTS
    Disks <- MCDisks
    Units = {1, 2, 3, 4, 5, 6}
    CodeLen = 2
    Scripts = {0, 1, 2, 4}
    NoScript = NoScript
    MaxRuns = 2
INVARIANTS
    BootableMeansComplete
    InstalledIsFound
PROPERTY
    ConfinedWrites
