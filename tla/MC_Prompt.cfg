SPECIFICATION Spec
CONSTANTS
    NULL = NULL
    Words <- MCWords
    PathSpec <- MCPathSpec
    BaseName <- MCBaseName
    Confs <- MCConfs
    BootArgs <- MCBootArgs
    BootFiles <- MCBootFiles
    Lines <- MCLines
INVARIANTS
    
    InitrdFollows
    OneAutoBoot
    OldFlagMatchesLabel
