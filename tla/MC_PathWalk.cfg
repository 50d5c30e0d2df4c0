\* Two look-ups; the fourth link is one too many, so loops and chains of links meet the limit.
CONSTANTS
    None = None
    Root = 1
    LinkLimit = 4
    MaxFinds = 2
    Tree <- MCTree
    Paths <- MCPaths
SPECIFICATION Spec
INVARIANTS NoDangling StackBounded FindsTheFile
