\* Four keys, two of them ahead; a period too long for the int, and waits that begin anywhere
\* in the range of the clock.
CONSTANTS
    NoKey = NoKey
    NUL = NUL
    Printable = {"a", "!"}
    Bang = "!"
    Erase = {"bs"}
    Other = {"ctl"}
    CmdLeng = 3
    Cleared = 1
    MaxInt = 11
    PerTenth = 2
    PrebootTimeout = 1
    Timeouts <- MCTimeouts
    MaxCall = 2
    MaxKeys = 4
    MaxAhead = 2
SPECIFICATION ConsoleSpec
INVARIANTS LineIsTyped ScreenShowsLine NotEarly
PROPERTIES WaitEnds
