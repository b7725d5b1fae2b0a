CONSTANTS
    Threads = {a, b}
    NoThread = NoThread
    Fns = {0}
    Words = {0}
    MaxOpens = 2
SPECIFICATION FairSpec
PROPERTIES CallReturns OnlyBlockedAreLost
CHECK_DEADLOCK FALSE
