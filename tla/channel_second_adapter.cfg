CONSTANTS
    Threads = {a, b}
    NoThread = NoThread
    Fns = {0}
    Words = {0}
    MaxOpens = 2
SPECIFICATION Spec
PROPERTY WaitsForAdapter
CHECK_DEADLOCK FALSE
