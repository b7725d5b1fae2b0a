CONSTANTS
    Threads = {a, b}
    NoThread = NoThread
    Fns = {0, 4}
    Words = {0, 1}
    MaxOpens = 1
SPECIFICATION Spec
INVARIANTS  IInv OneTransaction ServesItsCaller
PROPERTIES WaitsForAdapter ImplementsCall
SYMMETRY Symmetry
CHECK_DEADLOCK FALSE
