SPECIFICATION Spec
CONSTANTS
    Entries = 2
    Frames = {f1, f2, h1}
    HighFrames = {h1}
    Zero = Zero
    None = None
    NumMax = 2
    Slots = 4
    Versions = {1, 2}
    MaxBinds = 2
CHECK_DEADLOCK FALSE
INVARIANTS
    RegistersMatch
    NoDanglingRing
    AllOrNothing
    FramesKept
