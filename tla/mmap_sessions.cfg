SPECIFICATION MmapSpec
CONSTANTS
    MmapLimit = 3
    Addresses = {1, 2, 3, 4}
    Sizes = {1, 2}
    Big = 1
    Stride = 2
    SizeWrap = 4
    Frames = {1, 20}
    MaxMmaps = 4
    MaxOpens = 2
INVARIANTS
    Registered
    LookupsRight
CHECK_DEADLOCK FALSE
