SPECIFICATION FairSpec
CONSTANTS
    Count = 2
    Devices <- DevicesChecked
    None = None
    Zero = Zero
    Depth = 2
    MaxPosts = 3
    MaxBinds = 2
CHECK_DEADLOCK FALSE
INVARIANTS
    NothingStranded
    IrqOnLiveDevice
PROPERTIES
    RequestsComplete
