SPECIFICATION FairSpec
CONSTANTS
    LowFeatures = {0}
    HighFeatures = {32}
    Version1 = 32
    Supported = {0, 32}
    Devices <- DevicesChecked
    Ones = 9
    Regions <- RegionsChecked
    MaxChanges = 2
    MaxBinds = 2
CHECK_DEADLOCK FALSE
INVARIANTS
    NegotiatedBeforeUse
    ArrivesWhole
PROPERTIES
    ChangeNoticed
