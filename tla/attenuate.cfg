CONSTANTS
    Instances = {guest}
    Threshold = 3
    Block = 2
    MaxQueue = 3
    MaxLoads = 2
SPECIFICATION FairSpec
INVARIANTS MutedFollows UnmutesInTime
PROPERTIES NoEarlyUnmute MuteEnds
