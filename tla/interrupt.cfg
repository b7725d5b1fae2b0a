CONSTANTS
    Irqers = {i1, i2}
    Drivers = {d1}
    Threads = {i1, i2, d1}
    Server = main
    Nobody = nobody
    Queues = {q1}
    Words = {0, 1, 2, 3}
    Fns = {0, 96, 100}
    IntStatus = 96
    IntAck = 100
SPECIFICATION FairSpec
INVARIANTS  NothingMissed CallbackOnLiveQueue
PROPERTIES CompletionsSeen
CHECK_DEADLOCK FALSE
