CONSTANTS
    Drivers = {d1, d2}
    Worker = worker
    Threads = {worker}
    Nobody = nobody
    Queues = {0, 1}
    Words = {0, 1}
    QueueNotify = 80
    Fns = {0, 80}
    MaxNotifies = 3
SPECIFICATION FairSpec
INVARIANTS  Fifo EmptyTakeOnlyAfterClose StopsAfterClose
PROPERTIES Delivered NotifyReturns
CHECK_DEADLOCK FALSE
