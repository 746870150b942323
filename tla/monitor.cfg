SPECIFICATION FairSpec
CONSTANTS
    mon1 = mon1
    mon2 = mon2
    rpc1 = rpc1
    rpc2 = rpc2
    NoSocket = NoSocket
    Socket = {mon1, mon2}
    Rpc = {rpc1, rpc2}
    Calls <- MonitorCalls
    Cap = 2
    Chunk = 2
    ReadSizes = {2}
    MaxChunks = 1
INVARIANTS
    CounterFollowsPipe
    WriterCanBeDrained
    ReadFindsData
    NoOrphanSocket
    NoDeadEntry
PROPERTIES
    LeftMeansForgotten
CHECK_DEADLOCK FALSE
