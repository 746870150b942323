\* Two callers, four sockets of which two exist at a time, three identifiers:
\* the counter wraps onto identifiers that are in use.
CONSTANTS
    Worker = {w1, w2}
    Handle = {h1, h2}
    Mixes <- MCMixes
    MaxOpens = 4
    MaxPackets = 1
    MaxWrites = 1
    IdMod = 3
    None = None
SPECIFICATION FairSpec
CHECK_DEADLOCK FALSE
INVARIANTS
    OneHome
    PacketIntact
    NoByteTwice
PROPERTIES
    StoreCompletes
