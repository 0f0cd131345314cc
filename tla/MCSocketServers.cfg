SPECIFICATION FairSpec
CONSTANTS
    Clients = {c1, c2, c3}
    Few = {c1, c2}
    Chunks = 3
    PollChunks = 2
    listenfd = 1
    NoFd = NoFd
    MAX_FDS = 3
    MaxEvents = 2
INVARIANTS
    TypeOK
    Watched
    NeverBlocks
    OneLateReply
PROPERTIES
    ImplementsService
    Served
CHECK_DEADLOCK FALSE
