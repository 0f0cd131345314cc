SPECIFICATION FairSpec
CONSTANTS
    Clients = {c1, c2}
    parent = parent
    MaxProcs = 2
    MaxFds = 2
    MaxRequests = 1
PROPERTIES
    Reaped
CHECK_DEADLOCK FALSE
