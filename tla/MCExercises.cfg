SPECIFICATION FairSpec
CONSTANTS
    Tags = {t1, t2}
    MaxPackages = 3
    Clients = {c1, c2}
    None = None
    MaxHellos = 3
    MaxFaults = 2
    Guests = {c1, c2, c3}
    Subject = c1
    NSlots = 2
    ThreadFds = 3
    Inherited = {0, 1}
    parent = parent
    MaxProcs = 1
    ProcessFds = 2
    MaxRequests = 1
    Readers = {r1, r2}
    writer = writer
    Rounds = 2
    Width = 4
    MaxN = 52
    Initial = 64
    Request = 5
    Sessions = 4
    MaxBytes = 2
    Bytes = {97}
    Stamps <- MCStamps
INVARIANTS
    TypeOK
    Addressed
    InStep
    SlotsUsed
    Excluded
    NumbersRight
PROPERTIES
    Answered
    NoticesEnd
CHECK_DEADLOCK FALSE
