SPECIFICATION LangSpec
CONSTANTS
    Objects = {lib, spare}
    Paths = {"whole", "half", "bare"}
    Exports <- MCExports
    Threads = {main, other}
    Languages <- MCLanguages
    Environments <- MCEnvironments
    FileSystems <- MCFileSystems
    Requests <- MCRequests
INVARIANTS
    PackedIsLocalised
CHECK_DEADLOCK FALSE
