SPECIFICATION Spec
CONSTANTS
    Fns = {f1, f2, f3, f4}
    NULL = NULL
    MAX_SLOTS = 3
    MaxDepth = 2
    MaxDrops = 2
SYMMETRY Symmetry
INVARIANTS
    TableExact
    CalledOnce
    SkipsBounded
