SPECIFICATION Spec
CONSTANTS
    MaxSlots = 2
    GenMod = 4
    MaxObj = 6
    Clients = {c1, c2}
SYMMETRY Symmetry
INVARIANTS
    TypeOK
    FreeListExact
    HandleSafe
PROPERTIES
    ImplementsStore
