SPECIFICATION Spec
CONSTANTS
    Builders = {b1, b2}
    Dests = {d1, d2}
    Items = {i1, i2}
    NoDest = NoDest
INVARIANTS
    TypeOK
    PackagesAreWhole
    SealedIffPublished
PROPERTIES
    OccupiedIsKept
    ImplementsWriteOnce
CHECK_DEADLOCK FALSE
