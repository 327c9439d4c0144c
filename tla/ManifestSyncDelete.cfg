SPECIFICATION Spec
CONSTANTS
    Missing = Missing
    Partial = Partial
    p1 = p1
    p2 = p2
    Pages = {p1, p2}
    Scopes <- WholeSpace
    FlagSets <- LiveFlags
    UseFetchCache = FALSE
    Deletable = {p1, p2}
    Budget = 4
INVARIANT SkippedIsCurrent
CHECK_DEADLOCK FALSE
