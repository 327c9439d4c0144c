SPECIFICATION FairSpec
CONSTANTS
    Missing = Missing
    Partial = Partial
    p1 = p1
    p2 = p2
    Pages = {p1, p2}
    Scopes <- WholeSpace
    FlagSets <- LiveFlags
    UseFetchCache = TRUE
    Deletable = {}
    Budget = 4
INVARIANTS
    TypeOK
    SkippedIsCurrent
PROPERTIES
    NeverOlder
    FinishedIsFresh
    Converges
CHECK_DEADLOCK FALSE
