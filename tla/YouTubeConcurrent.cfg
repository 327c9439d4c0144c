SPECIFICATION Spec
CONSTANTS
    v1 = v1
    v2 = v2
    s1 = s1
    s2 = s2
    st1 = st1
    st2 = st2
    None = None
    Producers = {p1, p2}
    Videos = {v1}
    Contents = {c1, c2}
    Slots = {s1, s2}
    Stems = {st1, st2}
    StemOf <- TwoStems
    Kinds = {"normalized"}
    RunIds = {r1, r2, r3}
    Dests = {d1, d2, d3}
    Windows <- OneVideoWindow
    BatchSize = 1
    MaxTries = 1
    AttemptCap = 10
SYMMETRY Symmetry
INVARIANTS
    CheckpointsArePublished
    UnchangedWasAcquired
CHECK_DEADLOCK FALSE
