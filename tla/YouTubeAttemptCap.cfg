SPECIFICATION Spec
CONSTANTS
    v1 = v1
    v2 = v2
    s1 = s1
    s2 = s2
    st1 = st1
    st2 = st2
    None = None
    Producers = {p1}
    Videos = {v1}
    Contents = {c1}
    Slots = {s1, s2}
    Stems = {st1, st2}
    StemOf <- TwoStems
    Kinds = {"normalized"}
    RunIds = {r1, r2}
    Dests = {d1, d2}
    Windows <- OneVideoWindow
    BatchSize = 1
    MaxTries = 10
    AttemptCap = 10
PROPERTY SavedIsLoadable
CHECK_DEADLOCK FALSE
