SPECIFICATION Spec
CONSTANTS
    v1 = v1
    v2 = v2
    s1 = s1
    s2 = s2
    st1 = st1
    st2 = st2
    None = None
    Producers = {p1}
    Videos = {v1, v2}
    Contents = {c1, c2}
    Slots = {s1, s2}
    Stems = {st1}
    StemOf <- OneStem
    Kinds = {"normalized"}
    RunIds = {r1, r2, r3}
    Dests = {d1, d2, d3}
    Windows <- ChangingWindows
    BatchSize = 1
    MaxTries = 1
    AttemptCap = 10
SYMMETRY Symmetry
INVARIANTS
    TypeOK
    ResumeIsRecorded
    ProgressIsHonest
PROPERTIES
    InputSurvives
    SavedIsLoadable
CHECK_DEADLOCK FALSE
