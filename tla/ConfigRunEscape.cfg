SPECIFICATION ConfigSpec
CONSTANTS
    d1 = d1
    d2 = d2
    LastRun = 3
    RunDirs = {d1, d2}
    DirOf <- ThreeRunDirs
    EnabledRuns = {1, 2}
    Unguarded = {1}
INVARIANT KeepsGoing
CHECK_DEADLOCK FALSE
