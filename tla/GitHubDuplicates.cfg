SPECIFICATION CommandSpec
CONSTANTS
    Clients = {c}
    Names = {main, rel}
    Main = main
    Requests <- Request
    f = f
    g = g
    Files = {f, g}
    LastCommit = 2
    Tracked <- SomeTracked
    TagsMove = TRUE
    LastRecord = 4
    LastText = 2
    PageSize = 2
    FlagChoices <- SomeFlags
    TextsReturn = FALSE
    Quota = 3
    Torn = torn
    WikiPages = {1, 2, 3, 4}
    Root = 1
    MaxDepth = 2
    AnswerSize = 2
    CacheChoices = {"use", "refresh", "clear"}
    MoveQuota = 2
    LastItem = 4
    LastComment = 4
    PullItems = {1, 3}
    PerPage = 2
    LimitChoices = {0, 1}
    Meddling = 2
    LastSpacePage = 5
    ResultLimit = 2
    SpaceQuota = 3
    Writers = {u, v}
    LastSource = 3
    LastContent = 2
    PathOf <- SomePaths
    Selections <- SomeSelections
    PruneChoices <- SomePrunes
    Upsets = 1
    Publishers = {p, q}
    LastEdition = 1
    Unprintable = {}
    LastDocument = 2
    MaxMisses = 1
    MaxTurns = 1
    gh = gh
    docs = docs
    Folders = {gh, docs}
    LastId = 2
    LastVersion = 2
    Hashing = {gh}
    Marking = {gh}
    InputChoices <- SomeInputs
    OptionChoices <- SomeOptions
    SizeOf <- SomeSizes
    Separator = 1
    FolderQuota = 2
    Contents = {"done", "failed", "twice", "body"}
    LastPath = 3
    Says <- SomeSays
    Digests = {"whole", "shared", "repeated", "miscounted", "later",
               "nameless"}
    ManifestOf <- SomeManifests
    AlterQuota = 2
    d1 = d1
    d2 = d2
    LastRun = 3
    RunDirs = {d1, d2}
    DirOf <- ThreeRunDirs
    EnabledRuns = {1, 2}
    Unguarded = {1}
INVARIANT OneEntryPerRecord
