SPECIFICATION WalkSpec
CONSTANTS
    WikiPages = {1, 2, 3, 4}
    Root = 1
    MaxDepth = 2
    AnswerSize = 2
    CacheChoices = {"none"}
    MoveQuota = 2
INVARIANT ChildrenAreFound
