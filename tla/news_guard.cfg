SPECIFICATION GuardSpec
CONSTANTS
    Engine = {"domestic"}
    Warmer = {"warm"}
    Symbol = {"A"}
    Titles = {"quiet", "grave"}
    Risky = {"grave"}
    Ai = {"domestic"}
    Avoid = {"page"}
    Dir <- OneDirectory
    Cap = 1
    TTL = 1
    DayLength = 1
    LastTime = 2
    MaxNews = 1
    MaxFail = 1
    MaxCrash = 1
INVARIANTS
    CapPerThread
    AnswersAreRecent
    OnlyBadNewsRefuses
