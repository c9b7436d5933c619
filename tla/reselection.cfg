SPECIFICATION ListsFairSpec
CONSTANTS
    Ticker = {"s"}
    Traded <- Night
    Settings <- SomeSources
    Fixed = {}
    Moments <- Thanksgiving
    MaxLapse = 1
    MaxRun = 2
PROPERTIES
    OthersKept
    ListsFollow
