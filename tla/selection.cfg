SPECIFICATION SelectionSpec
CONSTANTS
    EntryOrder <- MCEntryOrder
    ExitEnabled = {"fixed", "trailing", "atr_stop", "momentum_fade"}
    BestSignal = TRUE
    Learning = "entry_pref"
    Weight = 50
    MinTrades = 5
    Boost = 120
    MinMembersUp = 1
    StopLoss = 6
    TakeProfit = 10
    TrailArm = 11
    TrailDrop = 5
    ScaleOut = TRUE
    Stock = {"a1", "a2", "b1", "w"}
    Theme = {"semis", "bio"}
    Members <- MCMembers
    Watchlist <- MCWatchlist
    TopThemes = 2
    PerTheme = 1
    Spare = 1
    MinPrice = 5
    MaxPrice = 50
    MinChange = 3
    MaxChange = 20
    MinAmount = 60
    Rankings <- MCRankings
    Vets <- MCVets
    Chartings <- MCChartings
    Stats <- MCStats
    Signs <- MCSigns
    Hours <- MCHours
    Price = {94, 100, 103, 112}
    BuyPrice = {100}
    MaxPositions = 2
    DailyMaxTrades = 2
    FirstExit = 5
    MaxAdds = 1
    AddStep = 3
INVARIANTS FairShare  LossesAreCut
PROPERTIES StrongestFirst BuysOnASignal
