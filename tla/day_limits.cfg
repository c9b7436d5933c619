SPECIFICATION Spec
CONSTANTS
  Symbols = {s1, s2, s3}
  MaxPositions = 2
  MaxTrades = 3
  MaxLosses = 1
  ReduceAfterLoss = FALSE
  DailyLimit = 2
  WeeklyLimit = 3
  DegradeAfter = 1
  Marks <- OneLoss
  Outcomes <- OneLoss
  Days = 2
  MaxDropped = 1
  MaxCrashes = 1
SYMMETRY Shuffles
INVARIANT TradesStayInBudget
INVARIANT PositionsStayInCap
 
PROPERTY HaltLastsTheDay
