SPECIFICATION FairSpec
CONSTANTS
  s1 = s1
  s2 = s2
  Symbol = {s1, s2}
  LastDay = 3
  Closed = {3}
  MaxCrash = 1
INVARIANTS
  CoveredOrTold
  
PROPERTIES
  
  ClosingEnds
CHECK_DEADLOCK FALSE
