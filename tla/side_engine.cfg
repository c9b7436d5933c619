SPECIFICATION Spec
CONSTANTS
  s1 = s1
  s2 = s2
  Symbol = {s1, s2}
  Engines = {"overseas", "crypto"}
  MaxPositions = 2
  MaxLot = 2
  UserShares = 0
  MaxFail = 1
  MaxCrash = 1
  MaxClose = 1
SYMMETRY Symmetry

  
  
PROPERTIES
  NoRebuyWhileCooling
CHECK_DEADLOCK FALSE
