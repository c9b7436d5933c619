SPECIFICATION FairSpec
CONSTANTS
  MaxQty = 2
  MaxBought = 2
  MaxOco = 2
  MaxUser = 1
INVARIANT OcoFitsPosition
INVARIANT RestartKeepsQuantity
PROPERTY TradesOnlyWithoutOco
PROPERTY AccountWins
CHECK_DEADLOCK FALSE
