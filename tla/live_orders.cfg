SPECIFICATION FairSpec
CONSTANTS
  Coid <- ThreeOrders
  MaxQty = 2
  Sizes = {2}
  Tries = 2
  Retries = 1
INVARIANT SentIsAtTheExchange
INVARIANT BookNeverOverstates
INVARIANT HaltsWhenUnconfirmed
PROPERTY SendsOnce
PROPERTY CallsReturn
