SPECIFICATION FairSpec
CONSTANTS
    Thread = {t1, t2}
    Free = free
    Retries = 1
    Skip = 2
    Name <- Kinds
INVARIANTS
    SentOnce
PROPERTIES
    RequestsEnd
    PricesComeBack
