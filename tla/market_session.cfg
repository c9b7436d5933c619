SPECIFICATION SessionSpec
CONSTANTS
    LastDay = 3
    Holiday = {2}
    MaxFail = 1
    MaxBackTest = 1
    MaxPass = 2
INVARIANTS
    RestsWronglyOnce
    
