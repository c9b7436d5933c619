SPECIFICATION FairSpec
CONSTANTS
    Drafts <- MCDrafts
    Accounts <- MCAccounts
    Days = 2
    MaxQueue = 3
    MaxErrors = 1
INVARIANTS
    
    LossesAreTold
PROPERTIES
    StopEnds
