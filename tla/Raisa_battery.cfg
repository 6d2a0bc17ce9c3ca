SPECIFICATION FairSpec
CONSTANTS
    MaxSample = 1
    MaxBase = 2
    MaxCrash = 0
PROPERTIES
    CriticalBatteryCancels
