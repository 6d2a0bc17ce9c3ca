SPECIFICATION FairSpec
CONSTANTS
    MaxSample = 3
    MaxBase = 4
    MaxCrash = 1
INVARIANTS
    OneGoalPerLife
PROPERTIES
    ImplementsMission
    MissionProceeds
