SPECIFICATION FairSpec
CONSTANTS
    Res = {1, 3, 4, 6}
    Batteries = {0, 10, 20, 80}
    MaxCrash = 1
INVARIANTS
    OneGoalPerVisit
PROPERTIES
    TurnsAreMade
