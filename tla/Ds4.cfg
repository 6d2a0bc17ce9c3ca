SPECIFICATION FairSpec
CONSTANTS
    MaxPads = 2
    MaxFeedback = 2
CHECK_DEADLOCK FALSE
INVARIANTS
    SurvivesReconnects
    ReleasedAtExit
PROPERTIES
    DisconnectNoticed
    TimedRumbleEnds
