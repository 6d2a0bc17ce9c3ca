SPECIFICATION AudioSpec
CONSTANTS
    MaxRequests = 3
    MaxPlayers = 3
    CooldownTime = 1
CHECK_DEADLOCK FALSE
INVARIANTS
    SilentOnRelease
