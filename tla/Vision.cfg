SPECIFICATION FairSpec
CONSTANTS
    WindowTicks = 4
    FreeTicks = 2
    CooldownTicks = 7
    FaceCount = 3
    QueueSize = 2
    MaxCooldown = 2
    Every = 2
    Depth = 2
INVARIANTS
    DeafOnlyInWindow
    NeitherBlocks
PROPERTIES
    GreetingsApart
    WindowFollowsPeople
    EndsOnInterrupt
