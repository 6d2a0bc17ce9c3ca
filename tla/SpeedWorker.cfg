SPECIFICATION FairSpec
CONSTANTS
    MinInterval = 2
    MaxCmd = 4
    MaxTime = 4
INVARIANTS
    TakesTheNewest
    Throttled
    AppliedInOrder
PROPERTIES
    QuietAfterExit
    ImplementsChannel
    QueueDrains
    ExitsAfterSignal
