SPECIFICATION FairSpec
CONSTANTS
    Topics = {"nav_name", "cancel_nav"}
    Fields = {"battery", "velocity"}
    MaxSample = 2
    MaxBase = 1
    MaxCrash = 1
INVARIANTS
    AppliedAsPosted
PROPERTIES
    PublishedReadings
    ReadingsNeverGoBack
    CommandsServed
    PollingGoesOn
