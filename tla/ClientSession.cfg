SPECIFICATION FairSpec
CONSTANTS
    RefreshBurst = 1
    MaxClicks = 4
    MaxTicks = 1
INVARIANTS
    TypeOK
    ConnectedMeansClient
    ControlsMatchTheLabel
    ClosedCleanly
PROPERTIES
    ConnectingResolves
    ClosingTerminates
