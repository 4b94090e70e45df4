SPECIFICATION Spec
CONSTANTS
    RefreshBurst = 1
    MaxClicks = 3
    MaxTicks = 0
INVARIANT
    RunningStreamCanBeStopped
