SPECIFICATION FairSpec
CONSTANTS
    h1 = h1
    h2 = h2
    Handlers <- TwoHandlers
    Kinds = {"list", "control", "bundle"}
    Services = 2
    OutputCap = 2
    Capacity = 1
    Sizes = {0, 1, 3}
    MaxCalls = 2
INVARIANTS
    TypeOK
    OutputIsWhole
PROPERTY
    CallsReturn
