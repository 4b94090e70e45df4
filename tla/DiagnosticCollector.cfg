SPECIFICATION Spec
CONSTANTS
    c1 = c1
    c2 = c2
    d1 = d1
    NoThread = NoThread
    Creators <- TwoCreators
    Downloads <- OneDownload
    MaximumBundles = 2
    MaxId = 4
    RemovalMayFail = TRUE
SYMMETRY CreatorSymmetry
INVARIANTS
    RegistryBacked
    EvictsOldestOnly
    NothingLeftBehind
PROPERTY
    ImplementsBundleStore
