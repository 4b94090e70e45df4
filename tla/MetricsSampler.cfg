SPECIFICATION FairSpec
CONSTANTS
    s1 = s1
    s2 = s2
    Sampler = Sampler
    Streams <- TwoStreams
    Intervals <- AllIntervals
    SampleInterval = 1000
    MaxGeneration = 4
    Word = 4096
    Missing = Missing
    Readings <- ThreeReadings
INVARIANTS
    NoLostWakeup
    SnapshotMatchesGeneration
    QuietTeardown
    MetricsAreCoherent
PROPERTIES
    PacedResponses
    WaiterServed
    TeardownTerminates
CHECK_DEADLOCK FALSE
