SPECIFICATION CliSpec
CONSTANTS
    Chunks = 3
    Fronts = {"worker", "cli"}
    CommandLines <- MCCommandLines
    Int32Max = 7
    Int64Max = 31
    Word = 128
    MaxCount = 3
    MaxLogs = 2
    MaxMessages = 4
INVARIANTS
    WorkerKeepsItsPromise
    SavedIsComplete
    SuccessIsComplete
    ControlsAsTyped
PROPERTY
    ProgramEnds
