SPECIFICATION CollectorsSpec
CONSTANTS
    Pids = {3, 4}
    Agent = 2
    Inodes = {100}
    Requested <- MCRequested
    MaxReuse = 2
    Word = 4096
    Int32Max = 2047
    Uint32Max = 127
    Tokens <- NameChars
    PrintedProcesses <- MCProcesses
    PrintedSockets <- MCSockets
    AddressLists <- MCAddressLists
    Files <- MCFiles
    Keywords <- MCKeywords
    MaximumLines = 2
    LineCap = 4
    BlockSize = 2
    ScanCap = 5
    Appended = 10
INVARIANTS
    SnapshotsAreTrue
    OwnersAreReal
    OnlyTheNamedProcess
    TextsReadBack
    ReadTypeOK
    AnswerIsTheTail
    UnmarkedIsComplete
