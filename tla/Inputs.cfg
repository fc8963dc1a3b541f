\* The searches and the frequency tables over every small input, the launcher
\* for every short command line, and the log daemon.
SPECIFICATION InputsSpec
CONSTANTS
    NState = 4
    MaxCpus = 1
    MaxTasks = 2
    MaxStates = 4
    OnlineCpus = 2
    Invalid = 0
    MaxRaw = 4
    CORE = "core"
    MaxApps = 3
    Word = {"core", "x", "y"}
    MaxWords = 7
    MaxRecords = 4
    MaxChunk = 2
    MaxCount = 3
    Existing = {3}
INVARIANTS NearestThatWay ClosestIsNearest PrunedAsAllowed
INVARIANTS ParsedAsMeant AllReaped FilesInOrder
PROPERTIES KillEndsAll RotationHappens
CHECK_DEADLOCK FALSE
