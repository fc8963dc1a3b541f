\* Expected violation: states that are not allowed stay in the tables.
SPECIFICATION AskSpec
CONSTANTS
    NState = 4
    MaxCpus = 1
    MaxTasks = 2
    MaxStates = 4
    OnlineCpus = 2
    Invalid = 0
    MaxRaw = 4
INVARIANTS OnlyAllowed
CHECK_DEADLOCK FALSE
