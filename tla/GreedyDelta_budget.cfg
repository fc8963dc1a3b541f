\* Intervals of the delta and the dynamic programming mutator from every layout.
SPECIFICATION DynSpec
CONSTANTS
    NCpu = 3
    NState = 3
    Delta = 2
    MIN_REQUESTS = 4
    MaxHint = 2
    MaxSleep = 3
    Garbage <- SomeGarbage
    Methods = {"delta", "dynamic"}
    MaxDynHint = 1
INVARIANTS WithinDelta ProvidesLoad AwakeIffNoSleep
INVARIANTS BestWithinDelta EnoughAwake SleepersSlow
CHECK_DEADLOCK FALSE
