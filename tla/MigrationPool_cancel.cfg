\* Expected violation: work survives cancel_task_work.
SPECIFICATION Spec
CONSTANTS
    c1 = c1 c2 = c2 w1 = w1 w2 = w2 t1 = t1 t2 = t2 k1 = k1 k2 = k2
    NoTask = NoTask NoMask = NoMask NoCPU = NoCPU
    PoolSize = 1
    CPUs <- MCCPUs
    Workers <- MCWorkers1
    Tasks <- MCTasks
    Masks <- MCMasks1
    OfflineMasks <- NoOne
    Mortal <- MCMortal1
INVARIANTS NoWorkAfterRelease
CHECK_DEADLOCK FALSE
