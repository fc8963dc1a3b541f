\* No task exits: a slot has one owner at a time, and every accepted request
\* reaches its task.
SPECIFICATION FairSpec
CONSTANTS
    c1 = c1 c2 = c2 w1 = w1 w2 = w2 t1 = t1 t2 = t2 k1 = k1 k2 = k2
    NoTask = NoTask NoMask = NoMask NoCPU = NoCPU
    PoolSize = 1
    CPUs <- MCCPUs
    Workers <- MCWorkers
    Tasks <- MCTasks
    Masks <- MCMasks
    OfflineMasks <- NoOne
    Mortal <- NoOne
INVARIANTS OneOwner
PROPERTIES RequestApplied
