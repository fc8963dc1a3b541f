\* Decisions against mutators and inform callbacks.
SPECIFICATION Spec
CONSTANTS
    c1 = c1 c2 = c2 None = None
    NState = 2
    CPUs <- TwoCPUs
    ThisCPU = c1
    Methods <- ThreeMethods
    Ipcs <- LadderIpcs
    Fixed <- LowState
    base_state = 1
    Disabled = FALSE
    Loads <- IdleToFull
    MaxWrites = 2
    MaxDecisions = 1
INVARIANTS OneHintPerDecision RequestIsAState
PROPERTIES DecisionFromOneTable
CHECK_DEADLOCK FALSE
