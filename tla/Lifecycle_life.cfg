\* The module is loaded, fails or runs, and is removed while others use seeker-cpufreq.
SPECIFICATION Spec
CONSTANTS
    Scheduler = "scheduler"
    Mutator = "walker"
    User = {"scheduler", "other"}
    Walker = {"walker"}
    NNode = 2
    MaxId = 2
    MayFail = {"other"}
    Refusals <- AllRefusals
    MutationMethods = {"static", "known", "unknown"}
INVARIANTS ListIntact InformedOnce
PROPERTIES MutatorRuns LoaderReturns
CHECK_DEADLOCK FALSE
