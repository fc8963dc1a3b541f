\* Expected violation: rmmod leaves works behind that run in freed code.
SPECIFICATION Spec
CONSTANTS
    Scheduler = "scheduler"
    Mutator = "walker"
    User = {"scheduler", "other"}
    Walker = {"walker"}
    NNode = 2
    MaxId = 2
    MayFail = {"other"}
    Refusals = {}
    MutationMethods = {"known"}
INVARIANTS NothingOutlivesModule
CHECK_DEADLOCK FALSE
