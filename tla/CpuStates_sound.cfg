\* Every mutator; users write while none is running, and the driver refuses
\* what it likes except to the delta mutator.
SPECIFICATION Spec
CONSTANTS
    u1 = u1 u2 = u2 Scheduler = Scheduler Nobody = Nobody
    NCpu = 2
    NState = 3
    Users <- TwoUsers
    Mutations <- AllMutations
    DriverFails <- ButDelta
    UsersWrite <- StaticOnly
INVARIANTS BooksBalance ReflectsHardware OfferedAsRun
