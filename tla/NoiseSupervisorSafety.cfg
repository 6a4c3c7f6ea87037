SPECIFICATION Spec
CONSTANTS
    Requests = {r1, r2, r3, r4}
    PoolSize = 2
    MaxQueue = 1
    MaxFaults = 1
    None = None
SYMMETRY RequestSymmetry
INVARIANTS
    TypeOK
    EveryWaitIsTimed
    SlotsMatchCalls
    ThreadsAreSafe
PROPERTIES
    AnsweredOnce
    PoolSpec
