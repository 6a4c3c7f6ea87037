SPECIFICATION LoopSpec
CONSTANTS
    Requests = {r1, r2, r3}
    PoolSize = 1
    MaxQueue = 1
    MaxFaults = 2
    None = None
PROPERTIES
    EveryClientAnswered
    PoolRecovers
