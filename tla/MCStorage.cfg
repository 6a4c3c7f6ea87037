SPECIFICATION StorageSpec
CONSTANTS
    t1 = t1
    t2 = t2
    w1 = w1
    w2 = w2
    b1 = b1
    b2 = b2
    b3 = b3
    Tiles = {t1, t2}
    Blobs = {b1, b2, b3}
    BlobLen <- TwoLengths
    Writers = {w1, w2}
    Header = 1
    Block = 2
    LogLimit = 4
    MaxKills = 1
    MaxCrashes = 1
    None = None
    Manifests <- ChainPlans
    Floored = {"eu"}
    Skippable = {"roads"}
    Phases = {"all", "structures"}
    MaxPlans = 2
    NoChain = NoChain
    h1 = h1
    near = near
    far = far
    QueryCells = {h1}
    Points = {near, far}
    Ring <- Rings
    QueryWorkers = {q1, q2}
    MemoCap = 1
    ResultCap = 1
    MaxVersions = 2
    NoPoint = NoPoint
    NoCell = NoCell
SYMMETRY StoreSymmetry
INVARIANT TypeOK
INVARIANT NoOverwrite
INVARIANT ReadsAreTrue
INVARIANT ChainIsSound
INVARIANT QueriesAreTrue
PROPERTY HeldEntriesStable
PROPERTY MapSpec
