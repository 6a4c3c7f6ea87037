SPECIFICATION PipelinesSpec
CONSTANTS
    Lines = {a1, a2, a3, a4}
    ResidentCells = 2
    NoLine = NoLine
    BatchCount = 5
    BuilderCount = 3
    BatchTiles = 2
    PendingWrites = 2
    AirCells = {c1, c2}
    Streams = {w1, w2}
    PullBatch = 2
    MaxPanics = 1
    NoCell = NoCell
    TileLayers = {road, rail}
    HasPreview = TRUE
    MaxRejects = 1
    Preview = Preview
    Clear = Clear
    NoImage = NoImage
    Buckets = {k1, k2}
    FlatBuckets = {k1}
    Clients = {m1, m2}
    Ttl = 1
    StaleMax = 2
    Window = 2
    PerMin = 2
    PagesMax = 2
    CacheMax = 1
    NoFlight = NoFlight
    Routes = {}
    Checker = checker
    Monitors = {n1}
    FileParts = {"engine"}
    ProbeParts = {"engine"}
    PinCache = 1
    FsCache = 1
    EngineCache = 1
    EngineRetry = 1
    MaxPins = 2
    MaxEvents = 1
    MaxSpan = 1
CHECK_DEADLOCK FALSE
INVARIANTS
    TypesHold
    StreamIsSound
    ListIsPainted
    BuildsAreExclusive
PROPERTIES
    PipelinesEnd
    RequestsEnd
