SPECIFICATION ServerSpec
CONSTANTS
    PublishedLayers <- TwoLayers
    Years = {2020, 2021}
    Envs = {prod}
    Tabs = {t1}
    Grace = 2
    Poll = 1
    MaxBuild = 2
    MaxPacks = 2
    MaxFaults = 2
    None = None
    Releases = {a, b, c}
    Servers = {s1, s2}
    NoRelease = NoRelease
    MaxCrashes = 2
    Buckets = {k1, k2, k3}
    FlatBuckets = {k1}
    Clients = {m1, m2}
    Ttl = 1
    StaleMax = 2
    Window = 2
    PerMin = 2
    PagesMax = 2
    CacheMax = 2
    NoFlight = NoFlight
    TileLayers = {road, rail, rotor}
    HasPreview = TRUE
    MaxRejects = 1
    Preview = Preview
    Clear = Clear
    NoImage = NoImage
    Routes = {g1}
    Checker = checker
    Monitors = {n1}
    FileParts = {"engine"}
    ProbeParts = {"engine"}
    PinCache = 1
    FsCache = 2
    EngineCache = 1
    EngineRetry = 1
    MaxPins = 2
    MaxEvents = 1
    MaxSpan = 1
    Archives = {ka, kb}
    TileRequests = {q1, q2}
    ArchiveMax = 1
    LandTiles = {l1, l2}
    SeaTiles = {sea}
    TileReads = {v1, v2}
    MaxTiles = 1
    WallCells = {w1, w2}
    NoTile = NoTile
CHECK_DEADLOCK FALSE
INVARIANTS
    TypesHold
    ArchivesMatchReferences
    BrowsersAreServed
    HeadIsTrue
    ReleasesAreKept
    SearchIsHonest
    TileConverges
    CachesAreSound
PROPERTIES
    PublicationSpec
    DistStays
    CopiesServe
    ImageIsNotDegraded
    CachesAreHonest
