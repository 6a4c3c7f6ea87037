SPECIFICATION Spec
CONSTANTS
    p1 = p1
    p2 = p2
    c1 = c1
    c2 = c2
    road = road
    rail = rail
    Total = total
    Root = root
    None = None
    Layers <- OneLayer
    Columns = {c1}
    MinZoom = 11
    BaseZoom = 12
    Procs = {p1, p2}
    Kinds = {"scoped", "world", "combine", "pyramid", "hub", "pack"}
    MaxRuns = 3
    MaxKills = 1
CHECK_DEADLOCK FALSE
SYMMETRY TransactionSymmetry
INVARIANT TypeOK
INVARIANT DamageIsFenced
INVARIANT PackIsCoherent
INVARIANT OwnersExclude
