SPECIFICATION Spec
CONSTANTS
    p1 = p1
    p2 = p2
    c1 = c1
    c2 = c2
    road = road
    rail = rail
    Total = total
    Root = root
    None = None
    Layers <- OneLayer
    Columns = {c1}
    MinZoom = 12
    BaseZoom = 13
    Procs = {p1, p2}
    Kinds = {"scoped"}
    MaxRuns = 2
    MaxKills = 0
CHECK_DEADLOCK FALSE
PROPERTY ExactRetryFinishes
