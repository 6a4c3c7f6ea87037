SPECIFICATION Spec
CONSTANTS
    t1 = t1
    t2 = t2
    w1 = w1
    w2 = w2
    b1 = b1
    b2 = b2
    b3 = b3
    Tiles = {t1, t2}
    Blobs = {b1, b2, b3}
    BlobLen <- TwoLengths
    Writers = {w1, w2}
    Header = 1
    Block = 2
    LogLimit = 4
    MaxKills = 1
    MaxCrashes = 2
    None = None
SYMMETRY StoreSymmetry
INVARIANT NeverSilentlyWrong
