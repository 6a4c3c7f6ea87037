---------------------------- MODULE MCTileStore ----------------------------
EXTENDS TileStore, TLC
CONSTANTS t1, t2, w1, w2, b1, b2, b3

StoreSymmetry == Permutations({t1, t2}) \cup Permutations({w1, w2}) \cup Permutations({b1, b2})

\* b1 and b2 are of one length, and so only they are interchangeable.
TwoLengths == (b1 :> 1) @@ (b2 :> 1) @@ (b3 :> 2)
=============================================================================
