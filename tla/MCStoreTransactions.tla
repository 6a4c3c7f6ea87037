------------------------ MODULE MCStoreTransactions ------------------------
EXTENDS StoreTransactions, TLC
CONSTANTS p1, p2, c1, c2, road, rail

OneLayer == <<road>>
TwoLayers == <<road, rail>>
TransactionSymmetry == Permutations(Procs)
=============================================================================
