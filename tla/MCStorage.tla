----------------------------- MODULE MCStorage -----------------------------
(***************************************************************************)
(* The data on disk: the enrichment chain that prepares it, the tile store *)
(* it is painted into and the caches a point query reads it through, in    *)
(* one run of TLC for their safety.  They share nothing: focus names the   *)
(* one that moves and the others stay in their initial states, so that the *)
(* states are the sum of theirs.                                           *)
(***************************************************************************)
EXTENDS MCTileStore, MCChainRunner, PointQueries

CONSTANTS h1, near, far

VARIABLE focus

StorageVars == <<vars, crVars, pqVars, focus>>

\* One point inland, and one whose ring lies outside the prepared world.
Rings == (near :> {h1}) @@ (far :> {})

\* The chain finds a baseline that is foreign until it is sealed.
StorageInit ==
    /\ focus \in {"store", "chain", "queries"}
    /\ Init
    /\ CrInit
    /\ PqInit
    /\ focus = "chain" <=> crBaseline = "foreign"
    /\ crBaseline # "sealed"

\* A chain that has ended may rest; the store may not.
StorageNext ==
    /\ UNCHANGED focus
    /\ \/ focus = "store" /\ Next /\ UNCHANGED <<crVars, pqVars>>
       \/ focus = "chain" /\ CrNext /\ UNCHANGED <<vars, pqVars>>
       \/ focus = "chain" /\ UNCHANGED <<vars, crVars, pqVars>>
       \/ focus = "queries" /\ PqNext /\ UNCHANGED <<vars, crVars>>

StorageSpec == StorageInit /\ [][StorageNext]_StorageVars

=============================================================================
