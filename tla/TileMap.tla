------------------------------ MODULE TileMap ------------------------------
(***************************************************************************)
(* What one (layer, zoom) tile store promises its users: a map from tiles  *)
(* to blobs whose writes are atomic, that no crash of a process changes,   *)
(* and of which a crash of the host may undo or spoil only what was        *)
(* written since the last sync_all (tile_store/mod.rs, "Crash contract").  *)
(***************************************************************************)
CONSTANTS Tiles, Blobs, Absent, Garbage   \* Absent and Garbage are no blobs

VARIABLES
    map,    \* what a read of each tile returns
    saved   \* what it may return after a crash of the host

mapVars == <<map, saved>>

Contents == Blobs \cup {Absent, Garbage}

Init ==
    /\ map = [t \in Tiles |-> Absent]
    /\ saved = [t \in Tiles |-> {Absent}]

\* A blob's bytes may be lost although its index entry survives.
Put(t, b) ==
    /\ map' = [map EXCEPT ![t] = b]
    /\ saved' = [saved EXCEPT ![t] = @ \cup {b, Garbage}]

Delete(t) ==
    /\ map' = [map EXCEPT ![t] = Absent]
    /\ saved' = [saved EXCEPT ![t] = @ \cup {Absent}]

\* Some of what was written reaches the disk.
Harden ==
    /\ saved' \in [Tiles -> SUBSET Contents]
    /\ \A t \in Tiles : saved'[t] \subseteq saved[t] /\ map[t] \in saved'[t]
    /\ UNCHANGED map

PowerLoss ==
    /\ map' \in [Tiles -> Contents]
    /\ \A t \in Tiles : map'[t] \in saved[t]
    /\ saved' = [t \in Tiles |-> {map'[t]}]

Next ==
    \/ \E t \in Tiles : Delete(t) \/ \E b \in Blobs : Put(t, b)
    \/ Harden
    \/ PowerLoss

Spec == Init /\ [][Next]_mapVars
=============================================================================
