---------------------------- MODULE Publication ----------------------------
(***************************************************************************)
(* What publishing promises: every layer shows the work of one pack run.   *)
(* A run replaces the layers it packed all at once and leaves the others   *)
(* alone, a crash of the host undoes at most the last replacement, and     *)
(* only until it has settled.                                              *)
(***************************************************************************)
EXTENDS Naturals

CONSTANTS Layers, MaxPacks

VARIABLES
    shows,      \* the run each layer shows, 0 before the first
    settled     \* what a crash of the host falls back to

vars == <<shows, settled>>

Runs == 0 .. MaxPacks

TypeOK == shows \in [Layers -> Runs] /\ settled \in [Layers -> Runs]

Init == shows = [l \in Layers |-> 0] /\ settled = shows

\* A run replaces what older runs left in the layers it packed; l is one of them.
Commit(l) ==
    LET r == shows'[l]
    IN  /\ \A k \in Layers : shows[k] < r
        /\ shows' \in [Layers -> Runs]
        /\ \A k \in Layers : shows'[k] \in {shows[k], r}
        /\ UNCHANGED settled

Settle == settled' = shows /\ UNCHANGED shows

Lose == shows' = settled /\ UNCHANGED settled

Next ==
    \/ \E l \in Layers : Commit(l)
    \/ Settle
    \/ Lose

Spec == Init /\ [][Next]_vars
=============================================================================
