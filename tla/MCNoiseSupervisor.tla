------------------------- MODULE MCNoiseSupervisor -------------------------
(* Instances of NoiseSupervisor for TLC. *)
EXTENDS NoiseSupervisor, TLC

\* Callers are interchangeable in the safety properties.
RequestSymmetry == Permutations(Requests)
=============================================================================
