--------------------------- MODULE MCChainRunner ---------------------------
(***************************************************************************)
(* The chain runner over a plan with a floored step and one whose cache    *)
(* may be missing, and the plan that the manifest resolves to without the  *)
(* second: one is put in, or taken out, between two runs.                  *)
(***************************************************************************)
EXTENDS ChainRunner

ChainPlans == <<<<"eu", "roads", "gate", "structures">>, <<"eu", "gate", "structures">>>>
=============================================================================
