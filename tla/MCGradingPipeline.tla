-------------------------- MODULE MCGradingPipeline --------------------------
(* Small instances of GradingPipeline for TLC. *)
EXTENDS GradingPipeline, TLC

CONSTANTS s1, s2, w1, w2, k1, k2

(* Two processes of one slot each, and one process of one slot. *)
TwoProcesses == k1 :> w1 @@ k2 :> w2
SingleSlot   == k1 :> w1

EveryFault     == AllFaults
ForcedRestarts == {"sigterm", "force"}

Symmetric == Permutations(Submissions)
=============================================================================
