------------------------------ MODULE MCLoads ------------------------------
(* EngineManager with a loader l of two models and a process engine p. *)
EXTENDS EngineManager, TLC

CONSTANTS p, l, mp, m1, m2

MCOwner == [m \in Models |-> IF m = mp THEN p ELSE l]
MCPosition == (l :> 1) @@ (p :> 2)

\* The histories that no guard and no property of the run loads reads.
LoadsView == <<taskVars, swapVars, resident, ready, loaded, late, inflight, severed>>

TaskSymmetry == Permutations(Tasks)
=============================================================================
