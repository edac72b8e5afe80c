------------------------------ MODULE MCSwaps ------------------------------
(* EngineManager with process engines p and q and a just-in-time engine j. *)
EXTENDS EngineManager, TLC

CONSTANTS p, q, j, mp, mq, mj

MCOwner == [m \in Models |-> CASE m = mp -> p [] m = mq -> q [] m = mj -> j]
MCPosition == (p :> 1) @@ (j :> 2) @@ (q :> 3)

\* All but settleDue, a history that no guard and no property of the run swaps reads.
SwapsView ==
  <<taskVars, swapVars, resident, ready, loaded, late, exited, stray, inflight, severed>>

TaskSymmetry == Permutations(Tasks)
=============================================================================
