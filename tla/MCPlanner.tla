----------------------------- MODULE MCPlanner -----------------------------
(* TLC instance of Planner: every list of at most MaxDeps dependencies.    *)
EXTENDS Planner, TLC

CONSTANTS n1, n2, n3, n4

MCNode == {n1, n2, n3, n4}
NodeSymmetry == Permutations(MCNode)
=============================================================================
