------------------------ MODULE MCGenerationStore ------------------------
(* Instances of GenerationStore for TLC: the reconcile unit alone, and the *)
(* unit beside a publisher that an operator runs.                          *)
EXTENDS GenerationStore, TLC

CONSTANTS p1, p2

MCUnit == {p1}
MCPair == {p1, p2}
ProcSymmetry == Permutations(MCPair)
=============================================================================
