--------------------------- MODULE MCCheckPipeline ---------------------------
(* Constants shared by the configurations of CheckPipeline.                 *)
EXTENDS CheckPipeline, TLC

Symmetry == Permutations(Executor) \cup Permutations(IncidentId)
=============================================================================
