---------------------- MODULE MCCheckPipelineRefinement ----------------------
(* Constants shared by the refinement configurations.                       *)
EXTENDS CheckPipelineRefinement, TLC

Symmetry == Permutations(Executor) \cup Permutations(IncidentId)
=============================================================================
