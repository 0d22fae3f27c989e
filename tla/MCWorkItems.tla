---------------------------- MODULE MCWorkItems ----------------------------
(* Staff create tickets of an incident and its website, outside projects;  *)
(* assigned, they have a task.  The worker creates tickets of an incident. *)
EXTENDS WorkItems, TLC

MCKinds == {<<TRUE, TRUE, FALSE>>}
Symmetry == Permutations(Developer) \cup Permutations(Handler)
=============================================================================
