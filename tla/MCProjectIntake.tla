--------------------------- MODULE MCProjectIntake ---------------------------
(* Symmetry and constraint of the configuration of ProjectIntake: behaviours *)
(* are followed up to the first write of an overtaken handler, after which   *)
(* the properties excuse the rows it wrote.                                  *)
EXTENDS ProjectIntake, TLC

NothingRaced == raced = {}
Symmetry == Permutations(Request) \cup Permutations(Project) \cup Permutations(Website) \cup Permutations(Handler)
=============================================================================
