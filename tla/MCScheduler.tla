----------------------------- MODULE MCScheduler -----------------------------
(* Two scheduler instances; one website due every minute, one every second  *)
(* minute.                                                                  *)
EXTENDS Scheduler, TLC

CONSTANTS w1, w2
MCWebsite == {w1, w2}
MCInterval == (w1 :> 1) @@ (w2 :> 2)
Symmetry == Permutations(Instance)
=============================================================================
