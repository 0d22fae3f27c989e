--------------------------- MODULE MCAuthSessions ---------------------------
(* Symmetry of the configuration of AuthSessions.                           *)
EXTENDS AuthSessions, TLC

Symmetry == Permutations(Session) \cup Permutations(ResetToken) \cup Permutations(Handler)
=============================================================================
