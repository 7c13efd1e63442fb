--------------------------- MODULE MCAuthSessions ---------------------------
(* Instances of AuthSessions for TLC.                                      *)
EXTENDS AuthSessions, TLC

\* Nothing tells threads apart.
Symm == Permutations(Threads)
=============================================================================
