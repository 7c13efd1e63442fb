-------------------------- MODULE MCServerLifecycle --------------------------
(* Instances of ServerLifecycle for TLC.                                   *)
EXTENDS ServerLifecycle, TLC

\* Callers, pool threads and sockets are interchangeable.
Symm == Permutations(Callers) \cup Permutations(Workers) \cup Permutations(Sockets)
=============================================================================
