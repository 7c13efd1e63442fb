--------------------------- MODULE MCTenantTables ---------------------------
(* Instances of TenantTables for TLC.                                      *)
EXTENDS TenantTables, TLC

\* Nothing tells threads apart.
Symm == Permutations(Threads)
=============================================================================
