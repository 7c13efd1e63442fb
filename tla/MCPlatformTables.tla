-------------------------- MODULE MCPlatformTables --------------------------
(* Instances of PlatformTables for TLC.                                    *)
EXTENDS PlatformTables, TLC

\* Nothing tells threads, emails or organizations apart.
Symm == Permutations(Threads) \cup Permutations(Emails) \cup Permutations(Orgs)
=============================================================================
