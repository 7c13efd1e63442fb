-------------------------- MODULE MCConfigSnapshots --------------------------
(* Instances of ConfigSnapshots for TLC.                                   *)
EXTENDS ConfigSnapshots

\* The store is new, or holds three snapshots of one tenant, a second apart, none active.
MCStores ==
    {<<>>} \cup {[i \in 1..3 |-> [tenant |-> tn, version |-> "1.0.0", content |-> "types",
                                   created |-> i - 1, active |-> FALSE]] : tn \in Tenants}

\* Threads and tenants are interchangeable.
Symm == Permutations(Threads) \cup Permutations(Tenants)
=============================================================================
