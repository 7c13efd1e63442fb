------------------------ MODULE MCSubscriptionBroker ------------------------
(* Instances of SubscriptionBroker for TLC.                                *)
EXTENDS SubscriptionBroker, TLC

\* Nothing in the broker tells threads, sockets, topics or auth sessions apart.
Symm == Permutations(Threads) \cup Permutations(Sessions)
          \cup Permutations(Topics) \cup Permutations(AuthSessions)
=============================================================================
