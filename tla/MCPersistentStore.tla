------------------------- MODULE MCPersistentStore -------------------------
(* Instances of PersistentStore for TLC: see the .cfg files. *)
EXTENDS PersistentStore, TLC
CONSTANTS t1, t2, main, c1, c2

Perms == Permutations(Threads) \cup Permutations(Channels)
=============================================================================
