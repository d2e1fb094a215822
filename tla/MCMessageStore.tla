--------------------------- MODULE MCMessageStore ---------------------------
(* Instances of MessageStore and StoreFeed for TLC: see the .cfg files. *)
EXTENDS StoreFeed, TLC
CONSTANTS t1, t2, q1, q2, x1, x2, c1, c2, c3, m1, m2

Perms == Permutations(Threads) \cup Permutations(Texts) \cup Permutations(Queues)
         \cup Permutations(Channels) \cup Permutations(MsgIds)
=============================================================================
