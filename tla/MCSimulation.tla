--------------------------- MODULE MCSimulation ---------------------------
(* Instances of Simulation, with both modes of the page, for TLC: see the  *)
(* .cfg files.                                                             *)
EXTENDS Simulation, TLC
CONSTANTS t1, t2, q1, q2, x1, x2, c1, c2, m1, m2, s1, s2

Perms == Permutations(Threads) \cup Permutations(Queues) \cup Permutations(Streams)
         \cup Permutations(Channels) \cup Permutations(Texts) \cup Permutations(MsgIds)
=============================================================================
