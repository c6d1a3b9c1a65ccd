----------------------------- MODULE MCMsgQueue -----------------------------
(* Threads and messages for TLC.  The cfg files choose how many of them.    *)
EXTENDS MsgQueue, TLC
CONSTANTS p1, p2, c1, c2, d1, d2, m1, m2
MCSymmetry == Permutations(Producers) \cup Permutations(Consumers)
              \cup Permutations(Droppers) \cup Permutations(Ids)
=============================================================================
