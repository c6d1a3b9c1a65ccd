--------------------------- MODULE MCMsgQueueApp ---------------------------
(* Threads for TLC, created in the order of main.c.                        *)
EXTENDS MsgQueueApp
CONSTANTS p1, p2, c1, c2
MCIds   == Producers \X (0 .. PutAttempts - 1)
MCOrder == SelectSeq(<<p1, c1, p2, c2>>, LAMBDA t : t \in Callers)
=============================================================================
