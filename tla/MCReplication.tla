---------------------------- MODULE MCReplication ----------------------------
EXTENDS Replication, TLC
CONSTANTS p, q
(* Of two peers, p is the nearer one to every chunk. *)
Distances == [ch \in Chunks |-> [n \in Peers |-> IF n = p THEN 1 ELSE 2]]
==============================================================================
