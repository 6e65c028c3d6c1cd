----------------------------- MODULE ClosestPeers -----------------------------
(***************************************************************************)
(* find_closest_peers (backend/dht/routing.py): of the nodes ps those with *)
(* the least XOR distance from a hash.  distance[n] is that of node n;     *)
(* two nodes never have the same, since XOR with one hash is injective.    *)
(***************************************************************************)
EXTENDS Naturals, FiniteSets

(* The nodes of ps that come before node n in the order of their distance *)
Closer(n, distance, ps) == {m \in ps : distance[m] < distance[n]}

FindClosest(distance, ps, k) == {n \in ps : Cardinality(Closer(n, distance, ps)) < k}

(* The node at a place of that order, counted from 0, as a set *)
AtPlace(place, distance, ps) ==
    {n \in ps : Cardinality(Closer(n, distance, ps)) = place}
==============================================================================
