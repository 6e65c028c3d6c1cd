-------------------------- MODULE ClosestPeersProofs --------------------------
(***************************************************************************)
(* find_closest_peers gives as many peers as it is asked for, or all there *)
(* are, and each place of its order is taken by one peer.                  *)
(***************************************************************************)
EXTENDS ClosestPeers, FiniteSetTheorems, TLAPS

Ordered(distance, ps) ==
    /\ IsFiniteSet(ps) /\ \A n \in ps : distance[n] \in Nat
    /\ \A m, n \in ps : distance[m] = distance[n] => m = n

(* The place of each node in the order *)
Place(distance, ps) == [n \in ps |-> Cardinality(Closer(n, distance, ps))]

(* Nodes before n are as many as its place says, and n is not one of them. *)
LEMMA CloserFacts ==
    ASSUME NEW ps, NEW distance, Ordered(distance, ps), NEW n \in ps
    PROVE  /\ IsFiniteSet(Closer(n, distance, ps))
           /\ Cardinality(Closer(n, distance, ps)) \in 0 .. Cardinality(ps) - 1
<1>. DEFINE C == Closer(n, distance, ps)
<1>1. IsFiniteSet(ps) /\ Cardinality(ps) \in Nat
  BY FS_CardinalityType DEF Ordered
<1>2. C \subseteq ps \ {n}
  BY DEF Closer, Ordered
<1>3. IsFiniteSet(ps \ {n}) /\ Cardinality(ps \ {n}) = Cardinality(ps) - 1
  BY <1>1, FS_RemoveElement
<1>. HIDE DEF C
<1>4. IsFiniteSet(C) /\ Cardinality(C) <= Cardinality(ps) - 1
  BY <1>2, <1>3, FS_Subset
<1>5. Cardinality(C) \in Nat
  BY <1>4, FS_CardinalityType
<1>. QED  BY <1>1, <1>4, <1>5 DEF C

(* The nearer of two nodes has the lower place. *)
LEMMA PlacesFollowDistance ==
    ASSUME NEW ps, NEW distance, Ordered(distance, ps),
           NEW a \in ps, NEW b \in ps, distance[a] < distance[b]
    PROVE  Cardinality(Closer(a, distance, ps)) < Cardinality(Closer(b, distance, ps))
<1>1. Closer(a, distance, ps) \subseteq Closer(b, distance, ps)
  BY DEF Closer, Ordered
<1>2. a \in Closer(b, distance, ps) /\ a \notin Closer(a, distance, ps)
  BY DEF Closer, Ordered
<1>3. IsFiniteSet(Closer(b, distance, ps))
  BY CloserFacts
<1>4. /\ Cardinality(Closer(a, distance, ps)) <= Cardinality(Closer(b, distance, ps))
      /\ Cardinality(Closer(a, distance, ps)) # Cardinality(Closer(b, distance, ps))
  BY <1>1, <1>2, <1>3, FS_Subset
<1>5. /\ Cardinality(Closer(a, distance, ps)) \in Nat
      /\ Cardinality(Closer(b, distance, ps)) \in Nat
  BY <1>1, <1>3, FS_Subset, FS_CardinalityType
<1>. QED  BY <1>4, <1>5

(* Every place from 0 on, up to the number of nodes, is taken once. *)
LEMMA PlaceIsBijection ==
    ASSUME NEW ps, NEW distance, Ordered(distance, ps)
    PROVE  Place(distance, ps) \in Bijection(ps, 0 .. Cardinality(ps) - 1)
<1>. DEFINE f == Place(distance, ps)
            T == 0 .. Cardinality(ps) - 1
<1>1. IsFiniteSet(ps) /\ Cardinality(ps) \in Nat
  BY FS_CardinalityType DEF Ordered
<1>2. f \in [ps -> T]
  BY CloserFacts DEF Place
<1>3. \A a, b \in ps : f[a] = f[b] => a = b
  <2>. SUFFICES ASSUME NEW a \in ps, NEW b \in ps, f[a] = f[b] PROVE a = b
    OBVIOUS
  <2>1. Cardinality(Closer(a, distance, ps)) = Cardinality(Closer(b, distance, ps))
    BY DEF Place
  <2>2. Cardinality(Closer(a, distance, ps)) \in Int
    BY CloserFacts
  <2>3. CASE distance[a] < distance[b]
    BY <2>1, <2>2, <2>3, PlacesFollowDistance
  <2>4. CASE distance[b] < distance[a]
    BY <2>1, <2>2, <2>4, PlacesFollowDistance
  <2>. QED  BY <2>3, <2>4 DEF Ordered
<1>. HIDE DEF f
<1>4. f \in Injection(ps, T)
  BY <1>2, <1>3 DEF Injection, IsInjective
<1>5. IsFiniteSet(T) /\ Cardinality(T) = Cardinality(ps)
  BY <1>1, FS_Interval
<1>. HIDE DEF T
<1>6. f \in Surjection(ps, T)
  BY <1>4, <1>5, FS_Injection
<1>. QED  BY <1>4, <1>6 DEF Bijection, f, T

-----------------------------------------------------------------------------
(* Each place of the order, up to the number of peers, is taken by exactly *)
(* one of them, so that an index into the list that find_closest_peers     *)
(* returns always names a peer (dht/routing.py:47).                        *)
THEOREM OneAtEachPlace ==
    ASSUME NEW ps, NEW distance, Ordered(distance, ps), NEW place \in 0 .. Cardinality(ps) - 1
    PROVE  \E n \in ps : AtPlace(place, distance, ps) = {n}
<1>. DEFINE f == Place(distance, ps)
<1>1. f \in Bijection(ps, 0 .. Cardinality(ps) - 1)
  BY PlaceIsBijection
<1>2. AtPlace(place, distance, ps) = {n \in ps : f[n] = place}
  BY DEF AtPlace, Place
<1>. HIDE DEF f
<1>3. PICK n \in ps : f[n] = place
  BY <1>1 DEF Bijection, Surjection
<1>4. \A m \in ps : f[m] = place => m = n
  BY <1>1, <1>3 DEF Bijection, Injection, IsInjective
<1>. QED  BY <1>2, <1>3, <1>4

(* find_closest_peers returns k peers, or all if there are no more: nobody *)
(* is left out of a replication for lack of choice (dht/routing.py:48).    *)
THEOREM FindsEnough ==
    ASSUME NEW ps, NEW distance, Ordered(distance, ps), NEW k \in Nat
    PROVE  /\ IsFiniteSet(FindClosest(distance, ps, k))
           /\ Cardinality(FindClosest(distance, ps, k)) =
                IF k <= Cardinality(ps) THEN k ELSE Cardinality(ps)
<1>. DEFINE f == Place(distance, ps)
            S == FindClosest(distance, ps, k)
            size == IF k <= Cardinality(ps) THEN k ELSE Cardinality(ps)
            T == 0 .. size - 1
            g == [n \in S |-> f[n]]
<1>1. IsFiniteSet(ps) /\ Cardinality(ps) \in Nat
  BY FS_CardinalityType DEF Ordered
<1>2. f \in Bijection(ps, 0 .. Cardinality(ps) - 1)
  BY PlaceIsBijection
<1>3. S = {n \in ps : f[n] < k}
  BY DEF FindClosest, Place
<1>. HIDE DEF f, S
<1>4. f \in [ps -> 0 .. Cardinality(ps) - 1]
      /\ (\A a, b \in ps : f[a] = f[b] => a = b)
      /\ \A t \in 0 .. Cardinality(ps) - 1 : \E n \in ps : f[n] = t
  BY <1>2 DEF Bijection, Injection, Surjection, IsInjective
<1>5. size \in Nat /\ size <= k /\ size <= Cardinality(ps)
  BY <1>1
<1>6. g \in [S -> T] /\ \A a, b \in S : g[a] = g[b] => a = b
  BY <1>1, <1>3, <1>4
<1>7. \A t \in T : \E n \in S : g[n] = t
  BY <1>1, <1>3, <1>4
<1>. HIDE DEF g, T, size
<1>8. g \in Bijection(S, T)
  BY <1>6, <1>7 DEF Bijection, Injection, Surjection, IsInjective
<1>9. IsFiniteSet(S) /\ IsFiniteSet(T)
  <2>1. S \in SUBSET ps
    BY <1>3
  <2>2. IsFiniteSet(S)
    BY <1>1, <2>1, FS_Subset
  <2>. QED  BY <1>5, <2>2, FS_Interval DEF T
<1>10. Cardinality(T) = size
  BY <1>5, FS_Interval DEF T
<1>11. Cardinality(T) = Cardinality(S)
  BY <1>8, <1>9, FS_Bijection DEF ExistsBijection
<1>. QED  BY <1>9, <1>10, <1>11 DEF S, size

(* Whoever is returned is nearer than whoever is not (dht/routing.py:47). *)
THEOREM FindsTheClosest ==
    ASSUME NEW ps, NEW distance, Ordered(distance, ps), NEW k \in Nat,
           NEW m \in FindClosest(distance, ps, k), NEW n \in ps \ FindClosest(distance, ps, k)
    PROVE  distance[m] < distance[n]
<1>1. m \in ps /\ Cardinality(Closer(m, distance, ps)) < k
      /\ ~(Cardinality(Closer(n, distance, ps)) < k)
  BY DEF FindClosest
<1>2. /\ Cardinality(Closer(m, distance, ps)) \in Nat
      /\ Cardinality(Closer(n, distance, ps)) \in Nat
  BY <1>1, CloserFacts
<1>3. m # n /\ ~(distance[n] < distance[m])
  BY <1>1, <1>2, PlacesFollowDistance
<1>. QED  BY <1>1, <1>3 DEF Ordered
==============================================================================
