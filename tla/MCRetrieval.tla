----------------------------- MODULE MCRetrieval -----------------------------
EXTENDS Retrieval, Merkle
CONSTANTS p, u, h

(* The first shard of a chunk is closest to p, the others to h. *)
MCDistance ==
    [x \in Pieces |-> [n \in {p, h} |-> IF (n = p) <=> (x[2] = 1) THEN 1 ELSE 2]]

(* The uploader knows everyone, and reaches them or does not. *)
MCSwarms == {[known |-> {p, h}, reached |-> {p, h}], [known |-> {p, h}, reached |-> {}]}

(* Placing shards: every shard goes along an order of its own, which is    *)
(* what find_closest_peers gives, so two shards of a chunk can go to one   *)
(* of three peers.  (One order would keep them apart: see                  *)
(* OneOrderKeepsShardsApart in RetrievalProofs.)                           *)
ThreePeers == {p, u, h}
Distances == {d \in [ThreePeers -> 1 .. 3] : \A m, n \in ThreePeers : d[m] = d[n] => m = n}
ASSUME OwnOrdersCollide ==
    \E first, second \in Distances :
        ShardTargets(1, first, ThreePeers) = ShardTargets(2, second, ThreePeers)

(* Trees of up to 7 chunks: a proof convinces of the chunk it was made for *)
(* and of no other, chunk lists of one length have different roots unless  *)
(* they are equal, and a list padded with its last chunk has the same root *)
(* as one of odd length, so that a root does not tell how many there are.  *)
Leaves(n) == [i \in 1 .. n |-> <<ToString(i)>>]
ASSUME ProofsConvince ==
    \A n \in 1 .. 7 : \A i, j \in 1 .. n :
        VerifyProof(Leaves(n)[j], MerkleProof(Leaves(n), i - 1), MerkleRoot(Leaves(n))) <=> i = j
ASSUME RootsDiffer ==
    \A n \in 1 .. 4 : \A s, t \in [1 .. n -> {<<"x">>, <<"y">>, <<"z">>}] :
        MerkleRoot(s) = MerkleRoot(t) => s = t
ASSUME PaddingKeepsRoot ==
    \A n \in {3, 5, 7} : MerkleRoot(Leaves(n)) = MerkleRoot(Append(Leaves(n), Leaves(n)[n]))
==============================================================================
