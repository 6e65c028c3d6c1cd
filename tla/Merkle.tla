-------------------------------- MODULE Merkle --------------------------------
(* The hash tree over the chunk hashes of a manifest                       *)
(* (backend/file_engine/chunker.py).  A hash is a sequence of symbols, and *)
(* SHA-256 of two hashes one after the other is written so that different  *)
(* pairs give different sequences.                                         *)
EXTENDS Naturals, SequencesExt

HashOf(left, right) == <<"(">> \o left \o right \o <<")">>
HashOfNothing == <<"()">>

(* One level up: pairs, the last hash of an odd level paired with itself *)
LevelUp(level) ==
    [j \in 1 .. (Len(level) + 1) \div 2 |->
        HashOf(level[2 * j - 1], IF 2 * j <= Len(level) THEN level[2 * j] ELSE level[2 * j - 1])]

RECURSIVE MerkleRoot(_)
MerkleRoot(hashes) ==
    IF hashes = <<>> THEN HashOfNothing
    ELSE IF Len(hashes) = 1 THEN hashes[1]
    ELSE MerkleRoot(LevelUp(hashes))

(* The siblings on the way up from the hash at index, counted from 0 *)
RECURSIVE MerkleProof(_, _)
MerkleProof(hashes, index) ==
    IF Len(hashes) <= 1 THEN <<>>
    ELSE LET sibling == IF index % 2 = 1 THEN hashes[index]
                        ELSE IF index + 2 <= Len(hashes) THEN hashes[index + 2]
                        ELSE hashes[index + 1]
         IN <<[hash |-> sibling, right |-> index % 2 = 0]>>
            \o MerkleProof(LevelUp(hashes), index \div 2)

VerifyProof(hash, proof, root) ==
    root = FoldLeft(LAMBDA h, step : IF step.right THEN HashOf(h, step.hash)
                                     ELSE HashOf(step.hash, h), hash, proof)
===============================================================================
