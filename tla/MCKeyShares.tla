----------------------------- MODULE MCKeyShares -----------------------------
EXTENDS KeyShares, TLC
Distinct == {hs \in [1..2 -> Holders] : hs[1] # hs[2]}
AnyList == UNION {[1..n -> Holders] : n \in 1..2}
Sym == Permutations(Keys)
==============================================================================
