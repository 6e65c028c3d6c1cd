-------------------------- MODULE MCDownloadManager --------------------------
EXTENDS DownloadManager, TLC
Sym == Permutations(States) \cup Permutations(Workers) \cup Permutations(Pausers)
==============================================================================
