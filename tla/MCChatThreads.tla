---------------------------- MODULE MCChatThreads ----------------------------
EXTENDS ChatThreads, TLC
Sym == Permutations(Nodes) \cup Permutations(Calls) \cup Permutations(Messages)
==============================================================================
