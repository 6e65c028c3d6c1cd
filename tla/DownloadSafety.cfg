\* Two chunks, two live tasks and objects, one waiting pause request.
CONSTANTS
  NumChunks = 2
  FlushInterval = 2
  States = {s1, s2}
  Workers = {w1, w2}
  Pausers = {p1}
  Servers = {}
  None = None
SPECIFICATION Spec
SYMMETRY Sym
INVARIANTS TypeOK LedgerPartition MergeHasEveryChunk FinishedMissesNothing
PROPERTY KeepsProgress
