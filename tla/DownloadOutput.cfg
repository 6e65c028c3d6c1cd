\* Two merges into one output path.
CONSTANTS
  NumChunks = 2
  FlushInterval = 2
  States = {s1, s2}
  Workers = {w1, w2}
  Pausers = {p1}
  Servers = {v1}
  None = None
SPECIFICATION Spec
SYMMETRY Sym
INVARIANT CompletedFileIsWhole
