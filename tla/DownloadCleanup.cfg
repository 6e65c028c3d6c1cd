\* One chunk, two pause requests waiting at the same time, and a /file response
\* whose cleanup thread races the event loop.
CONSTANTS
  NumChunks = 1
  FlushInterval = 1
  States = {s1, s2}
  Workers = {w1, w2}
  Pausers = {p1, p2}
  Servers = {v1}
  None = None
SPECIFICATION Spec
SYMMETRY Sym
INVARIANTS BusyIsWorkedOn FinishedMissesNothing
