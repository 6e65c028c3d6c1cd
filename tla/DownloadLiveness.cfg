\* One chunk; no symmetry, because liveness is checked.
CONSTANTS
  NumChunks = 1
  FlushInterval = 1
  States = {s1, s2}
  Workers = {w1, w2}
  Pausers = {p1}
  Servers = {}
  None = None
SPECIFICATION FairSpec
PROPERTY DownloadSettles
