\* Two peers; one copy and the original make the factor.
CONSTANTS
  p = p
  q = q
  Peers = {p, q}
  Here = here
  Chunks = {c}
  Dist <- Distances
  K = 2
  Quota = 1
  OtherFiles = 1
  MaxFaults = 1
  Audited = {p}
  None = None
SPECIFICATION FairSpec
INVARIANTS TypeOK CountedCopyWasSent
PROPERTIES AuditBlamesForCause 
CHECK_DEADLOCK FALSE
