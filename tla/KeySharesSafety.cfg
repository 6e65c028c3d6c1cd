\* Two uploads of the file, of one or two shares, also by two nodes at once; a
\* node uploads, holds and receives.
CONSTANTS
  Uploaders = {a, b}
  Holders = {b, c, d}
  Recipients = {b, c}
  Keys = {k1, k2}
  MaxShares = 2
  None = None
  HolderLists <- AnyList
SPECIFICATION Spec
SYMMETRY Sym
INVARIANTS TypeOK PublishedSharesAreHeld DecryptsByQuorum WrongKeyNeedsAnotherUpload
\* Every upload may have failed, and then nothing is left to collect.
CHECK_DEADLOCK FALSE
