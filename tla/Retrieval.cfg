CONSTANTS
    p = p
    u = u
    h = h
    Peers = {p, u}
    Here = h
    Uploader = u
    ChunkCount = 2
    N = 3
    K = 2
    Copies = 1
    Distance <- MCDistance
    Hops = 1
    MaxFaults = 1
    Pending = 1
    Swarms <- MCSwarms
    None = None
SPECIFICATION FairSpec
INVARIANTS TypeOK ServedIsTheFile ManifestNamesStoredPieces PathNamesHolders
CHECK_DEADLOCK FALSE
PROPERTIES DamageDoesNotSpread RequestMovesOn RequestEnds RecoverableIsServed
