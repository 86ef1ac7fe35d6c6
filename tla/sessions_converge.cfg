\* A peer that keeps its torrent ports moves; the server ends once.
CONSTANTS
    p1 = p1
    p2 = p2
    Peer = {p1, p2}
    Worker = {w1, w2}
    Changes <- Reopens
    MaxMoves = 1
    MaxCrashes = 1
    None = None
SPECIFICATION LiveSpec
INVARIANTS
    ReplyFindsSession
    SessionsAreOwn
PROPERTIES
    Registered
    EveryoneLearns
CHECK_DEADLOCK FALSE
