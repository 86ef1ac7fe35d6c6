\* The agent restarts with other ports, under the same peer id.
CONSTANTS
    p1 = p1
    p2 = p2
    Peer = {p1, p2}
    Worker = {w1}
    Changes <- Restarts
    MaxMoves = 1
    MaxCrashes = 0
    None = None
SPECIFICATION Spec
PROPERTIES
    UnchangedIsSame
CHECK_DEADLOCK FALSE
