\* DELETE requests race with gossip and with a POST of the same update.
CONSTANTS
    UUID = {shell}
    UUIDShell = shell
    Version <- Versions2
    Verified <- AllVerify
    Heard = {}
    Obj = {o1, o2}
    Gossip = gossip
    Handler = {h1, h2}
    Deleter = {h1, h2}
    DeployFailsLimit = 0
    Proxy = FALSE
    Overlays = {TRUE, FALSE}
    MaxCrashes = 0
    None = None
SPECIFICATION Spec
SYMMETRY Symmetry
INVARIANTS
    NoOrphan
    TableIsServed
    OneStopper
    LocksInOrder
PROPERTY OnlyTwinsLose
CHECK_DEADLOCK FALSE
