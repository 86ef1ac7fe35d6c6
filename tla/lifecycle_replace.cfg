\* One uuid, three versions, started by the gossip goroutine and by a POST.
CONSTANTS
    UUID = {shell}
    UUIDShell = shell
    Version <- Versions3
    Verified <- AllVerify
    Heard = {}
    Obj = {o1, o2, o3}
    Gossip = gossip
    Handler = {h1}
    Deleter = {}
    DeployFailsLimit = 0
    Proxy = FALSE
    Overlays = {TRUE}
    MaxCrashes = 0
    None = None
SPECIFICATION Spec
SYMMETRY Symmetry
INVARIANTS
    NoOrphan
    OneStopper
    LocksInOrder
    ExclusiveDeploy
    DeployedInOrder
PROPERTY LivePayload
CHECK_DEADLOCK FALSE
