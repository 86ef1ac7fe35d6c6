\* The metadata of a deleted version can come back.
CONSTANTS
    UUID = {shell}
    UUIDShell = shell
    Version <- Versions2
    Verified <- AllVerify
    Heard = {}
    Obj = {o1, o2}
    Gossip = gossip
    Handler = {}
    Deleter = {}
    DeployFailsLimit = 0
    Proxy = FALSE
    Overlays = {TRUE}
    MaxCrashes = 0
    None = None
SPECIFICATION Spec
INVARIANT NoStaleMetadata
CHECK_DEADLOCK FALSE
