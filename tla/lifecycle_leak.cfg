\* The deletion of the old version can wait for ever.
CONSTANTS
    UUID = {shell}
    UUIDShell = shell
    Version <- Versions2
    Verified <- AllVerify
    Heard = {}
    Obj = {o1, o2}
    Gossip = gossip
    Handler = {}
    Deleter = {}
    DeployFailsLimit = 0
    Proxy = FALSE
    Overlays = {TRUE}
    MaxCrashes = 0
    None = None
SPECIFICATION LiveSpec
PROPERTY DeletionEnds
CHECK_DEADLOCK FALSE
