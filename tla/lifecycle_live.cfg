\* Fair runs without crashes.
CONSTANTS
    UUID = {shell}
    UUIDShell = shell
    Version <- Versions2
    Verified <- AllVerify
    Heard = {}
    Obj = {o1, o2}
    Gossip = gossip
    Handler = {h1}
    Deleter = {}
    DeployFailsLimit = 1
    Proxy = FALSE
    Overlays = {TRUE}
    MaxCrashes = 0
    None = None
SPECIFICATION LiveSpec
PROPERTIES
    EventuallySettled
    DeploymentSaved
    OnlyLeaksBlock
CHECK_DEADLOCK FALSE
