\* An agent configured without an overlay.
CONSTANTS
    UUID = {shell}
    UUIDShell = shell
    Version <- Versions2
    Verified <- AllVerify
    Heard = {}
    Obj = {o1}
    Gossip = gossip
    Handler = {}
    Deleter = {}
    DeployFailsLimit = 0
    Proxy = FALSE
    Overlays = {FALSE}
    MaxCrashes = 0
    None = None
SPECIFICATION Spec
INVARIANT NeverPanics
CHECK_DEADLOCK FALSE
