\* A crash, any number of panics, restarts with and without an overlay.
CONSTANTS
    UUID = {shell, apk}
    UUIDShell = shell
    Version <- Versions2
    Verified <- ShellVerify
    Heard <- HeardV1
    Obj = {o1, o2}
    Gossip = gossip
    Handler = {}
    Deleter = {}
    DeployFailsLimit = 0
    Proxy = FALSE
    Overlays = {TRUE, FALSE}
    MaxCrashes = 1
    None = None
SPECIFICATION Spec
SYMMETRY Symmetry
INVARIANTS
    TypeOK
    LoadedNewest
    PersistedOnce
    FailsBounded
PROPERTY IsRegister
CHECK_DEADLOCK FALSE
