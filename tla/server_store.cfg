\* Posts, saves that fail, crashes at any point.
CONSTANTS
    shell = shell
    apk = apk
    UUID = {shell, apk}
    Version <- Versions3
    Verified <- AllButOne
    MaxCrashes = 2
    MaxErrors = 1
SPECIFICATION LiveSpec
INVARIANTS
    CleanIsSaved
PROPERTIES
    Durable
    PostedSaved
CHECK_DEADLOCK FALSE
