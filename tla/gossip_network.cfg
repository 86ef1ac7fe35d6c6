\* One agent among others, three versions, of which one is a directory.
CONSTANTS
    Agent = {a1}
    Version = {1, 2, 3}
    DirVersion = {2}
    ReadTCPInterval = 1
    QueueLen = 1
    MaxRestarts = 2
SPECIFICATION LiveSpec
INVARIANTS
    AgentBeforeServer
PROPERTIES
    FallsBack
    ReadIsLearned
    IsDissemination
CHECK_DEADLOCK FALSE
