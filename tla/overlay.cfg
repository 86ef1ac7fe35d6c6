\* Two sockets, one binding request that cannot be sent.
CONSTANTS
    Client = {c1, c2}
    BindingMaxErrors = 2
    ListeningMaxErrors = 1
    QueueLen = 1
    MaxSendFails = 1
    None = None
SPECIFICATION LiveSpec
INVARIANTS
    OneDriver
    DriversBounded
    SomeDriver
    ConnIsOpen
    NoPanic
    StartupEnds
PROPERTIES
    ServesGossip
    ComesBack
CHECK_DEADLOCK FALSE
