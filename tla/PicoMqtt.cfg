SPECIFICATION Spec
CONSTANTS
    CheckInterval = 2
    RetryDelay = 5
    MaxWait = 1
    MaxTurn = 2
INVARIANTS
    TypeOK
    OneConnection
    TestSound
PROPERTIES
    RetriesSpaced
    Reconnects
