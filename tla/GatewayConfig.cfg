SPECIFICATION Spec
CONSTANTS
    Threads = {t1, t2}
    Endpoints = {h0, h1}
    Addresses = {h1}
    Default = h0
    TimeoutMayBeEmpty = FALSE
SYMMETRY AnyThread
CONSTRAINT Apart
INVARIANTS
    TypeOK
    SettingsSurvive
    ConfigIsStored
    ConnectionsMatch
CHECK_DEADLOCK FALSE
