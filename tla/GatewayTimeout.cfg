SPECIFICATION Spec
CONSTANTS
    Threads = {t1}
    Endpoints = {h1}
    Addresses = {h1}
    Default = h0
    TimeoutMayBeEmpty = TRUE
PROPERTY ComesBack
CHECK_DEADLOCK FALSE
