CONSTANTS
    t1 = t1
    t2 = t2
    Svc = svc
    Threads = {t1}
    MaxRequests = 2
    MaxBreaks = 1
    MaxTimeouts = 0
    DbFails = FALSE

SPECIFICATION Spec

PROPERTY LossNoticed
CHECK_DEADLOCK FALSE
