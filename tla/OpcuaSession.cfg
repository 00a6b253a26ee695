CONSTANTS
    t1 = t1
    t2 = t2
    Svc = svc
    Threads = {t1, t2}
    MaxRequests = 2
    MaxBreaks = 1
    MaxTimeouts = 1
    DbFails = FALSE

SPECIFICATION Spec

INVARIANT TypeOK
INVARIANT OneMonitor
INVARIANT MonitoringFollows
PROPERTY LossNoticedByLoop
PROPERTY StopsMonitoring
CHECK_DEADLOCK FALSE
