CONSTANTS
    r1 = r1
    r2 = r2
    a = a
    b = b
    t1 = t1
    t2 = t2
    Rows = {r1, r2}
    Topics = {a}
    TopicOf <- Shared
    Threads = {t1, t2}
    Ops = {"expose", "remove", "subscribe", "unsubscribe"}
    MaxLosses = 1
    MaxDbFails = 1

SPECIFICATION Spec

INVARIANT TypeOK
INVARIANT MappingsSubscribed
INVARIANT FlagFollowsSession
INVARIANT DeviceRowFollows
PROPERTY Recovers
CHECK_DEADLOCK FALSE
