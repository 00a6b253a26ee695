CONSTANTS
    r1 = r1
    r2 = r2
    a = a
    b = b
    t1 = t1
    t2 = t2
    Rows = {r1, r2}
    Topics = {a, b}
    TopicOf <- OneToOne
    Threads = {t1}
    Ops = {"subscribe", "unsubscribe"}
    MaxLosses = 1
    MaxDbFails = 0

SPECIFICATION Spec

INVARIANT SubscriptionsPersist
CHECK_DEADLOCK FALSE
