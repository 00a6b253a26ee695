CONSTANTS
    a = a
    b = b
    n = n
    k = k
    AllTopics = AllTopics
    NoNode = NoNode
    t1 = t1
    Topics = {a, b}
    Nodes = {n}
    Fields = {k}
    Mappings = {1, 2, 3}
    MappingOf <- FanOut
    Threads = {t1}
    MaxMessages = 1
    MaxQueue = 2
    MaxRules = 2
    MaxDbFails = 1
SPECIFICATION Spec
INVARIANTS
    TypeOK
    RulesServed
    MappingsStored
PROPERTIES
    Drains
CHECK_DEADLOCK FALSE
