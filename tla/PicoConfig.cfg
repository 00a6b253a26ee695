SPECIFICATION Spec
CONSTANTS
    Networks = {n1}
    Brokers = {b1}
    Topics = {t1}
INVARIANTS
    TypeOK
    AckedIsStored
    RunsStored
    JoinsPatched
PROPERTIES
    SaveTakesEffect
