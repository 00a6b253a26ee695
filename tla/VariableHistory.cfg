CONSTANTS
    i1 = i1
    i2 = i2
    x = x
    y = y
    Ids = {i1, i2}
    Nodes = {x, y}
    NoNode = NoNode
    MaxChanges = 1
    MaxFails = 1
    MaxStops = 1

SPECIFICATION Spec

INVARIANT TypeOK
INVARIANT PreviousStored
PROPERTY IsHistory
PROPERTY ChangesStored
CHECK_DEADLOCK FALSE
