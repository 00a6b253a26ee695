SPECIFICATION DhcpSpec
CONSTANTS
    c1 = c1
    c2 = c2
    c3 = c3
    Clients = {c1, c2, c3}
    Free = free
    Slots = 2
    Coarse = 4
    Half = 8
    LeaseTime = 3
SYMMETRY Symmetry
INVARIANTS
    DhcpTypeOK
    NoDoubleLease
    RefusedOnlyWhenFull
