SPECIFICATION LeaseSpec
CONSTANTS
    l1 = l1
    l2 = l2
    l3 = l3
    c1 = c1
    c2 = c2
    None = None
    Leases <- MCLeases
    Cancellers <- MCCancellers
SYMMETRY Symmetry
CHECK_DEADLOCK FALSE
INVARIANTS
    OwnerIsNamed
    CancelIsAimed
PROPERTY
    BoundarySpec
