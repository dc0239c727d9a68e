CONSTANTS
    n1 = n1
    n2 = n2
    a = a
    Nodes <- NodesMC
    Services <- ServicesMC
    HookTries = 2
    Faults = {"raise", "timeout"}
    MaxFaults = 1
    MaxChanges = 2
SYMMETRY NodeSymmetry
SPECIFICATION Spec
INVARIANT
    BoundaryCoversTools
CHECK_DEADLOCK FALSE
