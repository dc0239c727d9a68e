SPECIFICATION Spec
CONSTANTS
    c1 = c1
    c2 = c2
    i1 = i1
    i2 = i2
    Capabilities <- MCCapabilities
    Requests <- MCRequests
    None = None
    Edited = Edited
    Ttl = 1
    MaxDelay = 1
    MaxAttempts = 1
    MaxCrashes = 1
    MaxEdits = 2
CONSTRAINT Bounds
SYMMETRY Symmetry
INVARIANTS
    SoleCredential
    NothingInTheWay
    
