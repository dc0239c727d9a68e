SPECIFICATION Spec
CONSTANTS
    r1 = r1
    r2 = r2
    Roles <- MCRoles
    MaxReleases = 3
    MaxFaults = 2
SYMMETRY Symmetry
INVARIANTS
    RecoverIsPossible
    FailureIsFlagged
    RollbackIsOlder
