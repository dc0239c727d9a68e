CONSTANTS
    n1 = n1
    n2 = n2
    a = a
    Nodes <- NodesMC
    Services <- ServicesMC
    HookTries = 2
    Faults = {"raise", "timeout", "kill"}
    MaxFaults = 1
    MaxChanges = 2
SYMMETRY NodeSymmetry
SPECIFICATION Spec
INVARIANTS
    CredentialsOutliveServices
    StepsAreSettled
PROPERTIES
    SuccessIsConverged
    LedgerIsDeployed
CHECK_DEADLOCK FALSE
