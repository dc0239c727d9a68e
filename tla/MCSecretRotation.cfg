CONSTANTS
    Secrets <- SecretsMC
    NeedsPrevious = {"wazuh_api"}
    PreviousName <- PreviousNameMC
    PreviousRead <- PreviousReadMC
    MaxValue = 2
    MaxFaults = 3
SPECIFICATION Spec
INVARIANTS
    WayBackIsKnown
PROPERTIES
    VerdictIsTrue
    LossIsReported
CHECK_DEADLOCK FALSE
