CONSTANTS
    NWaves = 2
    Retrying <- RetryingMC
    WaveTimeout = 1
    StaleLog = 1
    MaxHookFailures = 2
    MaxPolls = 3
    MaxLaunches = 2
    MaxFaults = 2
SPECIFICATION Spec
INVARIANTS
    OkIsEarned
    StartsAreAlone
PROPERTIES
    SuccessIsNotDeath
CHECK_DEADLOCK FALSE
