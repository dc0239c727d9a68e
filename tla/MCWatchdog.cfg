SPECIFICATION Spec
CONSTANTS
    Healers = {"timer", "hand"}
    Services = {"sonarr"}
    Safe = {"sonarr"}
    Deps <- MCAlone
    Bad = {"exited"}
    Texts = {1}
    MaxRestarts = 1
    Backoff <- MCBackoff
    TerminalThreshold = 1
    CriticalThreshold = 2
    RecoverCooldown = 2
    NotifyCooldown = 2
    MaxAge = 2
    MaxSlips = 2
    MaxOverlaps = 1
INVARIANTS
    RestartBudget
PROPERTIES
    RecoveriesAreSpaced
    AlertsAreSpaced
