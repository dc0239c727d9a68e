SPECIFICATION Spec
CONSTANTS
    Healers = {"timer"}
    Services <- MCServices
    Safe <- MCSafe
    Deps <- MCDeps
    Bad = {"exited"}
    Texts = {1}
    MaxRestarts = 2
    Backoff <- MCBackoff
    TerminalThreshold = 1
    CriticalThreshold = 2
    RecoverCooldown = 2
    NotifyCooldown = 2
    MaxAge = 2
    MaxSlips = 1
    MaxOverlaps = 0
INVARIANTS
    DeferralHasReason
