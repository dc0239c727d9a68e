SPECIFICATION WFairSpec
CONSTANTS
    deploy = deploy
    p1 = p1
    p2 = p2
    w1 = w1
    NoWorker = NoWorker
    NoJob = NoJob
    Jobs = {deploy}
    Rotation = {}
    NonCancellable = {}
    Processes = {p1, p2}
    WorkerIds <- MCWorkerIds
    WorkerId <- MCWorkerId
    LeaseSeconds = 2
    MaxDelay = 1
    MaxGeneration = 3
    MaxFaults = 2
INVARIANTS
    WTypeOK
    CancelWins
    LeaseMatchesState
    AttemptsAreDistinct
    SuccessIsFinal
    RetriesNeedFaults
PROPERTIES
    NoLiveLeaseIsTaken
    LifecycleSpec
    EffectsInOrder
    EveryJobSettles
