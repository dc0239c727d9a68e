SPECIFICATION ESpec
CONSTANTS
    j1 = j1
    w1 = w1
    browser = browser
    shell = shell
    NoWorker = NoWorker
    Jobs = {j1}
    WorkerIds = {w1}
    NonCancellable = {}
    LeaseSeconds = 1
    MaxDelay = 1
    MaxGeneration = 2
    Streams = {browser}
    Commands = {shell}
    Follows <- MCFollows
    PageLimit = 2
    MaxRetries = 1
    MaxLines = 4
INVARIANTS
    LogIsFenced
    VerdictIsLogged
    ShownInOrder
PROPERTIES
    FollowersFinish
