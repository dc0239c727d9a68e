SPECIFICATION Spec
CONSTANTS
    j1 = j1
    j2 = j2
    j3 = j3
    j4 = j4
    alice = alice
    bob = bob
    grafana = grafana
    p1 = p1
    all = all
    node = node
    t1 = t1
    NoRequest = NoRequest
    NoPlan = NoPlan
    NoApproval = NoApproval
    Rows <- MCRows
    Requests <- MCRequests
    Batches <- MCBatches
    Principals <- MCPrincipals
    Plans <- MCPlans
    Specs <- MCSpecs
    Tokens <- MCTokens
    SharedKinds <- MCSharedKinds
    HealKind = "WEBHOOK_HEAL"
    MaxHeals = 2
    DestroyKind = "DESTROY_INFRA"
    MaxTTL = 1
    MaxDelay = 1
SYMMETRY RowSymmetry
INVARIANTS
    ActiveLimits
    ApprovalIsUsedOnce
    DestroyIsApproved
    DeliveryIsWhole
CHECK_DEADLOCK FALSE
