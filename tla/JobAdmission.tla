---------------------------- MODULE JobAdmission ----------------------------
(***************************************************************************)
(* What the controller accepts as a job (toolkit/controller/store.py:      *)
(* submit_job, submit_job_batch_limited, create_plan, issue_approval; the  *)
(* limits are the ones app.py and webhooks_api.py pass).                   *)
(*                                                                         *)
(* Each method decides and writes in one BEGIN IMMEDIATE transaction.  Two *)
(* things reach in from outside it: the clock, which is read before the    *)
(* write lock is granted (an operation may act on a reading d ticks old),  *)
(* and callers, who repeat deliveries, reuse keys and present the same     *)
(* approval twice.  What happens to a job after it was accepted is         *)
(* JobStore's subject; here it only moves along _TRANSITIONS.              *)
(***************************************************************************)
EXTENDS Integers, FiniteSets

CONSTANTS
    Rows,          \* job ids
    Requests,      \* job requests that may be presented, with who presents them
    Batches,       \* the requests of one webhook delivery, for each delivery
    NoRequest,     \* the row does not exist
    Principals,    \* identities that may plan and approve
    Plans,         \* plan ids
    Specs,         \* what a destroy plan destroys: action, scopes, revision
    NoPlan,        \* the plan id is unknown
    Tokens,        \* approval tokens that may be drawn
    NoApproval,    \* the token was not issued
    SharedKinds,   \* the sets of kinds that share one slot: deployments, hosts, ...
    HealKind,      \* the kind of webhook jobs
    MaxHeals,      \* _MAX_ACTIVE_HEALS
    DestroyKind,   \* the kind of destroy jobs
    MaxTTL,        \* the longest life of an approval, in ticks
    MaxDelay       \* the longest wait for the write lock, in ticks

\* A request names its principal, idempotency key, kind and payload; the
\* payload of a destroy request is the plan, its content and the approval.
ASSUME AdmissionAssumption ==
    /\ NoRequest \notin Requests /\ NoPlan \notin [by : Principals, spec : Specs]
    /\ NoApproval \notin [plan : Plans, by : Principals, left : Int, used : BOOLEAN]
    /\ DestroyKind # HealKind
    /\ \A r \in Requests : r.kind = DestroyKind =>
         r.by \in Principals /\ r.plan \in Plans /\ r.spec \in Specs /\ r.token \in Tokens
    /\ \A B \in Batches : B \subseteq {r \in Requests : r.kind = HealKind}
    /\ \A K \in SharedKinds : HealKind \notin K /\ DestroyKind \notin K
    /\ MaxTTL \in Nat \ {0} /\ MaxDelay \in Nat /\ MaxHeals \in Nat \ {0}

\* Deliveries are made by a principal of their own ("webhook:grafana"), and the
\* key of each of their requests is a hash of the whole delivery.
ASSUME DeliveryAssumption ==
    /\ \A B \in Batches : IsFiniteSet(B)
    /\ \A B \in Batches : \A r \in B, s \in Requests : s.kind # HealKind => s.by # r.by
    /\ \A B, C \in Batches : \A r \in B, s \in C : r.key = s.key => B = C

VARIABLES
    request,    \* request[j]: the row's principal, key, payload and kind
    state,      \* state[j]: the state column
    plan,       \* plan[p]: the plans table
    approval    \* approval[t]: the approvals table; left is relative to the present

admissionVars == <<request, state, plan, approval>>

-----------------------------------------------------------------------------
Active == {"QUEUED", "RUNNING", "CANCEL_REQUESTED"}
Terminal == {"SUCCEEDED", "PARTIAL_FAILURE", "FAILED", "CANCELLED"}
Delays == 0 .. MaxDelay

\* _TRANSITIONS
Transitions(s) ==
    CASE s = "QUEUED" -> {"RUNNING", "CANCELLED"}
      [] s = "RUNNING" -> {"CANCEL_REQUESTED", "SUCCEEDED", "PARTIAL_FAILURE", "FAILED"}
      [] s = "CANCEL_REQUESTED" -> {"CANCELLED", "FAILED"}
      [] OTHER -> {}

Existing == {j \in Rows : request[j] # NoRequest}

\* SELECT ... WHERE principal = ? AND idempotency_key = ?
WithKeyOf(r) == {j \in Existing : request[j].by = r.by /\ request[j].key = r.key}

\* (mutant) a job being cancelled no longer counts, although it still runs.
ActiveOfUncancelled(K) ==
    {j \in Existing : state[j] \in {"QUEUED", "RUNNING"} /\ request[j].kind \in K}

\* The rows counted against a limit on the kinds K.
ActiveOf(K) == {j \in Existing : state[j] \in Active /\ request[j].kind \in K}

\* The limit app.py passes for the kind: one active job among kinds that share
\* a slot; the other kinds have none.
HasSlot(r) == \A K \in SharedKinds : r.kind \in K => ActiveOf(K) = {}

\* expires_at <= now, for a caller whose clock reading is d ticks old
ApprovalExpired(t, d) == approval[t].left + d <= 0

\* (mutant) the row is only looked up, not required to be unconsumed.
ConsumableAgain(r, d) ==
    /\ plan[r.plan] # NoPlan /\ approval[r.token] # NoApproval
    /\ plan[r.plan].by = r.by /\ plan[r.plan].spec = r.spec
    /\ approval[r.token].plan = r.plan /\ approval[r.token].by = r.by
    /\ ~ApprovalExpired(r.token, d)

\* (mutant) the request is not compared with the plan that was approved.
ConsumableForAnySpec(r, d) ==
    /\ plan[r.plan] # NoPlan /\ approval[r.token] # NoApproval
    /\ plan[r.plan].by = r.by
    /\ approval[r.token].plan = r.plan /\ approval[r.token].by = r.by
    /\ ~approval[r.token].used /\ ~ApprovalExpired(r.token, d)

\* The checks of _consume_destructive_approval.
Consumable(r, d) ==
    /\ plan[r.plan] # NoPlan /\ approval[r.token] # NoApproval
    /\ plan[r.plan].by = r.by /\ plan[r.plan].spec = r.spec
    /\ approval[r.token].plan = r.plan /\ approval[r.token].by = r.by
    /\ ~approval[r.token].used /\ ~ApprovalExpired(r.token, d)

-----------------------------------------------------------------------------
Init ==
    /\ request = [j \in Rows |-> NoRequest]
    /\ state = [j \in Rows |-> "none"]
    /\ plan = [p \in Plans |-> NoPlan]
    /\ approval = [t \in Tokens |-> NoApproval]

\* create_plan
CreatePlan(p, u, s) ==
    /\ plan[p] = NoPlan
    /\ plan' = [plan EXCEPT ![p] = [by |-> u, spec |-> s]]
    /\ UNCHANGED <<request, state, approval>>

\* issue_approval: a fresh token for the plan's own actor; any number of them.
IssueApproval(t, p, u, ttl, d) ==
    /\ ttl \in 1 .. MaxTTL
    /\ plan[p] # NoPlan /\ plan[p].by = u
    /\ approval[t] = NoApproval
    /\ approval' = [approval EXCEPT ![t] =
                       [plan |-> p, by |-> u, left |-> ttl - d, used |-> FALSE]]
    /\ UNCHANGED <<request, state, plan>>

\* submit_job when it inserts row j.  A key already used is answered from its
\* row, or refused, and changes nothing.
SubmitJob(r, j, d) ==
    /\ r.kind # HealKind
    /\ request[j] = NoRequest
    /\ WithKeyOf(r) = {}
    /\ HasSlot(r)
    /\ r.kind = DestroyKind => Consumable(r, d)
    /\ request' = [request EXCEPT ![j] = r]
    /\ state' = [state EXCEPT ![j] = "QUEUED"]
    /\ approval' = IF r.kind = DestroyKind
                   THEN [approval EXCEPT ![r.token].used = TRUE] ELSE approval
    /\ UNCHANGED plan

\* (mutant) the jobs are inserted one by one until the limit is met.
SubmitJobBatchPartly(B, f) ==
    LET pending == {r \in B : WithKeyOf(r) = {}}
    IN  /\ DOMAIN f = pending /\ pending # {}
        /\ \A r \in pending : request[f[r]] = NoRequest
        /\ \A r, s \in pending : f[r] = f[s] => r = s
        /\ \E fit \in SUBSET pending :
             /\ fit # {} /\ Cardinality(ActiveOf({HealKind})) + Cardinality(fit) <= MaxHeals
             /\ request' = [j \in Rows |-> IF \E r \in fit : f[r] = j
                                           THEN CHOOSE r \in fit : f[r] = j ELSE request[j]]
             /\ state' = [j \in Rows |-> IF \E r \in fit : f[r] = j THEN "QUEUED" ELSE state[j]]
        /\ UNCHANGED <<plan, approval>>

\* submit_job_batch_limited, for the delivery B: the requests already there are
\* replayed, the others become rows f, all of them or none.
SubmitJobBatch(B, f) ==
    LET pending == {r \in B : WithKeyOf(r) = {}}
    IN  /\ DOMAIN f = pending /\ pending # {}
        /\ \A r \in pending : request[f[r]] = NoRequest
        /\ \A r, s \in pending : f[r] = f[s] => r = s
        /\ Cardinality(ActiveOf({HealKind})) + Cardinality(pending) <= MaxHeals
        /\ request' = [j \in Rows |-> IF \E r \in pending : f[r] = j
                                      THEN CHOOSE r \in pending : f[r] = j ELSE request[j]]
        /\ state' = [j \in Rows |-> IF \E r \in pending : f[r] = j THEN "QUEUED" ELSE state[j]]
        /\ UNCHANGED <<plan, approval>>

\* A job moves on (claim_next, transition, request_cancel: see JobStore).
Progress(j) ==
    /\ \E s \in Transitions(state[j]) : state' = [state EXCEPT ![j] = s]
    /\ UNCHANGED <<request, plan, approval>>

\* Time passes.
Tick ==
    /\ \E t \in Tokens : approval[t] # NoApproval /\ approval[t].left > -MaxDelay
    /\ approval' = [t \in Tokens |->
                      IF approval[t] # NoApproval /\ approval[t].left > -MaxDelay
                      THEN [approval[t] EXCEPT !.left = @ - 1] ELSE approval[t]]
    /\ UNCHANGED <<request, state, plan>>

Next ==
    \/ \E p \in Plans, u \in Principals, s \in Specs : CreatePlan(p, u, s)
    \/ \E t \in Tokens, p \in Plans, u \in Principals, ttl \in 1 .. MaxTTL, d \in Delays :
          IssueApproval(t, p, u, ttl, d)
    \/ \E r \in Requests, j \in Rows, d \in Delays : SubmitJob(r, j, d)
    \/ \E B \in Batches : \E P \in SUBSET B : \E f \in [P -> Rows] : SubmitJobBatch(B, f)
    \/ \E j \in Rows : Progress(j)
    \/ Tick

Spec == Init /\ [][Next]_admissionVars

-----------------------------------------------------------------------------
\* The tables keep their types, and an approval's remaining life its range.
TypeOK ==
    /\ request \in [Rows -> Requests \cup {NoRequest}]
    /\ state \in [Rows -> {"none"} \cup Active \cup Terminal]
    /\ \A j \in Rows : request[j] = NoRequest <=> state[j] = "none"
    /\ plan \in [Plans -> [by : Principals, spec : Specs] \cup {NoPlan}]
    /\ approval \in [Tokens -> [plan : Plans, by : Principals, left : -MaxDelay .. MaxTTL,
                                used : BOOLEAN] \cup {NoApproval}]

\* (With TypeOK.)  However submissions, cancellations and verdicts
\* interleave, at most one job of the kinds that share a slot is waiting,
\* running or being cancelled, and at most _MAX_ACTIVE_HEALS webhook jobs
\* are, whether they were accepted one by one (submit_job) or as deliveries
\* (submit_job_batch_limited).
ActiveLimits ==
    LET Unsettled(K) == {j \in Existing : state[j] \notin Terminal /\ request[j].kind \in K}
    IN  /\ TypeOK
        /\ \A K \in SharedKinds : Cardinality(Unsettled(K)) <= 1
        /\ Cardinality(Unsettled({HealKind})) <= MaxHeals

\* An approval admits one destroy job for all time: presented again under
\* another idempotency key, or after the first job failed, it is refused.
ApprovalIsUsedOnce ==
    \A i, j \in Existing :
        /\ request[i].kind = DestroyKind /\ request[j].kind = DestroyKind
        /\ request[i].token = request[j].token
        => i = j

\* Every destroy job destroys exactly what its own principal planned, and that
\* principal's approval of this plan is spent on it.
DestroyIsApproved ==
    \A j \in Existing : request[j].kind = DestroyKind =>
        LET r == request[j]
        IN  /\ plan[r.plan] = [by |-> r.by, spec |-> r.spec]
            /\ approval[r.token] # NoApproval
            /\ approval[r.token].plan = r.plan /\ approval[r.token].by = r.by
            /\ approval[r.token].used

\* The jobs of one webhook delivery are accepted together or not at all, also
\* when the delivery is repeated after it was refused for lack of room.
DeliveryIsWhole ==
    \A B \in Batches :
        (\E r \in B : WithKeyOf(r) # {}) => (\A r \in B : WithKeyOf(r) # {})
=============================================================================
