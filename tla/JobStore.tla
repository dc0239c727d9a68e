------------------------------ MODULE JobStore ------------------------------
(***************************************************************************)
(* The jobs table of the controller's SQLite store                         *)
(* (toolkit/controller/store.py, class ControllerStore).                   *)
(*                                                                         *)
(* Every method runs in one BEGIN IMMEDIATE transaction, so each is one    *)
(* action.  What the transaction does not cover is the clock: a method     *)
(* reads now = self._now() BEFORE it waits for the write lock (up to the   *)
(* busy timeout), so the time it compares lease_expires_at with, and       *)
(* computes a new expiry from, may be stale when the row is written.       *)
(*                                                                         *)
(* There is no absolute clock here.  left[j] is how many ticks remain until *)
(* lease_expires_at; an operation that read the clock d ticks ago sees     *)
(* left[j] + d ticks, and a lease it grants has LeaseSeconds - d left.     *)
(* Callers are unconstrained: any worker id, any generation.               *)
(***************************************************************************)
EXTENDS Integers

CONSTANTS
    Jobs,             \* job ids that may be submitted
    WorkerIds,        \* lease_owner values; restarts may reuse one
    NoWorker,         \* lease_owner IS NULL (and with it lease_expires_at)
    NonCancellable,   \* jobs whose kind is in _NON_CANCELLABLE_AFTER_START
    LeaseSeconds,     \* lease length, in ticks
    MaxDelay,         \* how long a method may wait after reading the clock
    MaxGeneration     \* bound on lease_generation

ASSUME StoreAssumption ==
    /\ NoWorker \notin WorkerIds
    /\ NonCancellable \subseteq Jobs
    /\ LeaseSeconds \in Nat \ {0}
    /\ MaxDelay \in Nat
    /\ MaxGeneration \in Nat

VARIABLES
    state,    \* state[j]: the state column, "none" before the row exists
    owner,    \* owner[j]: the lease_owner column
    gen,      \* gen[j]: the lease_generation column
    left,     \* left[j]: lease_expires_at, relative to the present
    cancel,   \* cancel[j]: the cancel_requested column
    ahead     \* ahead[j]: the rows that sort before j by created_at, rowid

storeVars == <<state, owner, gen, left, cancel, ahead>>

-----------------------------------------------------------------------------
Terminal == {"SUCCEEDED", "PARTIAL_FAILURE", "FAILED", "CANCELLED"}
Leased == {"RUNNING", "CANCEL_REQUESTED"}
States == {"none", "QUEUED"} \cup Leased \cup Terminal
Delays == 0 .. MaxDelay
Generations == 0 .. MaxGeneration

\* _TRANSITIONS
Transitions(s) ==
    CASE s = "QUEUED" -> {"RUNNING", "CANCELLED"}
      [] s = "RUNNING" -> {"CANCEL_REQUESTED", "SUCCEEDED", "PARTIAL_FAILURE", "FAILED"}
      [] s = "CANCEL_REQUESTED" -> {"CANCELLED", "FAILED"}
      [] OTHER -> {}

\* contracts.job_can_cancel
CanCancel(j, s) == s = "QUEUED" \/ (s = "RUNNING" /\ j \notin NonCancellable)

\* (mutant) the age of the clock reading is taken off instead of added.
ExpiredByFutureClock(j, d) == left[j] - d <= 0

\* lease_expires_at <= now, for a caller whose clock reading is d ticks old
Expired(j, d) == left[j] + d <= 0

\* _require_live_lease
LiveLease(j, w, g, d) ==
    /\ state[j] \in Leased
    /\ owner[j] = w
    /\ gen[j] = g
    /\ ~Expired(j, d)

\* The rows the first and the second SELECT of claim_next match.
Abandoned(d) ==
    {j \in Jobs : state[j] = "CANCEL_REQUESTED" /\ (owner[j] = NoWorker \/ Expired(j, d))}

\* (mutant) an expired job is retried even if its cancellation is pending.
ClaimableThoughCancelled(j, d) ==
    state[j] = "QUEUED" \/ (state[j] \in Leased /\ owner[j] # NoWorker /\ Expired(j, d))

\* (mutant) only waiting jobs are looked for, not the ones a crash left behind.
ClaimableOnlyQueued(j, d) == state[j] = "QUEUED"

Claimable(j, d) ==
    \/ state[j] = "QUEUED"
    \/ state[j] = "RUNNING" /\ owner[j] # NoWorker /\ Expired(j, d)

-----------------------------------------------------------------------------
Init ==
    /\ state = [j \in Jobs |-> "none"]
    /\ owner = [j \in Jobs |-> NoWorker]
    /\ gen = [j \in Jobs |-> 0]
    /\ left = [j \in Jobs |-> 0]
    /\ cancel = [j \in Jobs |-> FALSE]
    /\ ahead = [j \in Jobs |-> {}]

\* submit_job: the INSERT.  created_at was read before the write lock was
\* taken, so the new row may sort before rows committed in the meantime: A is
\* the prefix of the existing rows it sorts after.
Submit(j, A) ==
    LET rows == {i \in Jobs : state[i] # "none"}
    IN  /\ state[j] = "none"
        /\ A \subseteq rows
        /\ \A i \in A : ahead[i] \subseteq A
        /\ state' = [state EXCEPT ![j] = "QUEUED"]
        /\ ahead' = [i \in Jobs |-> IF i = j THEN A
                                    ELSE IF i \in rows \ A THEN ahead[i] \cup {j}
                                    ELSE ahead[i]]
        /\ UNCHANGED <<owner, gen, left, cancel>>

\* (mutant) taking over an expired job keeps its generation.
ClaimNextSameGeneration(w, j, d) ==
    /\ Claimable(j, d)
    /\ \A i \in ahead[j] : ~Claimable(i, d)
    /\ gen[j] < MaxGeneration
    /\ state' = [state EXCEPT ![j] = "RUNNING"]
    /\ owner' = [owner EXCEPT ![j] = w]
    /\ left' = [left EXCEPT ![j] = LeaseSeconds - d]
    /\ gen' = [gen EXCEPT ![j] = IF state[j] = "QUEUED" THEN @ + 1 ELSE @]
    /\ UNCHANGED <<cancel, ahead>>

\* claim_next, returning job j: cancellations whose lease ran out are made
\* final, then the oldest claimable row gets a new owner and generation.
ClaimNext(w, j, d) ==
    /\ Claimable(j, d)
    /\ \A i \in ahead[j] : ~Claimable(i, d)
    /\ gen[j] < MaxGeneration
    /\ state' = [i \in Jobs |-> IF i = j THEN "RUNNING"
                                ELSE IF i \in Abandoned(d) THEN "CANCELLED" ELSE state[i]]
    /\ owner' = [i \in Jobs |-> IF i = j THEN w
                                ELSE IF i \in Abandoned(d) THEN NoWorker ELSE owner[i]]
    /\ left' = [i \in Jobs |-> IF i = j THEN LeaseSeconds - d
                               ELSE IF i \in Abandoned(d) THEN 0 ELSE left[i]]
    /\ gen' = [gen EXCEPT ![j] = @ + 1]
    /\ UNCHANGED <<cancel, ahead>>

\* claim_next, returning None: only the abandoned cancellations are settled.
ClaimNothing(d) ==
    /\ \A j \in Jobs : ~Claimable(j, d)
    /\ state' = [i \in Jobs |-> IF i \in Abandoned(d) THEN "CANCELLED" ELSE state[i]]
    /\ owner' = [i \in Jobs |-> IF i \in Abandoned(d) THEN NoWorker ELSE owner[i]]
    /\ left' = [i \in Jobs |-> IF i \in Abandoned(d) THEN 0 ELSE left[i]]
    /\ UNCHANGED <<gen, cancel, ahead>>

\* (mutant) the new expiry is counted from the old one instead of from now.
RenewLeaseExtending(j, w, g, d) ==
    /\ LiveLease(j, w, g, d)
    /\ left' = [left EXCEPT ![j] = @ + LeaseSeconds]
    /\ UNCHANGED <<state, owner, gen, cancel, ahead>>

\* renew_lease
RenewLease(j, w, g, d) ==
    /\ LiveLease(j, w, g, d)
    /\ left' = [left EXCEPT ![j] = LeaseSeconds - d]
    /\ UNCHANGED <<state, owner, gen, cancel, ahead>>

\* (mutant) the verdict is stored but the lease columns are not cleared.
TransitionKeepingLease(j, expected, target, w, g, d) ==
    /\ expected \in Leased /\ target \in Terminal \cap Transitions(expected)
    /\ state[j] = expected
    /\ LiveLease(j, w, g, d)
    /\ state' = [state EXCEPT ![j] = target]
    /\ UNCHANGED <<owner, left, gen, cancel, ahead>>

\* transition from RUNNING or CANCEL_REQUESTED to a terminal state: the only
\* transitions any caller asks for.
Transition(j, expected, target, w, g, d) ==
    /\ expected \in Leased /\ target \in Terminal \cap Transitions(expected)
    /\ state[j] = expected
    /\ LiveLease(j, w, g, d)
    /\ state' = [state EXCEPT ![j] = target]
    /\ owner' = [owner EXCEPT ![j] = NoWorker]
    /\ left' = [left EXCEPT ![j] = 0]
    /\ UNCHANGED <<gen, cancel, ahead>>

\* request_cancel
RequestCancel(j) ==
    /\ CanCancel(j, state[j])
    /\ cancel' = [cancel EXCEPT ![j] = TRUE]
    /\ \/ /\ state[j] = "QUEUED"
          /\ state' = [state EXCEPT ![j] = "CANCELLED"]
          /\ owner' = [owner EXCEPT ![j] = NoWorker]
          /\ left' = [left EXCEPT ![j] = 0]
       \/ /\ state[j] # "QUEUED"
          /\ state' = [state EXCEPT ![j] = "CANCEL_REQUESTED"]
          /\ UNCHANGED <<owner, left>>
    /\ UNCHANGED <<gen, ahead>>

\* Time passes.  Once a lease is out for every possible clock reading it does
\* not matter for how long: left stops at -MaxDelay.
Tick ==
    /\ left' = [j \in Jobs |-> IF owner[j] # NoWorker /\ left[j] > -MaxDelay
                               THEN left[j] - 1 ELSE left[j]]
    /\ UNCHANGED <<state, owner, gen, cancel, ahead>>

\* One call of a store method by a worker id w that holds, or once held,
\* generation g of job j.
Call(j, w, g, d) ==
    \/ ClaimNext(w, j, d)
    \/ RenewLease(j, w, g, d)
    \/ \E expected \in Leased, target \in Terminal : Transition(j, expected, target, w, g, d)

Next ==
    \/ \E j \in Jobs, A \in SUBSET Jobs : Submit(j, A)
    \/ \E j \in Jobs, w \in WorkerIds, g \in Generations, d \in Delays : Call(j, w, g, d)
    \/ \E d \in Delays : ClaimNothing(d)
    \/ \E j \in Jobs : RequestCancel(j)
    \/ Tick

Spec == Init /\ [][Next]_storeVars

-----------------------------------------------------------------------------
\* The columns keep their types; the remaining lease time stays in range.
TypeOK ==
    /\ state \in [Jobs -> States]
    /\ owner \in [Jobs -> WorkerIds \cup {NoWorker}]
    /\ gen \in [Jobs -> Generations]
    /\ left \in [Jobs -> -MaxDelay .. LeaseSeconds]
    /\ cancel \in [Jobs -> BOOLEAN]
    /\ ahead \in [Jobs -> SUBSET Jobs]

\* A cancellation the controller accepted (request_cancel returned) is never
\* lost: whatever claims, renewals and late verdicts follow, the job is never
\* run again and never reported as a success.
CancelWins ==
    \A j \in Jobs : cancel[j] => state[j] \in {"CANCEL_REQUESTED", "CANCELLED", "FAILED"}

\* lease_owner and lease_expires_at are set exactly while the job is RUNNING
\* or CANCEL_REQUESTED, so no row is ever leased without being claimable
\* again, nor finished with a lease left behind.
LeaseMatchesState ==
    \A j \in Jobs : (owner[j] # NoWorker) <=> (state[j] \in Leased)

\* claim_next never takes a job from a worker whose lease has not run out,
\* whatever the age of the clock reading it decides on: a new generation is
\* handed out only when the previous lease is over.
NoLiveLeaseIsTaken ==
    [][\A j \in Jobs : owner[j] # NoWorker /\ left[j] > 0 => gen'[j] = gen[j]]_storeVars

\* The table implements the lifecycle promised to the operator.
PhaseOf(s) ==
    CASE s = "none" -> "absent"
      [] s = "QUEUED" -> "waiting"
      [] s = "RUNNING" -> "active"
      [] s = "CANCEL_REQUESTED" -> "cancelling"
      [] s = "SUCCEEDED" -> "succeeded"
      [] s = "PARTIAL_FAILURE" -> "partial"
      [] s = "FAILED" -> "failed"
      [] s = "CANCELLED" -> "cancelled"

Lifecycle == INSTANCE JobLifecycle
    WITH phase <- [j \in Jobs |-> PhaseOf(state[j])], attempts <- gen

\* Every store step is a step of the lifecycle, or none at all: a verdict is
\* final, a cancelled job is not attempted again, attempts are counted.
LifecycleSpec == Lifecycle!Spec
=============================================================================
