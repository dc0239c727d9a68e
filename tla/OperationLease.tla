--------------------------- MODULE OperationLease ---------------------------
(***************************************************************************)
(* The deployment boundary (toolkit/core/deploy/operation_lease.py): an    *)
(* advisory lock on .deploy.lock, the diagnostic record written into that  *)
(* file, and the cancel marker .deploy.cancel next to it.                  *)
(*                                                                         *)
(* Any process on the host may acquire the boundary, inspect it or ask for *)
(* the cancellation of its owner.  Only the flock call is atomic: reading  *)
(* the record, reading the marker, replacing it and unlinking it are       *)
(* separate system calls, and each is a separate step here.  An operation  *)
(* is identified with its lease id, a fresh uuid.                          *)
(***************************************************************************)
CONSTANTS
    Leases,      \* operations that try to acquire the boundary, once each
    Cancellers,  \* processes that run deploy_lock.cancel_active_deploy
    None

ASSUME LeaseAssumption ==
    None \notin Leases \cup Cancellers /\ Leases \cap Cancellers = {}

VARIABLES
    lock,       \* who holds the flock: an operation, a prober or None
    record,     \* the lease id in the lock file, None if empty or absent
    marker,     \* the lease id in the cancel marker, None if absent
    op,         \* op[l]: where operation l stands
    shielded,   \* shielded[l]: its _cancellation_shielded flag
    can,        \* can[c]: where canceller c stands
    aim,        \* aim[c]: the lease id it read
    told        \* operations for which raise_if_cancelled raised

vars == <<lock, record, marker, op, shielded, can, aim, told>>

opFrame == <<can, aim>>
cancelFrame == <<op, shielded, told>>

OpPlaces == {"new", "refused", "clearing", "unlinking", "truncating", "writing", "syncing",
             "owned", "shielding", "unlocked", "forgetting", "done"}
CanPlaces == {"idle", "probing", "reading1", "named", "reprobing", "reading2", "replacing",
              "closing", "reviewing", "reviewed", "done"}

\* Within acquire, once it has the lock and before its record can be read.
Acquiring == {"clearing", "unlinking", "truncating", "writing"}

\* Between the flush of the record and the unlock, by release or because fsync
\* failed: the operation has the boundary, and others can see that it has.
Owning == {"syncing", "owned", "shielding"}

\* The operation has had the boundary at some time.
Held == Owning \cup {"unlocked", "forgetting", "done"}

LeaseInit ==
    /\ lock = None /\ record = None /\ marker = None
    /\ op = [l \in Leases |-> "new"]
    /\ shielded = [l \in Leases |-> FALSE]
    /\ can = [c \in Cancellers |-> "idle"]
    /\ aim = [c \in Cancellers |-> None]
    /\ told = {}

Goto(l, place) == op' = [op EXCEPT ![l] = place]

-----------------------------------------------------------------------------
(* acquire                                                                 *)

\* (mutant) a shared lock: it only keeps inspections away.
LockShared(l) ==
    /\ op[l] = "new"
    /\ \/ lock \notin Cancellers /\ lock' = l /\ Goto(l, "clearing")
       \/ lock \in Cancellers /\ Goto(l, "refused") /\ UNCHANGED lock
    /\ UNCHANGED <<record, marker, shielded, opFrame, told>>

\* flock(LOCK_EX | LOCK_NB), or LeaseBusyError.
Lock(l) ==
    /\ op[l] = "new"
    /\ \/ lock = None /\ lock' = l /\ Goto(l, "clearing")
       \/ lock # None /\ Goto(l, "refused") /\ UNCHANGED lock
    /\ UNCHANGED <<record, marker, shielded, opFrame, told>>

\* _clear_cancel_request(expected_lease_id=None): any marker is removed.
FindMarker(l) ==
    /\ op[l] = "clearing"
    /\ Goto(l, IF marker = None THEN "truncating" ELSE "unlinking")
    /\ UNCHANGED <<lock, record, marker, shielded, opFrame, told>>

UnlinkMarker(l) ==
    /\ op[l] = "unlinking"
    /\ marker' = None
    /\ Goto(l, "truncating")
    /\ UNCHANGED <<lock, record, shielded, opFrame, told>>

\* _write_locked: truncate, then write and flush ...
Truncate(l) ==
    /\ op[l] = "truncating"
    /\ record' = None
    /\ Goto(l, "writing")
    /\ UNCHANGED <<lock, marker, shielded, opFrame, told>>

WriteRecord(l) ==
    /\ op[l] = "writing"
    /\ record' = l
    /\ Goto(l, "syncing")
    /\ UNCHANGED <<lock, marker, shielded, opFrame, told>>

\* ... and fsync, after which acquire returns.
Sync(l) ==
    /\ op[l] = "syncing"
    /\ Goto(l, "owned")
    /\ UNCHANGED <<lock, record, marker, shielded, opFrame, told>>

-----------------------------------------------------------------------------
(* The owner                                                               *)

\* (mutant) any marker counts, whoever it was meant for.
CheckpointAnyMarker(l) ==
    /\ op[l] = "owned" /\ ~shielded[l] /\ l \notin told
    /\ marker # None
    /\ told' = told \cup {l}
    /\ UNCHANGED <<lock, record, marker, op, shielded, opFrame>>

\* raise_if_cancelled, when it raises.
Checkpoint(l) ==
    /\ op[l] = "owned" /\ ~shielded[l] /\ l \notin told
    /\ marker = l
    /\ told' = told \cup {l}
    /\ UNCHANGED <<lock, record, marker, op, shielded, opFrame>>

\* shield_cancellation: entering it discards a request for this lease.
EnterShield(l) ==
    /\ op[l] = "owned" /\ ~shielded[l]
    /\ shielded' = [shielded EXCEPT ![l] = TRUE]
    /\ Goto(l, IF marker = l THEN "shielding" ELSE "owned")
    /\ UNCHANGED <<lock, record, marker, opFrame, told>>

ShieldUnlink(l) ==
    /\ op[l] = "shielding"
    /\ marker' = None
    /\ Goto(l, "owned")
    /\ UNCHANGED <<lock, record, shielded, opFrame, told>>

LeaveShield(l) ==
    /\ op[l] = "owned" /\ shielded[l]
    /\ shielded' = [shielded EXCEPT ![l] = FALSE]
    /\ UNCHANGED <<lock, record, marker, op, opFrame, told>>

\* release: unlock and close, then _clear_cancel_request for this lease.
Unlock(l) ==
    /\ op[l] = "owned" /\ ~shielded[l]
    /\ lock' = None
    /\ Goto(l, "unlocked")
    /\ UNCHANGED <<record, marker, shielded, opFrame, told>>

\* (mutant) a request that is found on the way out still counts.
ReadOwnMarkerLate(l) ==
    /\ op[l] = "unlocked"
    /\ Goto(l, IF marker = l THEN "forgetting" ELSE "done")
    /\ told' = IF marker = l THEN told \cup {l} ELSE told
    /\ UNCHANGED <<lock, record, marker, shielded, opFrame>>

ReadOwnMarker(l) ==
    /\ op[l] = "unlocked"
    /\ Goto(l, IF marker = l THEN "forgetting" ELSE "done")
    /\ UNCHANGED <<lock, record, marker, shielded, opFrame, told>>

\* The marker is unlinked by name: whatever it holds by now is gone.
Forget(l) ==
    /\ op[l] = "forgetting"
    /\ marker' = None
    /\ Goto(l, "done")
    /\ UNCHANGED <<lock, record, shielded, opFrame, told>>

\* The process dies, or acquire fails while it clears, writes or syncs: the
\* lock is released, the files stay.  When it was the fsync that failed, the
\* record names an operation whose acquire never returned.
Die(l) ==
    /\ op[l] \notin {"new", "refused", "done"}
    /\ lock' = IF lock = l THEN None ELSE lock
    /\ Goto(l, IF op[l] \in Acquiring THEN "refused" ELSE "done")
    /\ UNCHANGED <<record, marker, shielded, opFrame, told>>

-----------------------------------------------------------------------------
(* cancel_active_deploy: inspect, then request_active_cancel with the lease *)
(* id that was found, which inspects again before it replaces the marker   *)
(* and once more after it; read_deploy_lock inspects a last time.          *)

CanGoto(c, place) == can' = [can EXCEPT ![c] = place]

\* open without O_CREAT succeeds: some operation has been here before.
FileExists == \E l \in Leases : op[l] # "new"

\* The four inspections: where each is made, and where it leads when the lock
\* is free and when it is taken.
Inspections ==
    {[at |-> "idle",     free |-> "probing",   taken |-> "reading1"],
     [at |-> "named",    free |-> "reprobing", taken |-> "reading2"],
     [at |-> "closing",  free |-> "reprobing", taken |-> "reviewing"],
     [at |-> "reviewed", free |-> "probing",   taken |-> "done"]}

\* inspect finds no lock file, or probes the lock by taking it; if it gets it
\* nobody is active ...
Probe(c) ==
    /\ \E i \in Inspections :
          /\ can[c] = i.at
          /\ \/ ~FileExists /\ CanGoto(c, "done") /\ UNCHANGED lock
             \/ FileExists /\ lock = None /\ lock' = c /\ CanGoto(c, i.free)
             \/ lock # None /\ UNCHANGED lock /\ CanGoto(c, i.taken)
    /\ UNCHANGED <<record, marker, cancelFrame, aim>>

\* ... and it unlocks again.
Unprobe(c) ==
    /\ can[c] \in {"probing", "reprobing"}
    /\ lock' = None
    /\ CanGoto(c, IF can[c] = "probing" THEN "done" ELSE "reviewing")
    /\ UNCHANGED <<record, marker, cancelFrame, aim>>

\* _read_snapshot of the first inspection names the lease to cancel.
ReadRecord(c) ==
    /\ can[c] = "reading1"
    /\ aim' = [aim EXCEPT ![c] = record]
    /\ CanGoto(c, IF record = None THEN "done" ELSE "named")
    /\ UNCHANGED <<lock, record, marker, cancelFrame>>

\* The second one must still name it (expected_lease_id).
RereadRecord(c) ==
    /\ can[c] = "reading2"
    /\ CanGoto(c, IF record = aim[c] THEN "replacing" ELSE "done")
    /\ UNCHANGED <<lock, record, marker, cancelFrame, aim>>

\* os.replace of the marker.
ReplaceMarker(c) ==
    /\ can[c] = "replacing"
    /\ marker' = aim[c]
    /\ CanGoto(c, "closing")
    /\ UNCHANGED <<lock, record, cancelFrame, aim>>

\* Unless the record names another lease by now, the status is read again.
Review(c) ==
    /\ can[c] = "reviewing"
    /\ CanGoto(c, IF record = aim[c] THEN "reviewed" ELSE "done")
    /\ UNCHANGED <<lock, record, marker, cancelFrame, aim>>

-----------------------------------------------------------------------------
Operation(l) ==
    \/ Lock(l) \/ FindMarker(l) \/ UnlinkMarker(l) \/ Truncate(l) \/ WriteRecord(l)
    \/ Sync(l) \/ Checkpoint(l) \/ EnterShield(l) \/ ShieldUnlink(l) \/ LeaveShield(l)
    \/ Unlock(l) \/ ReadOwnMarker(l) \/ Forget(l) \/ Die(l)

Canceller(c) ==
    \/ Probe(c) \/ Unprobe(c) \/ ReadRecord(c) \/ RereadRecord(c)
    \/ ReplaceMarker(c) \/ Review(c)

LeaseNext == (\E l \in Leases : Operation(l)) \/ (\E c \in Cancellers : Canceller(c))

LeaseSpec == LeaseInit /\ [][LeaseNext]_vars

-----------------------------------------------------------------------------
\* The lock is with an operation or an inspection; the record and the marker
\* only ever hold the id of a lease, whoever wrote them last.
LeaseTypeOK ==
    /\ lock \in Leases \cup Cancellers \cup {None}
    /\ record \in Leases \cup {None}
    /\ marker \in Leases \cup {None}
    /\ op \in [Leases -> OpPlaces]
    /\ shielded \in [Leases -> BOOLEAN]
    /\ can \in [Cancellers -> CanPlaces]
    /\ aim \in [Cancellers -> Leases \cup {None}]
    /\ told \subseteq Leases

\* (With LeaseTypeOK.)  acquire has flushed its record and nothing has unlocked
\* since: the file lock is this operation's and the record names it, so there
\* is one owner and inspect tells who it is, whatever crashed or was refused
\* before.
OwnerIsNamed ==
    /\ LeaseTypeOK
    /\ \A l \in Leases : op[l] \in Owning => lock = l /\ record = l

\* raise_if_cancelled never stops an operation that nobody asked to stop: the
\* marker a late canceller leaves for a predecessor, or that a crash left
\* behind, does not reach the operation that runs now.
CancelIsAimed ==
    \A l \in told : \E c \in Cancellers : aim[c] = l

\* What is in the files and where the processes stand, seen as the promise.
Boundary == INSTANCE DeployBoundary
    WITH Operations <- Leases,
         owners <- {l \in Leases : op[l] \in Owning},
         past <- {l \in Leases : op[l] \in Held},
         asked <- {l \in Leases : \E c \in Cancellers : aim[c] = l},
         stopped <- told

\* Every system call of acquire, inspect, request_active_cancel, release and
\* raise_if_cancelled is a step of the promise, or invisible: the boundary
\* passes from one operation to the next only through nobody, a request names
\* somebody who has, or has had, the boundary, and nobody is stopped after the
\* unlock.  An acquire whose fsync fails counts as having had the boundary: it
\* gave it back at once, but its record could be read and a request may name it.
BoundarySpec == Boundary!Spec
=============================================================================
