------------------------------ MODULE JobWorker ------------------------------
(***************************************************************************)
(* The controller processes that execute durable jobs                      *)
(* (toolkit/controller/worker.py, __main__.py) on top of the job store.    *)
(*                                                                         *)
(* A controller process runs one worker thread.  The thread claims a job,  *)
(* runs its handler in an isolated child process while a heartbeat thread  *)
(* renews the lease, then records the verdict.  Each database transaction  *)
(* is a step of its own, and between any two of them the lease may expire, *)
(* the operator may cancel, the process may be stopped or may crash, and a *)
(* replacement process may claim the same job.  A child whose controller   *)
(* crashed may live on.                                                    *)
(*                                                                         *)
(* The handlers modelled here are the ones registered under                *)
(* operations._exclusive_operation: they take the deployment boundary (the *)
(* advisory lock of OperationLease), check the job lease once they hold it *)
(* and only then change the deployment.  Much of what they change they     *)
(* change through ansible-playbook, which runs in a session of its own: a  *)
(* handler waits for it, but it outlives the child that is killed and the  *)
(* handler that is left by an exception raised while its output is read.   *)
(***************************************************************************)
EXTENDS JobStore, FiniteSets

CONSTANTS
    Processes,    \* controller processes, in whatever order they are started
    WorkerId,     \* WorkerId[p]: "controller-<pid>"; pid 1 in every container
    NoJob,
    Rotation,     \* jobs of kind SECRET_ROTATION
    MaxFaults     \* bound on stops, crashes, stalls and database failures

Attempts == Jobs \X (1 .. MaxGeneration)

ASSUME WorkerAssumption ==
    /\ WorkerId \in [Processes -> WorkerIds]
    /\ NoJob \notin Jobs
    /\ Rotation \subseteq Jobs
    /\ MaxFaults \in Nat

\* The database waits 10 s for the write lock, a lease lasts 30 s: a lease is
\* never over when it is granted.
ASSUME DelayAssumption == MaxDelay < LeaseSeconds

VARIABLES
    alive,      \* alive[p]: "down", "up", or "stopping" once worker_stop is set
    pc,         \* pc[p]: where run_forever / run_once stands
    job,        \* job[p]: the job of the current OperationContext
    att,        \* att[p]: its lease_generation
    lost,       \* lost[p]: the context's _lease_lost flag
    beating,    \* beating[p]: the heartbeat thread may still renew
    seen,       \* seen[p]: the state _fail read before its transition
    kid,        \* kid[a]: the isolated child process of attempt a
    holders,    \* attempts that hold the deployment boundary
    strays,     \* attempts whose playbook runs on and is waited for by nobody
    lastEffect, \* lastEffect[j]: the attempt that last changed the deployment
    faults      \* faults so far

workerVars == <<alive, pc, job, att, lost, beating, seen>>
childVars == <<kid, holders, strays, lastEffect>>
vars == <<storeVars, workerVars, childVars, faults>>

ProcessStates == {"down", "up", "stopping"}
Places == {"idle", "polling", "claimed", "running", "collected", "finishing",
           "finalizing", "cancelling", "failing", "recording"}
Messages == {"succeeded", "cancelled", "lease_lost", "error"}
Phases == {"none", "boot", "held", "working", "returned", "dead"} \cup Messages
Live == {"boot", "held", "working", "returned"}

Mine(p) == <<job[p], att[p]>>

-----------------------------------------------------------------------------
WInit ==
    /\ Init
    /\ alive = [p \in Processes |-> "down"]
    /\ pc = [p \in Processes |-> "idle"]
    /\ job = [p \in Processes |-> NoJob]
    /\ att = [p \in Processes |-> 0]
    /\ lost = [p \in Processes |-> FALSE]
    /\ beating = [p \in Processes |-> FALSE]
    /\ seen = [p \in Processes |-> "none"]
    /\ kid = [a \in Attempts |-> "none"]
    /\ holders = {}
    /\ strays = {}
    /\ lastEffect = [j \in Jobs |-> 0]
    /\ faults = 0

\* The next statement of run_once, with the same context.
Goto(p, place) ==
    /\ pc' = [pc EXCEPT ![p] = place]
    /\ UNCHANGED <<alive, job, att, lost, beating, seen>>

\* run_once is over (returned or raised): the context is dropped.
Drop(p) ==
    /\ pc' = [pc EXCEPT ![p] = "idle"]
    /\ job' = [job EXCEPT ![p] = NoJob]
    /\ att' = [att EXCEPT ![p] = 0]
    /\ lost' = [lost EXCEPT ![p] = FALSE]
    /\ beating' = [beating EXCEPT ![p] = FALSE]
    /\ seen' = [seen EXCEPT ![p] = "none"]

Return(p) == Drop(p) /\ UNCHANGED alive

\* _LeaseHeartbeat.__exit__ waits one second for the thread; one that is in
\* the middle of a renewal outlives the wait, so it may or may not beat on.
LeaveRunning(p, place) ==
    /\ pc' = [pc EXCEPT ![p] = place]
    /\ \E b \in {FALSE, beating[p]} : beating' = [beating EXCEPT ![p] = b]
    /\ UNCHANGED <<alive, job, att, lost, seen>>

\* A handler is cut short.  The playbook it was waiting for, if any, is in a
\* session of its own and runs on.
LeaveTool(a) ==
    \/ UNCHANGED strays
    \/ kid[a] = "working" /\ strays' = strays \cup {a}

\* _terminate_process_tree, or the death of the child: the operating system
\* drops the file lock with the process, the playbook is not reached.
Kill(a) ==
    /\ kid' = [kid EXCEPT ![a] = "dead"]
    /\ holders' = holders \ {a}
    /\ LeaveTool(a)
    /\ UNCHANGED lastEffect

\* What check_cancelled finds for an attempt: its lease, read with a clock
\* that is d ticks old.
Holds(p, d) == ~lost[p] /\ LiveLease(job[p], WorkerId[p], att[p], d)

-----------------------------------------------------------------------------
(* The worker thread: run_forever and run_once.                            *)

\* run_forever: the stop event is looked at here and nowhere else in the loop.
Poll(p) ==
    /\ alive[p] = "up" /\ pc[p] = "idle"
    /\ Goto(p, "polling")
    /\ UNCHANGED <<storeVars, childVars, faults>>

\* run_once: claim_next finds a job, or settles what it can and returns.
Claim(p) ==
    /\ pc[p] = "polling"
    /\ \E d \in Delays :
          \/ \E j \in Jobs :
                /\ ClaimNext(WorkerId[p], j, d)
                /\ pc' = [pc EXCEPT ![p] = "claimed"]
                /\ job' = [job EXCEPT ![p] = j]
                /\ att' = [att EXCEPT ![p] = gen'[j]]
                /\ UNCHANGED <<alive, lost, beating, seen>>
          \/ ClaimNothing(d) /\ Return(p)
    /\ UNCHANGED <<childVars, faults>>

\* (mutant) the child is started but the heartbeat is not.
BeginWithoutHeartbeat(p) ==
    /\ pc[p] = "claimed"
    /\ \E d \in Delays :
          \/ /\ Holds(p, d)
             /\ kid' = [kid EXCEPT ![Mine(p)] = "boot"]
             /\ pc' = [pc EXCEPT ![p] = "running"]
             /\ UNCHANGED <<alive, job, att, lost, beating, seen, holders, strays, lastEffect>>
          \/ ~Holds(p, d) /\ Return(p) /\ UNCHANGED childVars
    /\ UNCHANGED <<storeVars, faults>>

\* context.log("Job started"), then the child and the heartbeat are started.
Begin(p) ==
    /\ pc[p] = "claimed"
    /\ \E d \in Delays :
          \/ /\ Holds(p, d)
             /\ kid' = [kid EXCEPT ![Mine(p)] = "boot"]
             /\ pc' = [pc EXCEPT ![p] = "running"]
             /\ beating' = [beating EXCEPT ![p] = TRUE]
             /\ UNCHANGED <<alive, job, att, lost, seen, holders, strays, lastEffect>>
          \/ ~Holds(p, d) /\ Return(p) /\ UNCHANGED childVars
    /\ UNCHANGED <<storeVars, faults>>

\* The heartbeat thread: renew_lease, or give up for good.
Heartbeat(p) ==
    /\ alive[p] # "down" /\ beating[p]
    /\ \E d \in Delays :
          \/ /\ RenewLease(job[p], WorkerId[p], att[p], d)
             /\ UNCHANGED workerVars
          \/ /\ ~LiveLease(job[p], WorkerId[p], att[p], d)
             /\ lost' = [lost EXCEPT ![p] = TRUE]
             /\ beating' = [beating EXCEPT ![p] = FALSE]
             /\ UNCHANGED <<storeVars, alive, pc, job, att, seen>>
    /\ UNCHANGED <<childVars, faults>>

\* _run_isolated receives the child's message; the finally clause then makes
\* sure that nothing of the child is left.
Collect(p) ==
    /\ pc[p] = "running" /\ kid[Mine(p)] \in Messages
    /\ LET message == kid[Mine(p)]
       IN  \/ message = "succeeded" /\ LeaveRunning(p, "collected")
           \/ message = "cancelled" /\ LeaveRunning(p, "cancelling")
           \/ message = "error" /\ LeaveRunning(p, "failing")
           \/ message = "lease_lost" /\ Return(p)
    /\ Kill(Mine(p))
    /\ UNCHANGED <<storeVars, faults>>

\* The child is gone without a message: IsolatedOperationError.
ChildGone(p) ==
    /\ pc[p] = "running" /\ kid[Mine(p)] = "dead"
    /\ LeaveRunning(p, "failing")
    /\ UNCHANGED <<storeVars, childVars, faults>>

\* The poll loop of _run_isolated notices a stop, a cancellation or a lost
\* lease, whatever the child has sent since the loop last looked.
\* SECRET_ROTATION is exempt: it handles these in the child.
Interrupt(p) ==
    /\ pc[p] = "running"
    /\ job[p] \notin Rotation
    /\ \E d \in Delays :
          \/ alive[p] = "stopping" /\ Return(p)
          \/ ~Holds(p, d) /\ Return(p)
          \/ /\ Holds(p, d) /\ state[job[p]] = "CANCEL_REQUESTED"
             /\ LeaveRunning(p, "cancelling")
    /\ Kill(Mine(p))
    /\ UNCHANGED <<storeVars, faults>>

\* The execution deadline of _run_isolated: no kind is exempt.
Deadline(p) ==
    /\ pc[p] = "running"
    /\ LeaveRunning(p, "failing")
    /\ Kill(Mine(p))
    /\ UNCHANGED <<storeVars, faults>>

\* check_cancelled after the child reported success.
FinalCheck(p) ==
    /\ pc[p] = "collected"
    /\ \E d \in Delays :
          \/ ~Holds(p, d) /\ Return(p)
          \/ /\ Holds(p, d)
             /\ Goto(p, IF state[job[p]] = "CANCEL_REQUESTED" THEN "cancelling" ELSE "finishing")
    /\ UNCHANGED <<storeVars, childVars, faults>>

\* transition RUNNING -> SUCCEEDED or PARTIAL_FAILURE; a conflict leads to
\* _finalize_won_cancellation.
Finish(p) ==
    /\ pc[p] = "finishing"
    /\ \E d \in Delays :
          \/ /\ \E target \in {"SUCCEEDED", "PARTIAL_FAILURE"} :
                   Transition(job[p], "RUNNING", target, WorkerId[p], att[p], d)
             /\ Return(p)
          \/ /\ ~(state[job[p]] = "RUNNING" /\ LiveLease(job[p], WorkerId[p], att[p], d))
             /\ Goto(p, "finalizing")
             /\ UNCHANGED storeVars
    /\ UNCHANGED <<childVars, faults>>

\* _finalize_won_cancellation, up to its transition.
Finalize(p) ==
    /\ pc[p] = "finalizing"
    /\ \E d \in Delays :
          IF LiveLease(job[p], WorkerId[p], att[p], d) /\ state[job[p]] = "CANCEL_REQUESTED"
          THEN Goto(p, "cancelling")
          ELSE Return(p)
    /\ UNCHANGED <<storeVars, childVars, faults>>

\* transition CANCEL_REQUESTED -> CANCELLED; a conflict is ignored.
Cancelled(p) ==
    /\ pc[p] = "cancelling"
    /\ \E d \in Delays :
          \/ Transition(job[p], "CANCEL_REQUESTED", "CANCELLED", WorkerId[p], att[p], d)
          \/ /\ ~(/\ state[job[p]] = "CANCEL_REQUESTED"
                  /\ LiveLease(job[p], WorkerId[p], att[p], d))
             /\ UNCHANGED storeVars
    /\ Return(p)
    /\ UNCHANGED <<childVars, faults>>

\* _fail reads the state under the lease ...
Fail(p) ==
    /\ pc[p] = "failing"
    /\ \E d \in Delays :
          \/ /\ LiveLease(job[p], WorkerId[p], att[p], d)
             /\ pc' = [pc EXCEPT ![p] = "recording"]
             /\ seen' = [seen EXCEPT ![p] = state[job[p]]]
             /\ UNCHANGED <<alive, job, att, lost, beating>>
          \/ ~LiveLease(job[p], WorkerId[p], att[p], d) /\ Return(p)
    /\ UNCHANGED <<storeVars, childVars, faults>>

\* ... and records FAILED in another transaction, from the state it read.
RecordFailure(p) ==
    /\ pc[p] = "recording"
    /\ \E d \in Delays :
          \/ Transition(job[p], seen[p], "FAILED", WorkerId[p], att[p], d)
          \/ /\ ~(state[job[p]] = seen[p] /\ LiveLease(job[p], WorkerId[p], att[p], d))
             /\ UNCHANGED storeVars
    /\ Return(p)
    /\ UNCHANGED <<childVars, faults>>

-----------------------------------------------------------------------------
(* The isolated child: _isolated_operation_entry around a handler that is  *)
(* wrapped in operations._exclusive_operation.                             *)

ChildGoto(a, phase) == kid' = [kid EXCEPT ![a] = phase]

\* OperationLease.acquire: the lock, or LeaseBusyError as a safe error.  The
\* lock may also be with a command line operation or an inspection.
ChildAcquire(a) ==
    /\ kid[a] = "boot"
    /\ \/ holders = {} /\ holders' = {a} /\ ChildGoto(a, "held")
       \/ ChildGoto(a, "error") /\ UNCHANGED holders
    /\ UNCHANGED <<storeVars, workerVars, strays, lastEffect, faults>>

\* assert_lease, called by the child: it was started with the worker id that
\* claimed its generation, which owner still is while gen is unchanged.
ChildLease(a, d) == \E w \in WorkerIds : LiveLease(a[1], w, a[2], d)

\* (mutant) the body runs as soon as the boundary is held.
ChildStartsUnchecked(a) ==
    /\ kid[a] = "held"
    /\ ChildGoto(a, "working")
    /\ UNCHANGED <<storeVars, workerVars, holders, strays, lastEffect, faults>>

\* check_cancelled under the boundary, before anything is changed.
ChildCheck(a) ==
    /\ kid[a] = "held"
    /\ \E d \in Delays :
          \/ /\ ChildLease(a, d) /\ state[a[1]] # "CANCEL_REQUESTED"
             /\ ChildGoto(a, "working") /\ UNCHANGED holders
          \/ /\ ChildLease(a, d) /\ state[a[1]] = "CANCEL_REQUESTED"
             /\ ChildGoto(a, "cancelled") /\ holders' = holders \ {a}
          \/ /\ ~ChildLease(a, d)
             /\ ChildGoto(a, "lease_lost") /\ holders' = holders \ {a}
    /\ UNCHANGED <<storeVars, workerVars, strays, lastEffect, faults>>

\* The handler changes configuration, secrets, machines or containers, itself
\* or through a playbook it is waiting for.
ChildWork(a) ==
    /\ kid[a] = "working"
    /\ lastEffect' = [lastEffect EXCEPT ![a[1]] = a[2]]
    /\ UNCHANGED <<storeVars, workerVars, kid, holders, strays, faults>>

\* context.log and check_cancelled between two changes: the handler is left by
\* an exception, which releases the boundary.  Raised by the callback that reads
\* the output of a playbook, it leaves the playbook running.
ChildCheckpoint(a) ==
    /\ kid[a] = "working"
    /\ \E d \in Delays :
          \/ ~ChildLease(a, d) /\ ChildGoto(a, "lease_lost")
          \/ /\ ChildLease(a, d) /\ state[a[1]] = "CANCEL_REQUESTED"
             /\ ChildGoto(a, "cancelled")
    /\ holders' = holders \ {a}
    /\ LeaveTool(a)
    /\ UNCHANGED <<storeVars, workerVars, lastEffect, faults>>

\* The handler returns, its playbooks awaited, or fails; either way the boundary
\* is released.
ChildReturn(a) ==
    /\ kid[a] = "working"
    /\ \/ ChildGoto(a, "returned") /\ UNCHANGED strays
       \/ ChildGoto(a, "error") /\ LeaveTool(a)
    /\ holders' = holders \ {a}
    /\ UNCHANGED <<storeVars, workerVars, lastEffect, faults>>

\* check_cancelled once more, then the message is sent.
ChildReport(a) ==
    /\ kid[a] = "returned"
    /\ \E d \in Delays :
          \/ /\ ChildLease(a, d)
             /\ ChildGoto(a, IF state[a[1]] = "CANCEL_REQUESTED" THEN "cancelled" ELSE "succeeded")
          \/ ~ChildLease(a, d) /\ ChildGoto(a, "lease_lost")
    /\ UNCHANGED <<storeVars, workerVars, holders, strays, lastEffect, faults>>

\* The child process dies (killed by the kernel, say) without a message.
ChildDies(a) ==
    /\ kid[a] \in Live
    /\ Kill(a)
    /\ UNCHANGED <<storeVars, workerVars, faults>>

\* A playbook left behind goes on changing the machines ...
StrayWork(a) ==
    /\ a \in strays
    /\ lastEffect' = [lastEffect EXCEPT ![a[1]] = a[2]]
    /\ UNCHANGED <<storeVars, workerVars, kid, holders, strays, faults>>

\* ... until it is through.
StrayEnds(a) ==
    /\ a \in strays
    /\ strays' = strays \ {a}
    /\ UNCHANGED <<storeVars, workerVars, kid, holders, lastEffect, faults>>

-----------------------------------------------------------------------------
(* Controller processes and faults.                                        *)

\* main: bind_controller_socket refuses to start beside a process that still
\* accepts connections, but not beside one that is shutting down.
Start(p) ==
    /\ alive[p] = "down"
    /\ \A q \in Processes : alive[q] # "up"
    /\ alive' = [alive EXCEPT ![p] = "up"]
    /\ UNCHANGED <<storeVars, pc, job, att, lost, beating, seen, childVars, faults>>

Fault == faults < MaxFaults /\ faults' = faults + 1

\* The finally clause of main: worker_stop is set.
Stop(p) ==
    /\ alive[p] = "up"
    /\ alive' = [alive EXCEPT ![p] = "stopping"]
    /\ UNCHANGED <<storeVars, pc, job, att, lost, beating, seen, childVars>>
    /\ Fault

\* The interpreter exits after waiting five seconds for the daemon worker
\* thread, which may be anywhere; only a live child is waited for.
Exit(p) ==
    /\ alive[p] = "stopping"
    /\ ~(pc[p] = "running" /\ kid[Mine(p)] \in Live)
    /\ alive' = [alive EXCEPT ![p] = "down"]
    /\ Drop(p)
    /\ UNCHANGED <<storeVars, childVars, faults>>

\* The process is killed.  In a container its child dies with it; started by
\* hand, the child is in a session of its own and lives on.
Crash(p) ==
    /\ alive[p] # "down"
    /\ alive' = [alive EXCEPT ![p] = "down"]
    /\ Drop(p)
    /\ \/ UNCHANGED childVars
       \/ pc[p] = "running" /\ kid[Mine(p)] \in Live /\ Kill(Mine(p))
    /\ UNCHANGED storeVars
    /\ Fault

\* A renewal fails for any other reason than a conflict (a locked database).
HeartbeatFails(p) ==
    /\ alive[p] # "down" /\ beating[p]
    /\ lost' = [lost EXCEPT ![p] = TRUE]
    /\ beating' = [beating EXCEPT ![p] = FALSE]
    /\ UNCHANGED <<storeVars, alive, pc, job, att, seen, childVars>>
    /\ Fault

\* A store call of the worker thread raises something else than a conflict:
\* run_once tries _fail, and when it was past that run_forever swallows it.
StoreFails(p) ==
    /\ \/ /\ pc[p] = "running" /\ job[p] \notin Rotation
          /\ LeaveRunning(p, "failing") /\ Kill(Mine(p))
       \/ /\ pc[p] \in {"claimed", "collected", "finishing"}
          /\ Goto(p, "failing") /\ UNCHANGED childVars
       \/ /\ pc[p] \in {"polling", "finalizing", "cancelling", "failing", "recording"}
          /\ Return(p) /\ UNCHANGED childVars
    /\ UNCHANGED storeVars
    /\ Fault

\* A log call of the child fails for any other reason than a conflict while it
\* reads a playbook's output, and the handler carries on without the playbook:
\* onboard_node takes a failed refresh for a warning.
PlaybookLost(a) ==
    /\ kid[a] = "working"
    /\ strays' = strays \cup {a}
    /\ UNCHANGED <<storeVars, workerVars, kid, holders, lastEffect>>
    /\ Fault

\* A worker that runs normally loses its lease if time passes now.
AboutToLapse(p) ==
    /\ alive[p] # "down" /\ job[p] # NoJob
    /\ beating[p] \/ pc[p] # "running"
    /\ gen[job[p]] = att[p] /\ left[job[p]] = 1

\* Time passes.  That it runs away from a worker in normal operation (poll
\* interval 0.2 s, renewal every 10 s, lease 30 s) is a fault: a stall.
Pass ==
    /\ Tick
    /\ UNCHANGED <<workerVars, childVars>>
    /\ IF \E p \in Processes : AboutToLapse(p) THEN Fault ELSE UNCHANGED faults

-----------------------------------------------------------------------------
Operator ==
    /\ \/ \E j \in Jobs, A \in SUBSET Jobs : Submit(j, A)
       \/ \E j \in Jobs : RequestCancel(j)
    /\ UNCHANGED <<workerVars, childVars, faults>>

\* Everything the worker thread does by itself.
Progress(p) ==
    \/ Poll(p) \/ Claim(p) \/ Begin(p)
    \/ Collect(p) \/ ChildGone(p) \/ Interrupt(p) \/ Deadline(p)
    \/ FinalCheck(p) \/ Finish(p) \/ Finalize(p) \/ Cancelled(p)
    \/ Fail(p) \/ RecordFailure(p)

Child(a) ==
    \/ ChildAcquire(a) \/ ChildCheck(a) \/ ChildWork(a) \/ ChildCheckpoint(a)
    \/ ChildReturn(a) \/ ChildReport(a) \/ ChildDies(a)
    \/ StrayWork(a) \/ StrayEnds(a) \/ PlaybookLost(a)

Environment(p) ==
    Start(p) \/ Stop(p) \/ Exit(p) \/ Crash(p) \/ HeartbeatFails(p) \/ StoreFails(p)

WNext ==
    \/ Operator
    \/ \E p \in Processes : Progress(p) \/ Heartbeat(p) \/ Environment(p)
    \/ \E a \in Attempts : Child(a)
    \/ Pass

WSpec == WInit /\ [][WNext]_vars

\* The worker thread keeps going, its heartbeat keeps beating, the clock
\* advances and the container's restart policy brings a controller back.
\* Nothing is assumed of the child: a handler that hangs is what the deadline
\* is for.  Faults are bounded, so eventually there are none.
Fairness ==
    /\ \A p \in Processes :
          WF_vars(Progress(p)) /\ WF_vars(Heartbeat(p)) /\ WF_vars(Exit(p))
    /\ WF_vars(\E p \in Processes : Start(p))
    /\ WF_vars(Pass)

WFairSpec == WSpec /\ Fairness

-----------------------------------------------------------------------------
\* The store's columns keep their types under the calls the workers make, and so
\* do the contexts of run_once, the children and the boundary they hold.
WTypeOK ==
    /\ TypeOK
    /\ alive \in [Processes -> ProcessStates]
    /\ pc \in [Processes -> Places]
    /\ job \in [Processes -> Jobs \cup {NoJob}]
    /\ att \in [Processes -> Generations]
    /\ lost \in [Processes -> BOOLEAN]
    /\ beating \in [Processes -> BOOLEAN]
    /\ seen \in [Processes -> States]
    /\ kid \in [Attempts -> Phases]
    /\ holders \in SUBSET Attempts
    /\ strays \in SUBSET Attempts
    /\ lastEffect \in [Jobs -> Generations]
    /\ faults \in 0 .. MaxFaults

\* No two controller processes ever work for the same attempt, even when they
\* share a worker id, as the containers of successive restarts do.
AttemptsAreDistinct ==
    \A p, q \in Processes :
        p # q /\ job[p] # NoJob /\ job[p] = job[q] => att[p] # att[q]

\* Once a newer attempt has changed the deployment, an older one (the child of
\* a crashed controller, say) never does, nor does a playbook it waits for:
\* replays interleave only through a playbook that was left behind, because its
\* child was killed or a log callback raised while its output was read.
EffectsInOrder ==
    [][\A j \in Jobs :
          lastEffect'[j] >= lastEffect[j] \/ <<j, lastEffect'[j]>> \in strays]_vars

\* When a job is reported as (partly) successful, no handler is changing the
\* deployment on its behalf any more: neither the child of the reported attempt
\* nor one that an earlier controller left behind.  And unless there was a
\* crash, a stop, a stall or a database failure before, nothing is: no playbook
\* of the job runs on, although cancellations, deadlines and failures of the
\* handler leave playbooks behind.
SuccessIsFinal ==
    \A a \in Attempts :
        state[a[1]] \in {"SUCCEEDED", "PARTIAL_FAILURE"} =>
            kid[a] # "working" /\ (a \in strays => faults > 0)

\* A job is handed out again only because something went wrong: every attempt
\* after the first is paid for by a fault.  In normal operation the heartbeat
\* keeps the job, and each job runs once.
RetriesNeedFaults ==
    \A j \in Jobs : gen[j] <= faults + 1

\* Every accepted job gets its verdict, whatever crashes, stalls, hanging
\* handlers and cancellations happen on the way.
EveryJobSettles ==
    \A j \in Jobs : state[j] = "QUEUED" ~> state[j] \in Terminal
=============================================================================
