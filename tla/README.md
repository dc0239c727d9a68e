# Verification of the homelab controller

TLA+ specifications, TLC models and TLAPS proofs for the part of the repository
that decides things over time: the controller that admits durable jobs, runs
them in isolated processes under leases, guards the deployment boundary, deploys
and recovers the fleet, rotates secrets and updates images with automatic
rollback, starts the containers of a node in waves, heals them from a watchdog,
reports progress to followers, and initializes a fresh installation.

Each specification is translated from the source; `PROJECT.json` ("map") names
the lines behind every definition. The data (payloads, messages, results,
digests) is abstracted; the control (guards, early returns, error paths, the
order of writes) is kept.

## 1. Inventory

| Component | State | Operations | Hard behaviour | What makes it correct |
|---|---|---|---|---|
| Job store (`controller/store.py`) | SQLite table `jobs`: state, lease owner, generation, expiry, cancel flag, order | submit, claim_next, renew_lease, assert_lease, transition, request_cancel | clock read before the write lock is granted; workers that no longer own what they write | cancellations are not lost, live leases are not taken, verdicts are final |
| Controller worker (`controller/worker.py`, `__main__.py`) | one thread per process with its context, a heartbeat thread, one child process | run_forever, run_once, heartbeat, _run_isolated, _fail, start, stop | every transaction may be followed by expiry, cancellation, crash or takeover; an orphaned child lives on, and so does its playbook | attempts are told apart, handlers of replays do not interleave, every job settles |
| Deployment boundary (`core/deploy/operation_lease.py`, `deploy_lock.py`) | flock, record in the lock file, cancel marker | acquire, inspect, request cancellation, checkpoint, shield, release | only flock is atomic, everything else is a sequence of system calls | one owner, correctly named; cancellations reach whom they are meant for |
| Event log and followers (`store.py`, `webui/controller_sse.py`, `static/js/operations.js`, `cli/controller_jobs.py`) | table `job_events`; cursor of each follower | append, page, ask for the state, reconnect, give up | pages and state are separate requests; connections break in the middle of a page | fenced log with one verdict; shown in order, to the end |
| Image updates (`controller/operations.py`, `core/ops/release_state.py`) | `active.json`, `rollback.json`, `recovery.json`, the versions the nodes run | refresh, apply, rollback, recover, automatic rollback | the handler may be killed between any two writes; deployments stop half way | recovery is always possible, failures are flagged, rollbacks go back |
| Bootstrap (`controller/bootstrap_api.py`, `store.py`) | capability and session rows, seven files and a manifest, a lock | issue, exchange, fail, validate, initialize, consume | publication file by file, expiry during the request, racing requests, other writers of the same files | one credential, no mixed publication, success is not undone |
| Job admission, destroy plans, approvals (`store.py`, `app.py`) | rows with principal, idempotency key, payload and kind; plans; approvals | submit_job, submit_job_batch_limited, create_plan, issue_approval, consumption | limits, keys and approvals decided in one transaction, in two shapes; expiry by an older clock reading | limits hold, an approval admits one job of what was planned, a delivery is accepted whole |
| Deployment and recovery (`core/deploy/deploy_workflow.py`, `deploy_recovery.py`, `core/ansible`, `core/manifest/ownership.py`) | catalog, artifacts, what nodes run, credentials, ownership ledger, step states | sixteen phases from preflight to notification | tools stop half way, cancellations are seen at checkpoints, callbacks raise, processes die | success means converged, credentials outlive services, the ledger follows the fleet |
| Secret rotation (`operations.py`, `cli/secrets_cmd.py`, `settings_api.py`) | secrets file, what services accept, values kept in memory | dump, rotate, deploy, restore, deploy again | fails, is cancelled, interrupted or killed between the two deployments; somebody edits the file | verdicts are true, losses are reported, the way back is known |
| Staggered start (`staggered_compose.py`, `compose_wait.py`, `deploy-server-toolkit.yml`) | status marker, log, systemd unit, lock file | launch, waves with pull, up, health and hook, poll | four processes that share only files; deleted lock, kills, reboots, SSH | success is earned by this start, starts are alone, success is not taken for death |
| Watchdog (`core/ops/watchdog`, `cli/watchdog_cmd.py`) | watchdog-state.json: counters, times of restarts, alerts and recoveries | scan, heal, recover, notify, webhook heal | every run is a new process, may be killed, overlaps another run or a webhook job; saves fail silently | budget, backoff and cooldowns hold across runs |
| Approval queue, wipe, destruction, configuration, registry, generators, infrastructure drivers, identity, backups, web interface, command line, service plugins, automation | files and remote systems | I/O and pure functions | - | not modelled, see section 6 |

How they interact: the HTTP API and the web interface submit and cancel jobs in
the store; the worker of whichever controller process is alive claims them; its
child process takes the deployment boundary before it changes anything and
writes events through the store; browsers and the command line poll events and
state. A deployment runs Ansible, whose playbook launches the staggered start on
each node and waits for it. Rotation and updates run deployments inside their own
operation. Command-line operations and the watchdog use the same boundary without
any job; the watchdog's recovery is a recovery workflow.

`PROJECT.json` lists the hazards, each at its line, with the property that would
catch it or the reason why none does.

## 2. Modules

    JobLifecycle            what a job promises (abstract)
      ^ implemented by
    JobStore                the jobs table                     JobProofs
      ^ extended by
      |-- JobWorker         controllers, heartbeats, children  JobProofs
      |-- JobEvents         event log, stream, command line    JobProofs
    DeployBoundary          what the boundary promises (abstract)
      ^ implemented by
    OperationLease          lock, record and marker            DeploymentProofs, second half
    ReleaseUpdate           release files and update handler   ReleaseUpdateProofs
    Deployment              deployment and recovery workflow   DeploymentProofs
    SecretRotation          rotation over abstract deployments SecretRotationProofs
    StaggeredStart          launcher, runner and waiter of a node  StaggeredStartProofs
    Watchdog                runs, webhook job, state file      WatchdogProofs
    JobAdmission            submission rules, plans, approvals JobAdmissionProofs
    Bootstrap               credentials and initialization     BootstrapProofs

`MC<module>.tla` instantiates a module for TLC; several `.cfg` files may use one.
Definitions marked `(mutant)` are plausible mistakes. They are not used by any
specification; exchanging one for the definition that follows it makes the
property it is paired with fail.

### JobStore

One variable per column. Every method is one `BEGIN IMMEDIATE` transaction and so
one action. The clock is not part of the transaction: `now` is read before the
write lock is waited for. There is no absolute time; `left[j]` is the time until
`lease_expires_at`, and a method that read the clock `d` ticks ago (0 ..
`MaxDelay`) compares with `left[j] + d` and grants `LeaseSeconds - d`. `ahead[j]`
is the order by `created_at, rowid`, which for the same reason need not be the
order of insertion. Callers are unconstrained: any worker id may present any
generation. `Transition` covers the transitions callers ask for; `claim_job` has
no caller outside tests.

`LifecycleSpec` is `JobLifecycle` under `PhaseOf`: the table implements what is
promised to the operator.

### JobWorker

`pc[p]` is the place of a worker thread in `run_once`; each place is followed by
one store transaction or one step of `_run_isolated`. `beating[p]` is the
heartbeat thread, which may outlive the block that started it. `kid[a]` is the
isolated child of attempt `a = <<job, generation>>`; it survives its controller
unless the crash takes it along. `holders` is the boundary, abstracted from
`OperationLease` to mutual exclusion (`OneOwner` below) that may be refused at
any time. `lastEffect[j]` is the attempt that last changed the deployment.
`strays` are attempts whose ansible-playbook runs on without anybody who waits for
it: the runner gives it a session of its own (ansible_runner.py:240), so that it is
reached neither by the termination of the child's process group nor by an exception
that the log callback raises while its output is read (`LeaveTool`: `Kill`,
`ChildCheckpoint`, a handler that fails, the death of the child). `PlaybookLost` is
the handler that carries on without its playbook. A stray playbook changes the
deployment (`StrayWork`) until it is through. The model lets every handler have a
playbook at any time, which is more than the code does.

Faults (stops, crashes, a failing database, a stall that eats a lease) are
counted and bounded by `MaxFaults`; `RetriesNeedFaults` compares against that
count. Time that passes without making a normally running worker lose its lease
is free.

The handlers modelled are those under `_exclusive_operation`; `Rotation` jobs are
not interrupted by the poll loop, as in the code. The run has an ordinary job
(`Rotation = {}`); the same properties were seen to hold with a rotation job in its
place, and the theorems hold for any set `Rotation`.

### OperationLease

An operation is its lease id. The places of an operation and of a canceller stand
between system calls: taking the lock, reading, unlinking and replacing the
marker, truncating, writing and flushing the record, fsync. An fsync that fails makes
acquire give the lock back with a record that names it: `Owning` therefore begins
with the flush, and such an acquire has had the boundary for a moment. A canceller is
`deploy_lock.cancel_active_deploy` with all its inspections, each of which takes
the lock for a moment when it is free. `told` (history) holds the operations that
were stopped by a request.

`BoundarySpec` is `DeployBoundary` under a mapping that forgets the files: the
owners are the operations between the return of acquire and the unlock, those
asked to stop are the aims of the cancellers. It adds to OwnerIsNamed and
CancelIsAimed what only steps can say: the boundary goes from one operation to the
next through nobody, a request never names an operation that has not had it, and
nobody is stopped once it has unlocked. (Left out: a flush that fails and that
`handle.close()` repeats after the unlock, operation_lease.py:94-97.) It promises no effect of a request,
because the code gives none (see the observations below).

### JobEvents

Extends `JobStore` with the log that each transaction writes and with followers.
Sequence numbers are allocated inside the writing transaction, so a number is a
position in the log. A stream reads on while pages are full; the command line
asks for the state after each page. A browser resumes after the last id it saw,
`MaxRetries` times.

### ReleaseUpdate

A release is a revision and a version per role; an update gives the selected roles
a fresh version. The three files are written one per step, with deployments in
between that bring any subset of the affected roles to the active release when
they fail: `run_deploy_workflow` reports its own errors, a busy boundary included,
as a failed result. `Killed` stands for the end of the handler at any other point
(shutdown, deadline, lost lease, crash, an exception that leaves the handler), and
the job either fails or starts over. A killed handler and a deployment whose log
callback raised may leave a playbook that goes on bringing roles to releases of its
time (`Straggle`). Rollback and recovery are also refused when `affected_roles` finds
no node for the services, which depends on the configuration of the moment. A plain
deployment in the model covers all roles. `clean` is a history variable: no kill, no failed rollback, no playbook left.

### Bootstrap

Credentials are rows with a standing, remaining time and a failure counter. The
API checks the phase in one request step and calls the store in another
(`checked`). A request publishes seven files and the manifest, each with a
possible failure before or after the link; the answer for an unknown error is
derived from the files as they are left. The phase compares who published what:
that stands for the digests in the manifest.

Others write the managed files at any time, without bootstrap.lock and without the
manifest: `Save` is save_config, save_local_config and save_secrets_plaintext, which
the desired-state, settings and secrets endpoints, the rotation and the CLI call
(desired_state_api.py:113, 304-307; settings_api.py:124); `MakeKey` and `WriteSops`
are ensure_sops_ready and init_sops, which make an age key where there is none. Such
a file is `Edited`.

### JobAdmission

Rows keep what the rules compare: principal, key, payload and kind, and for a
destroy request plan, content and token. `SubmitJob` is one transaction: an
existing row with the same principal and key answers for the request if the
payload is the same and conflicts otherwise; else the kind's limit and, for a
destroy request, the approval decide. The kinds that share a slot and the limits
are those app.py passes. Approvals expire by `left`, compared with a clock reading
up to `MaxDelay` older than the transaction. What happens to a job afterwards is
reduced to the table of transitions (`Progress`), which JobStore details.

### Deployment

`run` is the workflow that owns the boundary: its phase, targets, step states and
what the playbook has still to reach. Gates end the workflow, checks write down
their outcome and go on; `AllSuccess` puts the verdict together as the code does.
A deployment that finds no guest playbook fails with the steps of its nodes as they
are (`DeployNodes`).
`Checked` and `Cancelled` say at which phases `raise_if_cancelled` stands between
the phase before and this one. `LogRaises`, `InfraTimesOut` and `Kill` end a
workflow without its tools, which become `stray` and may still apply what they
carry. `abandoned` (history) is set once a playbook was left to itself: the
properties of the passing run and the theorems exclude what happens after that,
and the run `stray_tools` is about it. `Prune` and `Commit` are the two writes of
`commit_ownership_ledger`, with a possible end in between. The catalog changes only
between workflows: the code reads it again when it commits (1463), and an edit made
by hand in the middle of a deployment is outside the model.

### SecretRotation

Values are numbers; the file has one per secret, and each service accepts one. A
deployment is a series of `Reconcile` steps and an end, converged or not. Some
services change their credential only when they are shown one they accept
(`NeedsPrevious`): `PreviousName` is the variable secret_vars.py hands over and
`PreviousRead` the one the playbook reads. The job and the command line differ in
shield, cancellation and verdict as they do in the code. `Look` is the moment in
which the deployment sees that a service accepts the value; it converges when it has
looked at all. An operation that is interrupted or killed may leave its playbook
behind (`Leave`): `stray` is what it has still to set, with the previous value it was
given, `left` (history) all that such playbooks had with them. `StrayApplies` acts
beside the restoration, the second deployment and later operations.

Only one service of the repository, Wazuh, reads a previous value, and under another
name than the one it is given (see the observations), so the run has the names as
they are; the theorems hold for any naming, matching ones included.

### StaggeredStart

`runner["unit"]` is the runner in the systemd unit, `runner["hand"]` one started by
the recovery playbook, by homelab-compose.service or by an operator; `seen` says
whether its command line is one the launcher recognises. A lock is the number of
the inode at its path, so that a deleted lock file excludes nobody. The launch script
is taken command by command (`Launch`, `StopUnit`, `KillStrays`, `Reset`,
`StartUnit`): a start by hand may begin between any two of them (`late`: after the
kill and before the deletion). Health waits have no upper limit in the model, because
`wait_for_wave` looks at its deadline only between commands that have none. One
launcher works at a time; `Look` reads process, unit and ages in one step; what a
killed start's `docker compose` child still does is not followed. Time advances
with the polls of the waiter. `count` is wave_failures, which a retrying plugin
(`RetryHook`, komodo-core) may lower again and a recording one (`RecordHook`,
caddy) raises.

### Watchdog

A run loads the state file when it is constructed, works on its copy and writes it
back where the code does. Ages are relative to the present, up to `MaxAge`, which
stands for no entry. `Healers` are the runs of `watchdog heal`: the timer's, of which
systemd has one at a time, and one by hand, which may overlap it, or be a dry run or
`watchdog notify`, which only tell. `Write` is _save_restart_state: it succeeds, or
its error is swallowed and the run goes on with a file that knows nothing of it.
`Tear` is two runs that save at once through the same temporary file and leave a file
that loads as nothing. The webhook job has a copy too but never gets to a save, since
it holds the boundary it asks for.

`slips` counts what the file may not know of (a killed run, a failed save; a torn
file counts for a whole budget), `overlaps` the runs started beside another. `ran`
and `told` hold the last recovery and the last alerts together with what is known
of their stamps: `ran.known` that the stamp was saved by a run that was alone, and
`told[s].by` who remembers the alert. They are history variables.

## 3. Runs

| Run | Shows | Bounds |
|---|---|---|
| job_worker | the store's safety properties and the refinement of JobLifecycle under real workers; attempts, replays, retries, success; every job settles | 1 job, 2 controllers with one worker id, 2 faults, 3 generations, lease 2, delay 1 |
| lease_safe | one named owner, aimed cancellations, the refinement of DeployBoundary | 3 operations, 2 cancellers |
| job_events | fenced log, verdicts, followers | 1 job, 2 attempts, 4 lines, pages of 2, 1 reconnection |
| release_update | recovery, flagging, rollback | 2 roles, 3 releases, 2 kills, playbooks left behind |
| bootstrap | credentials; publication, and what becomes of it | 2 capabilities, 2 requests, 1 crash, lifetime 1, delay 1, 1 wrong secret, 2 saves or keys by others where at most one capability is issued (`Bounds`) |
| job_admission | limits, approvals, deliveries | 4 rows, 2 principals and the webhook's, 1 plan with two contents, 1 approval, 2 deliveries, heal limit 2, lifetime 1, delay 1 |
| watchdog | restart budget, recovery and alert cooldowns | runs by timer and hand and the webhook job, 1 container, 1 restart, cooldowns 2, 2 kills, failed saves or torn files, 1 overlap |
| deployment | credentials, steps, success, ledger | 2 nodes, 1 service that comes and goes twice, 2 hook verifications, 1 fault of any kind |
| secret_rotation | verdicts, losses, way back | 2 secrets, one changed with its previous value, values 0..2, 3 faults of each kind |
| staggered | earned success, sole start, success not taken for death | 2 waves, one with a retrying plugin, 2 launches, 4 polls, 2 faults |

Why these bounds are enough to be interesting: a lease of two ticks and a delay of
one let a caller decide on either side of an expiry; two controllers with two
faults give a crash and a takeover while the orphan is still alive, and a failure
of the successor; `MaxGeneration` is `MaxFaults + 1`, so that it never hides a
retry (`RetriesNeedFaults` would be violated before the bound is reached). One
faulty history longer than that is what the theorems are for: CancelWins,
LeaseMatchesState, NoLiveLeaseIsTaken, LifecycleSpec, AttemptsAreDistinct and
EffectsInOrder are proved for any number of jobs, processes, generations and
faults, and WorkerUsesStore carries what is proved of the store to the workers.
Three operations and two cancellers give a canceller that is two owners late; pages
of two with four lines give full, partial and empty last pages; three releases give
an update on top of one that was never verified; two requests give both a race and
an initialization after a crash. Four rows give a full slot, a repeated key and a
delivery that does not fit; one service removed and added again between two nodes
gives every combination of artifacts, ledger and half-deployed fleet that pruning
could be wrong about; three values and three faults give a failed rotation, a
failed way back and another rotation on top of both; two launches give a lock file
deleted under a live runner; two saves give an editor before, during and after an
initialization; a budget of one restart with an overlap gives two runs that load the
same file, restart the same container and overwrite each other, with a kill or a
failed save on top. The watchdog's run has one container and one text of its status
line; two containers, one depending on the other, and two overlaps were each checked
once in a run of their own. Symmetry is used for model values that are
interchangeable, and only in runs without liveness properties.

Deadlock is checked in job_worker, job_events, release_update, bootstrap and
watchdog. The others may come to rest: every operation and canceller acts once,
rows, launches and values are bounded, and a system with nothing left to do is
idle.

Two runs expect a violation. Each states what a document or a comment of the
repository says and shows a behaviour of the code that differs:

| Run | Statement | What happens |
|---|---|---|
| stray_tools | the file lock "is the sole authority for whether an operation currently owns the deployment boundary" | a job that is cancelled, or provisioning that times out, gives the boundary back while its playbook or OpenTofu goes on |
| webhook_heal | "Grafana alert webhook for auto-heal"; deferral means backoff or an exhausted budget | the webhook job defers to the lease it holds itself, always |

### Observations

Met while modelling, visible in the models or at the lines named, and not asserted
by a run:

* A cancellation written for the owner can vanish: a delayed canceller replaces
  the one marker with an id of a predecessor, or a predecessor's release unlinks it
  by name (operation_lease.py:208, 236). acquire can be refused by the probe of an
  inspection (110). When fsync fails, the record goes on naming an operation whose
  acquire never returned.
* ansible-playbook outlives whoever started it, unless its time limit ends it or its
  task is cancelled (ansible_runner.py:240, 269-280). So a playbook of an older
  attempt may change machines after the replay has, also after the replay succeeded;
  a playbook of a failed rotation may move a service back to the rotated value after
  "previous credentials restored"; one of a failed update may move a role off the
  release that was restored. The properties name this exception; none of them holds
  without it, and the run stray_tools shows the cause.
* The event stream may end without the last events: page and state are two
  requests (controller_sse.py:40).
* An update killed between activation and verification leaves a release active
  that the next failed update falls back to as "verified" (operations.py:1073).
* Bootstrap may answer "failed before state was committed" although the
  installation is ready (bootstrap_api.py:528).
* After the first save of settings or secrets bootstrap_phase is recovery_required
  for good: the manifest keeps the digests of the first files
  (bootstrap_api.py:164-168). SuccessIsKept therefore does not say that the
  installation stays ready. An age key made by ensure_sops_ready between the phase
  check and _remove_orphaned_bootstrap_material (bootstrap_api.py:401-411) is
  deleted, with what was encrypted for it.
* `deploy lock --cancel` during `secrets rotate --apply` cancels the deployment
  that restores the old credentials as well: only the interrupted path and the job
  shield it (secrets_cmd.py:248, 260). VerdictIsTrue and LossIsReported still hold.
* Wazuh is handed `wazuh_api_password_previous` (secret_vars.py:44) and reads
  `wazuh_api_previous_password` (manager.yml:83); in the model its rotation never
  converges and is rolled back.
* `apply_rightsize_proposals` (rightsize.py:561) holds the boundary and starts a
  deployment that asks for it again, which is refused as busy.
* HOMELAB_FORCE_COMPOSE is rendered as "True" and compared with "1": there is no
  forced launch. SIGTERM and SIGKILL do not reach `except BaseException`
  (staggered_compose.py:1072-1076), so the marker stays at running; with
  --remain-after-exit the unit may stay active and the next launch attaches to it.
* A failure counted for one wave may be taken off by the plugin of another
  (komodo-core/plugin.py:34): OkIsEarned bounds how much this can hide.
* The preflight step is left at "running" when the dump or the generation fails
  (StepsAreSettled names the exception), and the node steps are when no guest playbook
  is found (1002-1004, 1106-1114). The last checkpoint stands after the
  ledger was written, so a deployment can be reported as cancelled that was
  committed. run_recover_workflow releases a lease it borrowed when its preflight
  fails (deploy_recovery.py:128).
* Between the launcher's kill and its deletion of the lock file a start it would have
  recognised may take the lock, and then works beside the new one
  (deploy-server-toolkit.yml:324-329). The waiter gives up on a start that is silent
  for STALE_LOG_SECONDS, be it that a pull takes that long, that `docker compose ps`
  hangs in a health wait (staggered_compose.py:453-467 looks at the deadline in
  between only), or that the launch attached to a start by hand, which does not write
  the log.
* The docstring of `_issue_key` (models.py:105-106) says that the key of an alert is
  hashed from the "message template (not message text — dynamic suffixes …
  would otherwise defeat dedup)". The code hashes the message (110), which holds
  Docker's status line ("Container exited: {status}", watchdog/__init__.py:753, 780):
  when the line changes, a container that stays in the same state is paged about again
  within the cooldown. AlertsAreSpaced is about the same message.
* A restart that times out is not counted (watchdog/__init__.py:1787). Overlapping
  runs overwrite each other's state file, a save that fails goes unnoticed (297-298),
  and two saves at once share one temporary file (295).

## 4. Fairness

`EveryJobSettles` assumes weak fairness of the worker thread of each process
(`run_forever` loops and swallows errors), of its heartbeat (a timed loop), of the
exit of a stopping process, of the start of some controller (the container's
restart policy) and of time. Nothing is assumed of the child: a handler may hang,
and the deadline in the poll loop is part of the worker. Faults are bounded, so
that from some point on there are none; with faults for ever no retry scheme
settles. `FollowersFinish` assumes that a follower keeps polling (its loop sleeps
one second) and nothing of the controllers; a browser that has lost its connection
reconnects by a timer.

The other modules state safety only: a deployment, a start or a rotation waits for
tools and services that nothing obliges to answer.

## 5. Theorems

All theorems hold for every value of the constants that satisfies the named
assumptions of the modules. `StoreAssumption`, `WorkerAssumption`,
`LeaseAssumption`, `EventsAssumption`, `ReleaseAssumption`, `DeploymentAssumption`,
`SecretRotationAssumption`, `BootstrapAssumption`, `AdmissionAssumption`,
`WatchdogAssumption` and `StaggeredAssumption` say that sentinels are not members
of the sets they extend, that node steps have names of their own
(`StepIdsAssumption`), that bounds are natural numbers, that there are finitely
many nodes and at least one, that there is some status text (`Texts`), and that a
webhook delivery holds heal requests only. Two say more about the program:

* `DelayAssumption` (JobWorker): a transaction waits for the write lock for less
  time than a lease lasts. SQLite gives up after 10 seconds (`timeout=10` of the
  connection), a lease lasts 30. Only `RetriesArePaid` uses it; without it a
  renewal in good time could be granted no time at all.
* `DeliveryAssumption` (JobAdmission): deliveries are finite, their principal
  (`webhook:grafana`) submits no other kind of request, and the keys of two
  deliveries differ, because a key contains a digest of the whole delivery
  (webhooks_api.py:152-166). Only `DeliveriesAreWhole` uses the last two: with a key shared
  between deliveries, one would be taken for a repetition of part of the other.

By module:

* **JobProofs**, the store. `TypeCorrect`: TypeOK is inductive. `StoreSafe`: CancelWins
  needs LeaseMatchesState and TypeOK to be inductive (a claim takes only QUEUED or
  expired RUNNING rows, and neither carries a cancellation). `LiveLeaseKept`:
  a claim takes a row that is QUEUED, hence without a lease, or expired for its
  own clock reading, hence expired now, because readings are only ever old.
  `StoreImplementsLifecycle`: step by step, with PhaseTable for the mapping.
  `LeaseColumnsMatch` is the other half of StoreSafe.
  The event log: `EventInv` says that generations in a log ascend up to the
  current one (Ordered), that a log is closed by the verdict exactly when the job
  is terminal (Closed), and that what a follower has shown is a prefix of the log,
  with the cursor at its end while it is connected (Placed). `LogKinds` sorts the
  store's transactions by what they append: nothing, a line of the current
  generation, the verdict. `LogsAreFenced`, `VerdictsAreLogged` and `ShowsInOrder`
  follow. ShownInOrder alone is not inductive: a page is shown from the cursor on.
* **JobProofs**, the workers. The inductive invariant `WInv` adds to the types that a
  thread past its claim has a context (ContextPresent), that contexts and children
  belong to generations already handed out (AttemptIssued), and BoundaryInv: at
  most one child holds the boundary, only holders work, and an attempt that works
  is at least as new as the last effect on its job. The last part is what orders replays: a
  child checks its lease *after* it has taken the boundary, and generations only
  grow. Playbooks left behind are outside that order, which is why EffectsInOrder names
  them. From it follow `AttemptsNeverShared` and `ReplaysInOrder`.
  `SuccessesAreFinal`: `QuietInv` adds that neither an attempt whose handler has
  returned nor an older one of its job is changing the deployment, from the return
  until the verdict is recorded: older attempts lost their lease and cannot pass
  the check under the boundary again. The verdict of a success is recorded for the
  newest attempt (`SuccessRecorded`), so nobody is left. `StrayInv` adds the
  playbooks: as long as there was no fault, only attempts that were cut short have
  left one, none on its way to a success and none of a successful job.
  `RetriesArePaid`: `Paid` counts attempts against faults. A job that runs has a
  fault to spare for its next attempt, or is `Tended`: its process is up, holds
  the live lease of the newest generation and, while the child runs, has a
  heartbeat. Processes that were told to stop and will still claim once more are
  counted with the attempts (LastClaims); `Asleep` says that a process without a
  context has no heartbeat and no lost lease.
  `WorkersTyped` is the typing part of WInv. `WorkerUsesStore`: every worker step
  is a store step or leaves the store alone.
* **DeploymentProofs**, the boundary. `OneOwner` by the invariant that every operation
  between lock and unlock is the value of `lock` (which probers share), and that
  the record is written under it. `CancelsAreAimed`: the marker holds only ids that
  some canceller read from the record and still aims at.
  `FilesKeepThePromise`: the refinement of DeployBoundary,
  system call by system call. It needs NamesHeld: the record, and so the aim of a
  canceller, names an operation that has had the boundary, because acquire
  truncates the record of the predecessor before it writes its own, and nothing
  but fsync follows. Only WriteRecord, Checkpoint, Unlock, Die and the first ReadRecord are
  visible; the rest is invisible (`Invisible`).
* **ReleaseUpdateProofs.** `RecoveryPossible`: the statements that write
  active.json or recovery.json are reached only while recovery.json is absent, and
  the marker is back in place before recovery.json is written (Guarded).
  `RollbackGoesBack`: revisions are numbered in the order in which releases are
  built (Numbered), the release about to be noted is new to the files and to the
  handler (Fresh), and every known release with the revision that rollback.json
  expects is newer than the one it goes back to.
  `FailuresAreFlagged`: `FlagInv` accounts for the fleet at every place of the
  handler (Accounted): which roles may be off the release that counts there, from
  none (idle without recovery.json) to those the operation pinned (while it
  restores, flags or repairs).
* **DeploymentProofs**, the workflows. The inductive invariant `DeployInv` has four parts. Shape:
  the place of the workflow, its targets and what is left to reach fit together.
  StrayInv: while no playbook was abandoned, no stray tool carries artifacts.
  Achieved: past the generation the artifacts are the catalog's (a deployment), and
  past the playbook every target runs the artifacts. CredentialsOutliveServices
  itself. Pruning is safe because it is reached only past the playbook of a full
  deployment (`PruneStep`): every node then runs the catalog's services, whose
  credentials are kept. `LedgerFollowsFleet` and `SuccessMeansConverged` follow from
  Achieved at the steps that write the ledger and report success.
  `ReportsAreSettled`: which steps a report leaves running depends on the phase the
  workflow ends in, so `SettleInv` says for every phase which steps may be running
  (MayRun): the phase's own, the targets during the node phases, and the one an
  earlier phase left for it to finish (Leftover): preflight until the artifacts
  are checked again, infra until OpenTofu has returned. A deployment that finds no
  guest playbook is the other exception (Unplayed): all node steps, and nothing
  else, are left running.
* **SecretRotationProofs.** `RotationInv`: what playbooks that were left behind may
  still set is on record (StrayOK); while nobody edits the file it holds the
  rotated values up to the restoration and the old ones after it (Memory), each
  service holds an old or a rotated value, or agrees with the file before any was
  drawn (Known), and a service the deployment has looked at holds the file's value
  (Looked). Known and Looked except the services that a playbook left behind has a
  value for (Astray). `WayBackExists`, `VerdictsAreTrue` and `LossesAreReported` are
  read off it.
  Nothing is assumed of the names of the variables, so the theorems also cover the
  service whose playbook reads another name: its rotation fails, and is reported.
* **JobAdmissionProofs.** The inductive invariant is the types of the tables with
  `DestroyIsApproved` and `ApprovalIsUsedOnce` together: an approval is checked
  unused and marked used in the transaction that inserts the row, so the row that
  holds a token already shows it spent, and a second submission is refused. Single
  use is not inductive without that. `DestroysAreApproved` and
  `ApprovalsAreSingleUse` are the two parts; the remaining life of an approval plays no role in them.
  `LimitsHold`: a row that becomes active is inserted by a transaction that counted
  the active rows, and rows never become active again (ActiveSteps); the cardinalities
  are bounded with the library's theorems on finite sets. `DeliveriesAreWhole`: the
  rows of a delivery are inserted together and rows are never removed (BatchRows).
* **BootstrapProofs.** `CredentialIsSole` is about two counts; `SoleInv` says of any
  two credentials that are not past their time that they are one. Issue revokes by
  a reading that is older than now and so revokes more, never less; Exchange may
  accept a capability that has expired meanwhile, but bounds the session by what
  is left of it. `PublishingIsClear` and `SuccessStays` by `Published`, which says
  whose files are on disk at each place of initialize_bootstrap (Stands), and
  `LockInv`: the request at such a place holds the lock. The other writers of the
  files do not take it; Inherited says what they can make of a file that an
  initialization has put in place. A crash in the middle of a removal is harmless
  because no manifest existed then.
* **WatchdogProofs.** The properties compare what really happened with what the
  state file says of it, across runs that overlap, are killed, or lose a save
  without noticing. Counting bounds, for every service, the restarts that a copy
  of the state misses (CopyCounts): no more than there were slips and overlaps,
  counting what the other run still does as done. The file may in addition miss
  the one restart of a run that has yet to save (FileCounts). That is enough
  because a run restarts a service at most once, so that writing its copy over the
  other run's loses at most one (`BudgetHolds`). Stamping and Alerting are about
  what was saved by a run that was alone: its stamp, and its alerts, are in the file
  and in every copy made since (`RecoveriesKeepApart`, `AlertsKeepApart`). Places keeps
  the webhook job out of all this: it never passes the gate that asks for the
  boundary it holds itself, and so never writes the file.
* **StaggeredStartProofs.** `SuccessIsEarned` counts: `Fit` bounds the failed waves
  of a runner by the failures it has counted and those that plugins of the waves
  behind it may have taken off (Counted; cardinalities with the library's theorems),
  and the count by what the waves so far can have added. When the count is zero at
  the end, at most one failure for each retrying plugin is hidden; Earned carries that
  from the marker to the answer. `LocksAreSole`: Alone says which inode each runner
  has locked, at each line of the launch script. The unit's is the one now at the
  path; so is that of a start by hand that the launcher recognises, since it is
  killed before the file is deleted, unless it began too late for that; an older
  inode belongs to one that it does not recognise or that was late. StartsAreAlone
  itself is not inductive: it says nothing of a runner that is alone now and meets
  another later. `UnitOutlivesSuccess`: the unit of a start that succeeded stays as
  long as it is waited for (Stands), so a waiter that looked at the marker just
  before the success still finds the unit and does not call the start dead.

Each invariant was model-checked before it was proved.

Every invariant and every safety property that a passing run checks is stated by a
theorem. Only model-checked is what is outside the prover's reach: the liveness
properties (`EveryJobSettles`, `FollowersFinish`: fairness and ENABLED). Nothing
here rests on RECURSIVE operators.

## 6. Not modelled

The repository has about 86 000 lines; the map covers the parts that decide
something over time. Most of the rest has no state of its own between two calls
and nothing for a model checker to interleave: validation and rendering of
manifests and configuration (pure functions over large records), plugins that call
one service's API after the other, drivers for Proxmox, OpenTofu, DNS, registries
and LDAP, report builders, HTML routes, argument parsing. Modelling it would
transliterate it, so the share of lines the map covers stays small, and the choice
of modules is by hazard, not by size.

Left out of modelled components, and why:

* Local deployment with Docker (deploy_workflow.py:1088-1104), the dry run, wipe and
  infrastructure destruction: sequences of commands without decisions over time.
* `watchdog daemon` (watchdog_cmd.py:300-345), which keeps one copy of the state over
  many checks; more than one run by hand beside the timer's; two launchers of the
  staggered start at once.
* Structured heals by plugins, disk pruning and the system checks of the watchdog.
* An orphaned *update* child beside the replay of its job: the update handler
  writes the release files outside the boundary, and `ReleaseUpdate` has one handler.
* The approval queue (each mutation is atomic under one file lock), the audit
  table, the static job page.
* Anything done by Docker, Ansible, OpenTofu, LDAP, Redis and the services, beyond
  reaching a node or not, converging or not.

## 7. Plan

1. JobWorker and Deployment with an instance of DeployBoundary in place of their
   own variables for the owner.
2. ReleaseUpdate with an orphaned handler and a replay, composed with the attempts
   of JobWorker.
3. Structured heals and the approval queue, once they share state with jobs.

## 8. Running

    tlc -workers 2 -config MCDeployment.cfg MCDeployment
    tlapm DeploymentProofs.tla
