--------------------------- MODULE StaggeredStart ---------------------------
(***************************************************************************)
(* Staggered start of the containers of one node.  Three parties meet on   *)
(* the node: the launcher, a script in deploy-server-toolkit.yml, which    *)
(* stops what runs, deletes the lock file and puts a detached runner into  *)
(* a systemd unit; the runner, `deploy up'                                 *)
(* (toolkit/core/deploy/staggered_compose.py), which brings the waves up   *)
(* one after the other; and the waiter on the controller                   *)
(* (toolkit/core/deploy/compose_wait.py), which polls over SSH.            *)
(*                                                                         *)
(* All they share is a status marker, the ages of marker and log, the      *)
(* state of the unit, and a lock file, which the launcher deletes.  The    *)
(* recovery playbook, homelab-compose.service or an operator may run       *)
(* `deploy up' outside the unit ("hand"), also while the launcher is at    *)
(* work; runners are killed, the node reboots, SSH fails, and a deployment *)
(* may give up launcher and waiter.  There is one launcher at a time.      *)
(***************************************************************************)
EXTENDS Integers, FiniteSets

CONSTANTS
    NWaves,        \* number of startup waves of the node
    Retrying,      \* waves whose plugin retries and then resolves a failure
    WaveTimeout,   \* wave_timeout_s, in polling intervals
    StaleLog,      \* STALE_LOG_SECONDS, in polling intervals
    MaxHookFailures, \* failures one plugin may count for its wave
    MaxPolls,      \* max_polls
    MaxLaunches,   \* bound on lock files, one for each launch
    MaxFaults      \* bound on kills, reboots, failing commands and SSH outages

ASSUME StaggeredAssumption ==
    /\ NWaves \in Nat \ {0} /\ Retrying \subseteq 1 .. NWaves
    /\ WaveTimeout \in Nat /\ StaleLog \in Nat
    /\ MaxHookFailures \in Nat \ {0}
    /\ MaxPolls \in Nat /\ MaxLaunches \in Nat /\ MaxFaults \in Nat

VARIABLES
    marker,    \* .compose-up.<node>.status
    age,       \* intervals since it was written
    quiet,     \* intervals since the unit's runner wrote to its log
    unit,      \* the systemd unit: "off", "on" (running or exited cleanly), "failed"
    lockFile,  \* number of the inode now at the path of the lock file
    launcher,  \* the step of the launch script that is next
    runner,    \* the runner in the unit and one started in another way
    waiter,    \* wait_for_compose_status
    answer,    \* what it returned, and why
    earned,    \* the run that wrote "ok" since the launch, and whether its unit stands
    faults

staggeredVars == <<marker, age, quiet, unit, lockFile, launcher, runner, waiter, answer, earned,
                   faults>>

-----------------------------------------------------------------------------
Runners == {"unit", "hand"}
Waves == 1 .. NWaves
Off == [pc |-> "off", inode |-> 0, wave |-> 0, count |-> 0, bad |-> {}, waited |-> 0, seen |-> FALSE,
        late |-> FALSE]
Unearned == [tried |-> 0, bad |-> {}, unit |-> FALSE]
NotWaiting == [on |-> FALSE, hits |-> 0, polls |-> 0, checking |-> FALSE]

Alive(r) == runner[r].pc # "off"
Locked(r) == runner[r].pc \notin {"off", "lock"}

Fault == faults < MaxFaults /\ faults' = faults + 1
\* Intervals past the thresholds all count alike.
Older(n) == IF n > StaleLog THEN n ELSE n + 1

\* Only the unit's output is appended to the log.
Log(r) == quiet' = IF r = "unit" THEN 0 ELSE quiet
Write(status) == marker' = status /\ age' = 0

\* (mutant) without --remain-after-exit.
ExitForgotten(r, clean) ==
    /\ runner' = [runner EXCEPT ![r] = Off]
    /\ unit' = IF r = "unit" THEN (IF clean THEN "off" ELSE "failed") ELSE unit

\* The process of r is gone.  The unit remains active after a clean exit
\* (--remain-after-exit), and systemd takes SIGTERM for one.
Exit(r, clean) ==
    /\ runner' = [runner EXCEPT ![r] = Off]
    /\ unit' = IF r = "unit" /\ ~clean THEN "failed" ELSE unit

\* BaseException in run: the marker says failed, the lock is released.
Raise(r) == Write("failed") /\ Exit(r, FALSE) /\ UNCHANGED earned

Init ==
    /\ marker = "none" /\ age = 0 /\ quiet = 0 /\ unit = "off" /\ lockFile = 0
    /\ launcher = "idle"
    /\ runner = [r \in Runners |-> Off]
    /\ waiter = NotWaiting /\ answer = "none" /\ earned = Unearned /\ faults = 0

-----------------------------------------------------------------------------
(* The launcher.                                                           *)

\* HOMELAB_FORCE_COMPOSE is rendered as "True", never as "1": there is no
\* forced launch.
AlreadyRunning ==
    marker = "running" /\ (unit = "on" \/ (Alive("hand") /\ runner["hand"].seen))

\* The waiter task follows the launch task.
Wait == waiter' = [NotWaiting EXCEPT !.on = TRUE]

\* The launch script looks whether a start is running: it waits for that one,
\* or goes on to replace it.
Launch ==
    /\ launcher = "idle" /\ ~waiter.on
    /\ \/ AlreadyRunning /\ Wait /\ earned' = Unearned /\ UNCHANGED launcher
       \/ /\ ~AlreadyRunning /\ lockFile < MaxLaunches
          /\ launcher' = "stop" /\ UNCHANGED <<waiter, earned>>
    /\ answer' = "none"
    /\ UNCHANGED <<marker, age, quiet, unit, lockFile, runner, faults>>

\* systemctl stop.
StopUnit ==
    /\ launcher = "stop" /\ launcher' = "kill"
    /\ runner' = [runner EXCEPT !["unit"] = Off]
    /\ unit' = IF unit = "failed" THEN unit ELSE "off"
    /\ UNCHANGED <<marker, age, quiet, lockFile, waiter, answer, earned, faults>>

\* pgrep, and kill for every process with the unit's command line.
KillStrays ==
    /\ launcher = "kill" /\ launcher' = "reset"
    /\ runner' = [runner EXCEPT !["hand"] = IF runner["hand"].seen THEN Off ELSE @]
    /\ UNCHANGED <<marker, age, quiet, unit, lockFile, waiter, answer, earned, faults>>

\* (mutant) the marker of the previous start is left in place.
ResetKeeping ==
    /\ launcher = "reset" /\ launcher' = "start"
    /\ marker' = IF marker = "none" THEN "running" ELSE marker
    /\ quiet' = 0 /\ lockFile' = lockFile + 1 /\ earned' = Unearned
    /\ UNCHANGED <<age, unit, runner, waiter, answer, faults>>

\* rm of marker and lock file, truncation of the log, echo running.
Reset ==
    /\ launcher = "reset" /\ launcher' = "start"
    /\ Write("running") /\ quiet' = 0 /\ lockFile' = lockFile + 1 /\ earned' = Unearned
    /\ UNCHANGED <<unit, runner, waiter, answer, faults>>

\* systemctl reset-failed and systemd-run.
StartUnit ==
    /\ launcher = "start" /\ launcher' = "idle"
    /\ unit' = "on" /\ runner' = [runner EXCEPT !["unit"] = [Off EXCEPT !.pc = "lock"]]
    /\ Wait
    /\ UNCHANGED <<marker, age, quiet, lockFile, answer, earned, faults>>

\* `deploy up --node' by the recovery playbook, homelab-compose.service or an
\* operator.  The launcher recognises only the command line it uses itself, as
\* the first two do, and only when it looks: late is a start that begins after
\* that and before the lock file is deleted.
StartByHand(seen) ==
    /\ ~Alive("hand")
    /\ runner' = [runner EXCEPT !["hand"] = [Off EXCEPT !.pc = "lock", !.seen = seen,
                                                        !.late = launcher = "reset"]]
    /\ UNCHANGED <<marker, age, quiet, unit, lockFile, launcher, waiter, answer, earned, faults>>

-----------------------------------------------------------------------------
(* The runner.                                                             *)

\* (mutant) a lock somebody else holds is taken for granted.
AcquireAnyway(r) ==
    /\ runner[r].pc = "lock"
    /\ runner' = [runner EXCEPT ![r].pc = "prepare", ![r].inode = lockFile]
    /\ Write("running") /\ Log(r)
    /\ UNCHANGED <<unit, lockFile, launcher, waiter, answer, earned, faults>>

\* _acquire_lock: the loser leaves the marker alone.
Acquire(r) ==
    /\ runner[r].pc = "lock"
    /\ \/ /\ \A s \in Runners : ~(Locked(s) /\ runner[s].inode = lockFile)
          /\ runner' = [runner EXCEPT ![r].pc = "prepare", ![r].inode = lockFile]
          /\ Write("running") /\ UNCHANGED unit
       \/ /\ \E s \in Runners : Locked(s) /\ runner[s].inode = lockFile
          /\ Exit(r, FALSE) /\ UNCHANGED <<marker, age>>
    /\ Log(r)
    /\ UNCHANGED <<lockFile, launcher, waiter, answer, earned, faults>>

\* Load gate, prune, artifacts, networks, plugins and the plan of the waves
\* may raise; an unreachable remote dependency is counted.
Prepare(r) ==
    /\ runner[r].pc = "prepare"
    /\ \/ Raise(r) /\ Fault
       \/ /\ runner' = [runner EXCEPT ![r].pc = "wave", ![r].wave = 1]
          /\ UNCHANGED <<marker, age, unit, earned, faults>>
       \/ /\ runner' = [runner EXCEPT ![r].pc = "wave", ![r].wave = 1, ![r].count = 1]
          /\ Fault /\ UNCHANGED <<marker, age, unit, earned>>
    /\ Log(r)
    /\ UNCHANGED <<lockFile, launcher, waiter, answer>>

\* The next wave; left out if the plugin leaves nothing of it to start, or in
\* recovery mode if it is healthy and unchanged; _before_wave may raise.
NextWave(r) ==
    /\ runner[r].pc = "wave" /\ runner[r].wave <= NWaves
    /\ \/ /\ runner' = [runner EXCEPT ![r].pc = "pull"]
          /\ UNCHANGED <<marker, age, unit, earned, faults>>
       \/ /\ runner' = [runner EXCEPT ![r].wave = @ + 1]
          /\ UNCHANGED <<marker, age, unit, earned, faults>>
       \/ Raise(r) /\ Fault
    /\ Log(r)
    /\ UNCHANGED <<lockFile, launcher, waiter, answer>>

\* up_wave gave up on pulling or starting: no health wait, no hook.
UpFails(r) ==
    runner' = [runner EXCEPT ![r].pc = "wave", ![r].wave = @ + 1,
                             ![r].count = @ + 1, ![r].bad = @ \cup {runner[r].wave}]

\* up_wave: the pull says nothing while it lasts, however long that is.
Up(r) ==
    /\ runner[r].pc = "pull"
    /\ \/ runner' = [runner EXCEPT ![r].pc = "health"] /\ UNCHANGED faults
       \/ UpFails(r) /\ Fault
    /\ Log(r)
    /\ UNCHANGED <<marker, age, unit, lockFile, launcher, waiter, answer, earned>>

\* wait_for_wave: nothing is logged until the wave is healthy or, between two
\* rounds of `docker compose ps', wave_timeout_s have passed.  A round may take
\* any time.
Health(r) ==
    /\ runner[r].pc = "health"
    /\ \/ runner' = [runner EXCEPT ![r].pc = "hook", ![r].waited = 0]
       \/ /\ runner[r].waited = WaveTimeout
          /\ runner' = [runner EXCEPT ![r].pc = "hook", ![r].waited = 0, ![r].count = @ + 1,
                                      ![r].bad = @ \cup {runner[r].wave}]
    /\ Log(r)
    /\ UNCHANGED <<marker, age, unit, lockFile, launcher, waiter, answer, earned, faults>>

\* after_runtime_start of the wave's plugin is over; the next wave follows.
Hooked(r, count, bad) ==
    /\ runner[r].pc = "hook"
    /\ runner' = [runner EXCEPT ![r].pc = "wave", ![r].wave = @ + 1,
                                ![r].count = count, ![r].bad = bad]
    /\ Log(r)
    /\ UNCHANGED <<marker, age, unit, lockFile, launcher, waiter, answer, earned>>

\* No plugin, or nothing for it to do.
NoHook(r) == Hooked(r, runner[r].count, runner[r].bad) /\ UNCHANGED faults

\* A retrying plugin (komodo-core) finds its services unhealthy, whether or not
\* that was counted: its retry fails, which it only mentions, or it helps, and
\* one failure is taken off the count, whoever added it.
RetryHook(r) ==
    /\ runner[r].wave \in Retrying /\ Fault
    /\ \/ Hooked(r, runner[r].count, runner[r].bad \cup {runner[r].wave})
       \/ Hooked(r, IF runner[r].count > 0 THEN runner[r].count - 1 ELSE 0,
                 runner[r].bad \ {runner[r].wave})

\* Other plugins (caddy) count up to MaxHookFailures of their own.
RecordHook(r) ==
    /\ runner[r].wave \notin Retrying /\ Fault
    /\ \E k \in 1 .. MaxHookFailures :
          Hooked(r, runner[r].count + k, runner[r].bad \cup {runner[r].wave})

\* The end of run.
Finish(r) ==
    /\ runner[r].pc = "wave" /\ runner[r].wave = NWaves + 1
    /\ Write(IF runner[r].count > 0 THEN "failed" ELSE "ok")
    /\ Exit(r, runner[r].count = 0)
    /\ earned' = IF runner[r].count > 0 THEN earned
                 ELSE [tried |-> NWaves, bad |-> runner[r].bad, unit |-> r = "unit"]
    /\ Log(r)
    /\ UNCHANGED <<lockFile, launcher, waiter, answer, faults>>

\* SIGTERM or SIGKILL: Python has no handler for either, so the marker stays.
Killed(r, clean) ==
    /\ Alive(r) /\ Fault
    /\ Exit(r, clean)
    /\ UNCHANGED <<marker, age, quiet, lockFile, launcher, waiter, answer, earned>>

\* The node reboots: a transient unit is gone, the files stay.
Reboot ==
    /\ launcher # "idle" \/ \E r \in Runners : Alive(r)
    /\ Fault
    /\ runner' = [r \in Runners |-> Off] /\ unit' = "off" /\ launcher' = "idle"
    /\ earned' = [earned EXCEPT !.unit = FALSE]
    /\ UNCHANGED <<marker, age, quiet, lockFile, waiter, answer>>

-----------------------------------------------------------------------------
(* The waiter.                                                             *)

Answer(why) == waiter' = NotWaiting /\ answer' = why
Again(hits) ==
    IF waiter.polls = MaxPolls THEN Answer("timeout")
    ELSE waiter' = [on |-> TRUE, hits |-> hits, polls |-> waiter.polls + 1, checking |-> FALSE]
         /\ UNCHANGED answer

\* An interval passes.
Passes ==
    /\ age' = Older(age) /\ quiet' = Older(quiet)
    /\ runner' = [r \in Runners |->
          [runner[r] EXCEPT !.waited = IF runner[r].pc = "health" /\ @ < WaveTimeout THEN @ + 1 ELSE @]]

\* The marker is read; unreadable or missing counts as pending.  Every second
\* "running" in a row is looked into.
Poll ==
    /\ waiter.on /\ ~waiter.checking
    /\ \/ marker = "ok" /\ Answer("ok") /\ UNCHANGED <<age, quiet, runner, faults>>
       \/ marker = "failed" /\ Answer("failed") /\ UNCHANGED <<age, quiet, runner, faults>>
       \/ /\ marker = "running" /\ waiter.hits = 0
          /\ Passes /\ Again(1) /\ UNCHANGED faults
       \/ /\ marker = "running" /\ waiter.hits = 1
          /\ waiter' = [waiter EXCEPT !.checking = TRUE]
          /\ UNCHANGED <<age, quiet, runner, answer, faults>>
       \/ Fault /\ Passes /\ Again(0)
    /\ UNCHANGED <<marker, unit, lockFile, launcher, earned>>

\* Process, unit and ages; what SSH cannot read is taken for good.
Look ==
    /\ waiter.on /\ waiter.checking
    /\ \/ /\ ~(Alive("unit") \/ Alive("hand") \/ unit = "on")
          /\ Answer("dead") /\ UNCHANGED <<age, quiet, runner, faults>>
       \/ /\ Alive("unit") \/ Alive("hand") \/ unit = "on"
          /\ \/ /\ age > StaleLog /\ quiet > StaleLog
                /\ Answer("stale") /\ UNCHANGED <<age, quiet, runner>>
             \/ ~(age > StaleLog /\ quiet > StaleLog) /\ Passes /\ Again(0)
          /\ UNCHANGED faults
       \/ Fault /\ Passes /\ Again(0)
    /\ UNCHANGED <<marker, unit, lockFile, launcher, earned>>

\* The deployment is cancelled or dies, or a command of the launch script
\* fails; a start goes on.
GiveUp ==
    /\ waiter.on \/ launcher # "idle"
    /\ Fault
    /\ waiter' = NotWaiting /\ launcher' = "idle"
    /\ UNCHANGED <<marker, age, quiet, unit, lockFile, runner, answer, earned>>

Run(r) ==
    \/ Acquire(r) \/ Prepare(r) \/ NextWave(r) \/ Up(r) \/ Health(r)
    \/ NoHook(r) \/ RetryHook(r) \/ RecordHook(r) \/ Finish(r)

Next ==
    \/ Launch \/ StopUnit \/ KillStrays \/ Reset \/ StartUnit
    \/ Poll \/ Look \/ GiveUp \/ Reboot
    \/ \E seen \in BOOLEAN : StartByHand(seen)
    \/ \E r \in Runners : Run(r) \/ \E clean \in BOOLEAN : Killed(r, clean)

Spec == Init /\ [][Next]_staggeredVars

-----------------------------------------------------------------------------
\* Types: statuses, ages, and at most one count for each wave and hook.
TypeOK ==
    /\ marker \in {"none", "running", "ok", "failed"}
    /\ age \in 0 .. StaleLog + 1 /\ quiet \in 0 .. StaleLog + 1
    /\ unit \in {"off", "on", "failed"} /\ lockFile \in 0 .. MaxLaunches
    /\ launcher \in {"idle", "stop", "kill", "reset", "start"}
    /\ runner \in [Runners ->
          [pc : {"off", "lock", "prepare", "wave", "pull", "health", "hook"},
           inode : 0 .. MaxLaunches, wave : 0 .. NWaves + 1, count : 0 .. (MaxHookFailures + 1) * NWaves + 1,
           bad : SUBSET Waves, waited : 0 .. WaveTimeout, seen : BOOLEAN,
           late : BOOLEAN]]
    /\ waiter \in [on : BOOLEAN, hits : 0 .. 1, polls : 0 .. MaxPolls, checking : BOOLEAN]
    /\ answer \in {"none", "ok", "failed", "dead", "stale", "timeout"}
    /\ earned \in [tried : 0 .. NWaves, bad : SUBSET Waves, unit : BOOLEAN]
    /\ faults \in 0 .. MaxFaults

\* (With TypeOK.) compose_wait returns 0 only for a start that ended after the
\* launch, or after the launcher found it running, and that went through every
\* wave: never for the marker of an earlier start, a killed runner or a
\* rebooted node.  What such a start may hide is bounded: one failed wave for
\* each plugin that resolves failures, because resolve_failure takes one off
\* the common count, whoever added it.
OkIsEarned ==
    /\ TypeOK
    /\ answer = "ok" =>
          earned.tried = NWaves /\ Cardinality(earned.bad) <= Cardinality(Retrying)

\* A start of the unit that succeeds between the waiter's look at the marker
\* and its look at the processes is not called dead: the unit outlives its
\* process (--remain-after-exit), until the node reboots.  (A start by hand the
\* launcher attached to has no such protection.)
SuccessIsNotDeath ==
    [][answer' = "dead" /\ answer # "dead" /\ marker = "ok" => ~earned.unit]_staggeredVars

\* Deleting the lock file does not let two starts work at the same time, but
\* for one under the deleted file: a start the launcher cannot recognise,
\* having another command line, or one that began after the launcher had
\* killed what it recognised and before it deleted the file.
StartsAreAlone ==
    Locked("unit") /\ Locked("hand") =>
        /\ runner["hand"].inode < runner["unit"].inode
        /\ ~runner["hand"].seen \/ runner["hand"].late
=============================================================================
