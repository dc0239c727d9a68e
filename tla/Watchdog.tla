------------------------------ MODULE Watchdog ------------------------------
(***************************************************************************)
(* The container watchdog (toolkit/core/ops/watchdog): health scan, safe   *)
(* restarts with a budget and backoff, recovery of a whole node as a last  *)
(* resort, and alerts with a cooldown.                                     *)
(*                                                                         *)
(* Every run of `watchdog heal' is a new process: the systemd timer starts *)
(* one every five minutes (it may be killed at its time limit), somebody   *)
(* may start another by hand meanwhile, and a webhook job of the           *)
(* controller heals one service.  All that runs know of each other is      *)
(* watchdog-state.json: loaded when a run starts, rewritten as a whole     *)
(* from the copy of whoever saves, without a lock; a save that fails is    *)
(* not noticed.  Timestamps are ages here, so that memory and file grow    *)
(* old together.                                                           *)
(*                                                                         *)
(* The deployment boundary is OperationLease's; a run only asks whether it *)
(* is owned, and a webhook job owns it while it heals.                     *)
(***************************************************************************)
EXTENDS Integers, FiniteSets

CONSTANTS
    Healers,            \* runs of `watchdog heal': the timer's, one by hand
    Services,           \* the managed containers of one node
    Safe,               \* restart_policy: safe
    Deps,               \* Deps[s]: the services s depends on
    Bad,                \* container states that are issues: "unhealthy", "exited"
    Texts,              \* variable parts of Docker's status ("5 minutes ago")
    MaxRestarts,        \* max_restarts_per_service
    Backoff,            \* Backoff[c]: ticks to wait after c restarts
    TerminalThreshold,  \* exhausted services that trigger a recovery
    CriticalThreshold,  \* exited services that trigger a recovery
    RecoverCooldown,    \* ticks between two recoveries of the node
    NotifyCooldown,     \* ticks between two alerts about the same issue
    MaxAge,             \* ages stop here; restart entries this old are dropped
    MaxSlips,           \* bound on runs killed and saves failed
    MaxOverlaps         \* bound on runs started beside another

ASSUME WatchdogAssumption ==
    /\ Healers \subseteq {"timer", "hand"}
    /\ Bad \subseteq {"unhealthy", "exited"} /\ Texts # {}
    /\ Safe \subseteq Services /\ Deps \in [Services -> SUBSET Services]
    /\ MaxRestarts \in Nat \ {0} /\ MaxAge \in Nat \ {0}
    /\ MaxSlips \in Nat /\ MaxOverlaps \in Nat
    /\ Backoff \in [0 .. MaxRestarts -> 0 .. MaxAge]
    /\ RecoverCooldown \in 1 .. MaxAge /\ NotifyCooldown \in 1 .. MaxAge
    /\ TerminalThreshold \in Nat \ {0} /\ CriticalThreshold \in Nat \ {0}

VARIABLES
    health,    \* health[s]: what docker ps shows for the container
    text,      \* text[s]: the variable part of its status line
    file,      \* watchdog-state.json
    mem,       \* mem[d]: the copy run d works with
    pc,        \* pc[d]: where run d is
    report,    \* report[d]: the issues its scan found, message by service
    todo,      \* todo[d]: issues the current loop has still to look at
    spent,     \* spent[d]: issues heal marked terminal
    boundary,  \* who owns the deployment boundary
    verdict,   \* how the webhook job ended
    returned,  \* returned[s]: restarts since the counter of s was last cleared
    ran,       \* the last decision to recover the node: its age, and whether its
               \* stamp was saved while no other run was under way
    told,      \* told[s]: the last alert about s: its age, its message, and who
               \* remembers it: the run that sent it, the file, or nobody for sure
    slips,     \* restarts the file may not know of: runs killed, saves failed
    overlaps   \* runs started while another was under way

watchdogVars == <<health, text, file, mem, pc, report, todo, spent, boundary, verdict,
                  returned, ran, told, slips, overlaps>>

-----------------------------------------------------------------------------
Dogs == Healers \cup {"webhook"}
Ages == 0 .. MaxAge
NoIssue == [state |-> "healthy", text |-> CHOOSE t \in Texts : TRUE]
Messages == [state : Bad, text : Texts]
Older(a) == IF a < MaxAge THEN a + 1 ELSE MaxAge

\* What the state file holds: restart counters with the age of the last
\* restart, the age of the last alert for each issue key, the age of the last
\* recovery.  An age of MaxAge stands for no entry.
Records == [count : [Services -> 0 .. MaxRestarts], restarted : [Services -> Ages],
            paged : [Services \X Messages -> Ages], recovered : Ages]
Blank == [count |-> [s \in Services |-> 0], restarted |-> [s \in Services |-> MaxAge],
          paged |-> [k \in Services \X Messages |-> MaxAge], recovered |-> MaxAge]

\* (mutant) the counters of an earlier run are not read back.
LoadedFresh(f) == [f EXCEPT !.count = [s \in Services |-> 0]]

\* _load_restart_state drops restart entries older than a day.
Loaded(f) == [f EXCEPT !.count = [s \in Services |->
                                    IF f.restarted[s] = MaxAge THEN 0 ELSE f.count[s]]]

\* _issue_key: node, service, category and message; the message holds the
\* container's status line.
IssueKey(s, m) == <<s, m>>

Issues(d) == {s \in Services : report[d][s] # NoIssue}
Fixable(d) == Issues(d) \cap Safe

\* recover_decisions, _node_decision: the issues of the report, whatever
\* became of them since the scan.
RecoverDue(d) ==
    /\ mem[d].recovered >= RecoverCooldown
    /\ \/ Cardinality({s \in Issues(d) : s \in spent[d] \/ mem[d].count[s] >= MaxRestarts})
             >= TerminalThreshold
       \/ Cardinality({s \in Issues(d) : report[d][s].state = "exited"}) >= CriticalThreshold

Goto(d, l) == pc' = [pc EXCEPT ![d] = l]
\* The process is gone, and all it knew.
Exit(d) ==
    /\ Goto(d, "idle")
    /\ mem' = [mem EXCEPT ![d] = Blank]
    /\ report' = [report EXCEPT ![d] = [s \in Services |-> NoIssue]]
    /\ todo' = [todo EXCEPT ![d] = {}]
    /\ spent' = [spent EXCEPT ![d] = {}]

\* No other run of `watchdog heal' is under way.
Alone(d) == \A e \in Healers \ {d} : pc[e] = "idle"

\* _save_restart_state: the copy m replaces the file; an error is swallowed and
\* the file stays.
Write(m) ==
    \/ file' = m /\ UNCHANGED slips
    \/ slips < MaxSlips /\ slips' = slips + 1 /\ UNCHANGED file

Ghosts == <<returned, ran, told, slips, overlaps>>
World == <<health, text, boundary>>

-----------------------------------------------------------------------------
Init ==
    /\ health = [s \in Services |-> "healthy"]
    /\ text = [s \in Services |-> CHOOSE t \in Texts : TRUE]
    /\ file = Blank
    /\ mem = [d \in Dogs |-> Blank]
    /\ pc = [d \in Dogs |-> "idle"]
    /\ report = [d \in Dogs |-> [s \in Services |-> NoIssue]]
    /\ todo = [d \in Dogs |-> {}]
    /\ spent = [d \in Dogs |-> {}]
    /\ boundary = "free"
    /\ verdict = "none"
    /\ returned = [s \in Services |-> 0]
    /\ ran = [age |-> MaxAge, known |-> FALSE]
    /\ told = [s \in Services |-> [age |-> MaxAge, about |-> NoIssue, by |-> "lost"]]
    /\ slips = 0
    /\ overlaps = 0

\* A run starts: Watchdog(root, config) loads the state file.
Start(d) ==
    /\ pc[d] = "idle" /\ Goto(d, "check")
    /\ mem' = [mem EXCEPT ![d] = Loaded(file)]
    /\ returned' = [s \in Services |-> IF file.count[s] > 0 /\ file.restarted[s] = MaxAge
                                        THEN 0 ELSE returned[s]]
    /\ \/ Alone(d) /\ UNCHANGED overlaps
       \/ ~Alone(d) /\ overlaps < MaxOverlaps /\ overlaps' = overlaps + 1
    /\ UNCHANGED <<World, file, report, todo, spent, verdict, ran, told, slips>>

\* The webhook handler takes the boundary, then builds its own Watchdog.
WebhookStart ==
    /\ pc["webhook"] = "idle" /\ boundary = "free" /\ Goto("webhook", "check")
    /\ boundary' = "webhook"
    /\ mem' = [mem EXCEPT !["webhook"] = Loaded(file)]
    /\ UNCHANGED <<health, text, file, report, todo, spent, verdict, Ghosts>>

\* full_check, as `watchdog heal' uses it: the scan; then heal if something is
\* fixable, notify if there is anything to tell.  With --dry-run, and as
\* `watchdog notify', it only tells.
FullCheck(d) ==
    /\ pc[d] = "check"
    /\ LET bad == {s \in Services : health[s] \in Bad}
       IN  \/ bad = {} /\ Exit(d)
          \/ /\ bad # {}
             /\ report' = [report EXCEPT ![d] =
                             [s \in Services |-> IF s \in bad
                                                 THEN [state |-> health[s], text |-> text[s]]
                                                 ELSE NoIssue]]
             /\ \/ bad \cap Safe # {} /\ Goto(d, "gate")
                \/ (bad \cap Safe = {} \/ d = "hand") /\ Goto(d, "tell")
             /\ UNCHANGED <<mem, todo, spent>>
    /\ UNCHANGED <<World, file, verdict, Ghosts>>

\* The webhook handler's scan: only fixable issues of its own service s count.
WebhookCheck(s) ==
    /\ pc["webhook"] = "check" /\ s \in Safe
    /\ LET found == health[s] \in Bad
       IN  /\ report' = [report EXCEPT !["webhook"] =
                           [i \in Services |-> IF i = s /\ found
                                               THEN [state |-> health[s], text |-> text[s]]
                                               ELSE NoIssue]]
           /\ verdict' = IF found THEN "none" ELSE "skipped"
           /\ Goto("webhook", IF found THEN "gate" ELSE "release")
    /\ UNCHANGED <<World, file, mem, todo, spent, Ghosts>>

\* _heal asks once whether the boundary is owned, and defers if it is.
HealGate(d) ==
    /\ pc[d] = "gate"
    /\ \/ /\ boundary = "free"
          /\ Goto(d, "heal")
          /\ todo' = [todo EXCEPT ![d] = Fixable(d)]
          /\ UNCHANGED verdict
       \/ /\ boundary # "free"
          /\ Goto(d, IF d = "webhook" THEN "release" ELSE "tell")
          /\ verdict' = IF d = "webhook" THEN "deferred" ELSE verdict
          /\ UNCHANGED todo
    /\ UNCHANGED <<World, file, mem, report, spent, Ghosts>>

\* _heal, an issue whose restart budget is spent, or that is in backoff.
Skip(d, s) ==
    /\ pc[d] = "heal" /\ s \in todo[d]
    /\ \/ mem[d].count[s] >= MaxRestarts /\ spent' = [spent EXCEPT ![d] = @ \cup {s}]
       \/ /\ mem[d].count[s] < MaxRestarts
          /\ mem[d].restarted[s] < Backoff[mem[d].count[s]]
          /\ UNCHANGED spent
    /\ todo' = [todo EXCEPT ![d] = @ \ {s}]
    /\ UNCHANGED <<World, file, mem, pc, report, verdict, Ghosts>>

\* _heal, a restart whose command returned (with or without success): stopped
\* dependencies are started first, except by heal_targeted; the counter is in memory, not yet saved.
Restart(d, s) ==
    /\ pc[d] = "heal" /\ s \in todo[d]
    /\ mem[d].count[s] < MaxRestarts
    /\ mem[d].restarted[s] >= Backoff[mem[d].count[s]]
    /\ \E h \in {"healthy"} \cup Bad, up \in SUBSET {i \in Deps[s] : d # "webhook" /\ health[i] = "exited"} :
          health' = [i \in Services |-> IF i = s THEN h ELSE IF i \in up THEN "healthy" ELSE health[i]]
    /\ mem' = [mem EXCEPT ![d].count[s] = @ + 1, ![d].restarted[s] = 0]
    /\ returned' = [returned EXCEPT ![s] = @ + 1]
    /\ Goto(d, "save")
    /\ todo' = [todo EXCEPT ![d] = @ \ {s}]
    /\ UNCHANGED <<text, boundary, file, report, spent, verdict, ran, told, slips, overlaps>>

\* _heal, a restart command that did not return in time: nothing is counted,
\* whatever Docker still does.
RestartTimesOut(d, s) ==
    /\ pc[d] = "heal" /\ s \in todo[d]
    /\ mem[d].count[s] < MaxRestarts
    /\ mem[d].restarted[s] >= Backoff[mem[d].count[s]]
    /\ \E h \in {"healthy"} \cup Bad : health' = [health EXCEPT ![s] = h]
    /\ todo' = [todo EXCEPT ![d] = @ \ {s}]
    /\ UNCHANGED <<text, boundary, file, mem, pc, report, spent, verdict, Ghosts>>

\* The restart is saved.
Save(d) ==
    /\ pc[d] = "save" /\ Goto(d, "heal")
    /\ Write(mem[d])
    /\ UNCHANGED <<World, mem, report, todo, spent, verdict, returned, ran, told, overlaps>>

\* (mutant) the recovery is stamped in the file only when it is over.
DecideRecoverUnstamped(d) ==
    /\ pc[d] = "heal" /\ todo[d] = {}
    /\ IF d # "webhook" /\ RecoverDue(d)
       THEN /\ mem' = [mem EXCEPT ![d].recovered = 0]
            /\ ran' = [age |-> 0, known |-> Alone(d)]
            /\ Goto(d, "recover")
       ELSE Goto(d, "reset") /\ UNCHANGED <<mem, ran>>
    /\ UNCHANGED <<World, file, report, todo, spent, verdict, returned, told, slips, overlaps>>

\* _maybe_auto_trigger_recover up to the command: the decision, and the stamp
\* that is saved, if it can be, before the command is started.
DecideRecover(d) ==
    /\ pc[d] = "heal" /\ todo[d] = {}
    /\ IF d # "webhook" /\ RecoverDue(d)
       THEN /\ mem' = [mem EXCEPT ![d].recovered = 0]
            /\ Write([mem[d] EXCEPT !.recovered = 0])
            /\ ran' = [age |-> 0, known |-> Alone(d) /\ slips' = slips]
            /\ Goto(d, "recover")
       ELSE Goto(d, "reset") /\ UNCHANGED <<mem, file, ran, slips>>
    /\ UNCHANGED <<World, report, todo, spent, verdict, returned, told, overlaps>>

\* `deploy recover' for the node: it needs the boundary itself, and may help
\* or not.
Recover(d) ==
    /\ pc[d] = "recover" /\ Goto(d, "reset")
    /\ \/ boundary # "free" /\ UNCHANGED health
       \/ boundary = "free" /\ health' \in [Services -> {"healthy"} \cup Bad]
                            /\ \A s \in Services : health[s] = "healthy" => health'[s] = "healthy"
    /\ UNCHANGED <<text, boundary, file, mem, report, todo, spent, verdict, Ghosts>>

\* The end of _heal: counters of containers that run now, and that this run
\* had no reason to restart, are cleared.
Reset(d) ==
    /\ pc[d] = "reset"
    /\ LET well == {s \in Services : s \notin Fixable(d) /\ mem[d].count[s] > 0
                                     /\ health[s] = "healthy"}
           cleared == [mem[d] EXCEPT
                         !.count = [s \in Services |-> IF s \in well THEN 0 ELSE @[s]],
                         !.restarted = [s \in Services |-> IF s \in well THEN MaxAge ELSE @[s]]]
       IN  /\ mem' = [mem EXCEPT ![d] = cleared]
           /\ IF well # {} THEN Write(cleared) ELSE UNCHANGED <<file, slips>>
           /\ returned' = [s \in Services |-> IF s \in well THEN 0 ELSE returned[s]]
    /\ Goto(d, IF d = "webhook" THEN "release" ELSE "tell")
    /\ verdict' = IF d = "webhook" THEN "healed" ELSE verdict
    /\ todo' = [todo EXCEPT ![d] = {}]
    /\ UNCHANGED <<World, report, spent, ran, told, overlaps>>

\* (mutant) the cooldown is looked up but not applied.
TellUncooled(d, s) ==
    /\ pc[d] \in {"tell", "sent"} /\ s \in Issues(d) \ spent[d] /\ s \notin todo[d]
    /\ Goto(d, "sent")
    /\ mem' = [mem EXCEPT ![d].paged[IssueKey(s, report[d][s])] = 0]
    /\ told' = [told EXCEPT ![s] = [age |-> 0, about |-> report[d][s], by |-> d]]
    /\ todo' = [todo EXCEPT ![d] = @ \cup {s}]
    /\ UNCHANGED <<World, file, report, spent, verdict, returned, ran, slips, overlaps>>

\* notify, one issue that is not terminal and not in its cooldown; the alert
\* may fail to be sent, which is not remembered.
Tell(d, s) ==
    /\ pc[d] \in {"tell", "sent"} /\ s \in Issues(d) \ spent[d] /\ s \notin todo[d]
    /\ \/ /\ mem[d].paged[IssueKey(s, report[d][s])] >= NotifyCooldown
          /\ Goto(d, "sent")
          /\ mem' = [mem EXCEPT ![d].paged[IssueKey(s, report[d][s])] = 0]
          /\ told' = [told EXCEPT ![s] = [age |-> 0, about |-> report[d][s], by |-> d]]
       \/ UNCHANGED <<pc, mem, told>>
    /\ todo' = [todo EXCEPT ![d] = @ \cup {s}]
    /\ UNCHANGED <<World, file, report, spent, verdict, returned, ran, slips, overlaps>>

\* What d told, or the file remembers, is from now on remembered by another, or by nobody for sure.
HandOver(d, to) ==
    told' = [s \in Services |-> IF told[s].by = d THEN [told[s] EXCEPT !.by = to] ELSE told[s]]

\* The end of notify: the state is saved if an alert was sent; the run ends.
Told(d) ==
    /\ pc[d] \in {"tell", "sent"} /\ Issues(d) \ spent[d] \subseteq todo[d]
    /\ IF pc[d] = "sent" THEN Write(mem[d]) ELSE UNCHANGED <<file, slips>>
    /\ HandOver(d, IF Alone(d) /\ slips' = slips THEN "file" ELSE "lost")
    /\ Exit(d)
    /\ UNCHANGED <<World, verdict, returned, ran, overlaps>>

\* The webhook handler leaves the boundary.
Release ==
    /\ pc["webhook"] = "release" /\ Exit("webhook")
    /\ boundary' = "free" /\ verdict' = "none"
    /\ UNCHANGED <<health, text, file, Ghosts>>

\* Two runs save at once.  Both write to the same temporary file before they
\* rename it, so that one puts in place what the other has only begun to write,
\* which loads as nothing.  Their own steps follow: the other's text is complete
\* in the end, unless that run is killed; the rename that comes second fails.
Tear ==
    /\ \E d \in Healers : \E e \in Healers \ {d} : {pc[d], pc[e]} \subseteq {"heal", "save", "reset", "sent"}
    /\ slips + MaxRestarts <= MaxSlips /\ slips' = slips + MaxRestarts
    /\ file' = Blank
    /\ ran' = [ran EXCEPT !.known = FALSE]
    /\ HandOver("file", "lost")
    /\ UNCHANGED <<World, mem, pc, report, todo, spent, verdict, returned, overlaps>>

\* A run is killed: by its time limit, by a restart of the machine.
Kill(d) ==
    /\ pc[d] # "idle" /\ slips < MaxSlips /\ Exit(d)
    /\ slips' = slips + 1
    /\ boundary' = IF d = "webhook" THEN "free" ELSE boundary
    /\ verdict' = IF d = "webhook" THEN "none" ELSE verdict
    /\ HandOver(d, "lost")
    /\ UNCHANGED <<health, text, file, returned, ran, overlaps>>

\* The world: a container fails or recovers, its status line changes, a
\* deployment takes or leaves the boundary.
Fail(s) ==
    /\ \E h \in {"healthy"} \cup Bad : health' = [health EXCEPT ![s] = h]
    /\ \E t \in Texts : text' = [text EXCEPT ![s] = t]
    /\ UNCHANGED <<file, mem, pc, report, todo, spent, boundary, verdict, Ghosts>>

Deployment ==
    /\ boundary # "webhook"
    /\ boundary' = IF boundary = "free" THEN "deploy" ELSE "free"
    /\ UNCHANGED <<health, text, file, mem, pc, report, todo, spent, verdict, Ghosts>>

Aged(f) == [f EXCEPT !.restarted = [s \in Services |-> Older(@[s])],
                     !.paged = [k \in Services \X Messages |-> Older(@[k])],
                     !.recovered = Older(@)]

\* Time passes between two runs and during the recovery of a node; the rest of
\* a run is short.
Tick ==
    /\ \A d \in Healers : pc[d] \in {"idle", "recover"}
    /\ file' = Aged(file)
    /\ mem' = [d \in Dogs |-> IF pc[d] = "idle" THEN Blank ELSE Aged(mem[d])]
    /\ ran' = [ran EXCEPT !.age = Older(@)]
    /\ told' = [s \in Services |-> [told[s] EXCEPT !.age = Older(@)]]
    /\ UNCHANGED <<World, pc, report, todo, spent, verdict, returned, slips, overlaps>>

Next ==
    \/ WebhookStart \/ Release \/ Deployment \/ Tear \/ Tick
    \/ \E s \in Services : WebhookCheck(s) \/ Fail(s)
    \/ \E d \in Healers : Start(d) \/ FullCheck(d) \/ Told(d) \/ \E s \in Services : Tell(d, s)
    \/ \E d \in Dogs :
          \/ HealGate(d) \/ Save(d) \/ DecideRecover(d) \/ Recover(d) \/ Reset(d) \/ Kill(d)
          \/ \E s \in Services : Skip(d, s) \/ Restart(d, s) \/ RestartTimesOut(d, s)

Spec == Init /\ [][Next]_watchdogVars

-----------------------------------------------------------------------------
\* The file, its copies and the steps of a run stay within their types.
TypeOK ==
    /\ health \in [Services -> {"healthy"} \cup Bad] /\ text \in [Services -> Texts]
    /\ file \in Records /\ mem \in [Dogs -> Records]
    /\ pc \in [Dogs -> {"idle", "check", "gate", "heal", "save", "recover", "reset", "tell", "sent",
                    "release"}]
    /\ todo \in [Dogs -> SUBSET Services] /\ spent \in [Dogs -> SUBSET Safe]
    /\ boundary \in {"free", "deploy", "webhook"}
    /\ verdict \in {"none", "skipped", "deferred", "healed"}
    /\ boundary = "webhook" <=> pc["webhook"] # "idle"

\* (With TypeOK.) A container that keeps failing is restarted at most
\* MaxRestarts times (a restart command that returned) before its counter is
\* cleared, however many runs that takes and whatever they overwrite: a run
\* killed or a save that fails costs one more, a run started beside another one
\* more, a file torn by two saves at once starts the count again.
RestartBudget ==
    TypeOK /\ \A s \in Services : returned[s] <= MaxRestarts + slips + overlaps

\* Within the cooldown of a recovery the node is not recovered again, although
\* every run is a new process that may be killed at any point, unless the stamp
\* of the first could not be saved, or another run was under way when it was
\* decided.
RecoveriesAreSpaced ==
    [][(\E d \in Healers : pc[d] # "recover" /\ pc'[d] = "recover")
       => ran.age >= RecoverCooldown \/ ~ran.known]_watchdogVars

\* The same message about a container is not sent again within its cooldown
\* once the run that sent it has ended, unless that run was killed before it
\* saved, its save failed, or another run was under way at its end.  (The
\* message holds Docker's status line: a container whose line changes is paged
\* about again at once, although the docstring of _issue_key says that the
\* message text does not count.)
AlertsAreSpaced ==
    [][\A s \in Services :
         told[s].by = "file" /\ told'[s].by \in Healers /\ told'[s].about = told[s].about
         => told[s].age >= NotifyCooldown]_watchdogVars

\* A webhook job puts off its healing only for a reason its service has: the
\* restart budget is spent or the backoff runs.
DeferralHasReason ==
    verdict = "deferred" =>
        \A s \in Issues("webhook") :
            \/ mem["webhook"].count[s] >= MaxRestarts
            \/ mem["webhook"].restarted[s] < Backoff[mem["webhook"].count[s]]
=============================================================================
