--------------------------- MODULE SecretRotation ---------------------------
(***************************************************************************)
(* Rotation of generated credentials: the controller's secret_rotation     *)
(* handler (toolkit/controller/operations.py) and `secrets rotate --apply' *)
(* (toolkit/cli/secrets_cmd.py).  Both hold the deployment boundary from   *)
(* the first to the last step: safety dump, new values in the secrets      *)
(* file, a deployment that brings them to the services, and, when it does  *)
(* not converge, the old values and another deployment.                    *)
(*                                                                         *)
(* The old values are nowhere but in the memory of that process.  Whether  *)
(* file and services agree is what this module is about, when deployments  *)
(* fail half way, the operator cancels, the process is killed, or the file *)
(* is edited meanwhile.  A deployment (see Deployment) is cut down to what *)
(* it does to credentials: it brings the values of the file to the         *)
(* services and then looks at them one by one.  Its playbook is a process  *)
(* in a session of its own, which goes on with the values it was started   *)
(* with when the deployment is left by an exception or killed.             *)
(***************************************************************************)
EXTENDS Integers, FiniteSets

CONSTANTS
    Secrets,        \* rotatable credentials, each held by one service
    NeedsPrevious,  \* those whose service must be shown a credential it accepts
    PreviousName,   \* variable that carries the previous value of a secret
    PreviousRead,   \* variable its playbook reads the previous value from
    MaxValue,       \* bound on new values
    MaxFaults       \* bound on faults: outages, kills, interrupts, cancellations, edits

ASSUME SecretRotationAssumption ==
    /\ NeedsPrevious \subseteq Secrets
    /\ MaxValue \in Nat /\ MaxFaults \in Nat

VARIABLES
    file,      \* file[s]: the value in the secrets file
    held,      \* held[s]: the value its service accepts
    run,       \* the operation that owns the boundary
    cancel,    \* the owner's cancellation marker
    verdict,   \* what the last operation said
    values,    \* the last value drawn
    stray,     \* what playbooks nobody waits for may yet set: secret, value, previous
    left,      \* every secret and value such a playbook ever had with it
    trouble    \* how often each kind of fault happened

rotationVars == <<file, held, run, cancel, verdict, values, stray, left, trouble>>

-----------------------------------------------------------------------------
None == -1
Idle == [op |-> "none", pc |-> "idle", names |-> {}, before |-> [s \in Secrets |-> None],
         rotated |-> [s \in Secrets |-> None], seen |-> {}, shield |-> FALSE, hurt |-> FALSE,
         clean |-> FALSE]

Kinds == {"outage", "kill", "cancel", "interrupt", "edit"}
\* One more fault of kind k.
Fault(k) ==
    /\ trouble.outage + trouble.kill + trouble.cancel + trouble.interrupt + trouble.edit < MaxFaults
    /\ trouble' = [trouble EXCEPT ![k] = @ + 1]

Agree == \A s \in Secrets : held[s] = file[s]

\* The previous value a deployment shows to the service of s: rotated values
\* while the old ones are brought back, else the old ones.
\* deployment_secret_variables names the variable, the playbook reads its own.
Previous(s) ==
    IF s \notin run.names \/ PreviousName[s] # PreviousRead[s] THEN None
    ELSE IF run.pc = "rollback" THEN run.rotated[s] ELSE run.before[s]

\* A service takes the value of the file if it needs no credential for that,
\* or is shown one it accepts.
Accepts(s) == s \notin NeedsPrevious \/ held[s] \in {file[s], Previous(s)}

\* The boundary is given back.
Finish(v) ==
    run' = Idle /\ cancel' = FALSE /\ verdict' = v

playbooks == <<stray, left>>

\* A deployment is left by an exception or with its process: its playbook, if
\* one is at work, runs on.
Leave ==
    \/ UNCHANGED playbooks
    \/ /\ run.pc \in {"deploy", "rollback"}
       /\ stray' = stray \cup {<<s, file[s], Previous(s)>> : s \in Secrets}
       /\ left' = left \cup {<<s, file[s]>> : s \in Secrets}

-----------------------------------------------------------------------------
Init ==
    /\ file = [s \in Secrets |-> 0] /\ held = file
    /\ run = Idle /\ cancel = FALSE
    /\ verdict = "none" /\ values = 0
    /\ stray = {} /\ left = {}
    /\ trouble = [k \in Kinds |-> 0]

\* A rotation begins (again: the worker runs a killed job once more), or a
\* plain deployment.
Begin(op, S) ==
    /\ run.op = "none" /\ (op = "deploy" <=> S = {})
    /\ run' = [Idle EXCEPT !.op = op, !.names = S, !.clean = Agree,
                           !.pc = IF op = "deploy" THEN "deploy" ELSE "dump"]
    /\ cancel' = FALSE /\ verdict' = "none"
    /\ UNCHANGED <<file, held, values, playbooks, trouble>>

\* The safety dump: the handler stops when it fails or when the job was
\* cancelled, the command goes on.
Dump ==
    /\ run.pc = "dump"
    /\ \/ run' = [run EXCEPT !.pc = "rotate"] /\ UNCHANGED <<cancel, verdict>>
       \/ run.op = "job" /\ Finish("failed")
    /\ UNCHANGED <<file, held, values, playbooks, trouble>>

\* (mutant) the old values are not kept.
RotateForgetting ==
    /\ run.pc = "rotate" /\ values < MaxValue
    /\ file' = [s \in Secrets |-> IF s \in run.names THEN values + 1 ELSE file[s]]
    /\ values' = values + 1
    /\ run' = [run EXCEPT !.pc = "deploy", !.rotated = file', !.before = file']
    /\ UNCHANGED <<held, cancel, verdict, playbooks, trouble>>

\* rotate_secret_values: new values in the file, the old ones in memory.
Rotate ==
    /\ run.pc = "rotate" /\ values < MaxValue
    /\ file' = [s \in Secrets |-> IF s \in run.names THEN values + 1 ELSE file[s]]
    /\ values' = values + 1
    /\ run' = [run EXCEPT !.pc = "deploy", !.before = file,
                          !.rotated = [s \in Secrets |-> IF s \in run.names THEN values + 1
                                                         ELSE file[s]]]
    /\ UNCHANGED <<held, cancel, verdict, playbooks, trouble>>

\* The deployment brings the value of the file to a service.
Reconcile(s) ==
    /\ run.pc \in {"deploy", "rollback"} /\ held[s] # file[s] /\ Accepts(s)
    /\ ~cancel \/ run.shield
    /\ held' = [held EXCEPT ![s] = file[s]]
    /\ UNCHANGED <<file, run, cancel, verdict, values, playbooks, trouble>>

\* The deployment looks at a service and finds that it accepts the value.
Look(s) ==
    /\ run.pc \in {"deploy", "rollback"} /\ held[s] = file[s] /\ s \notin run.seen
    /\ ~cancel \/ run.shield
    /\ run' = [run EXCEPT !.seen = @ \cup {s}]
    /\ UNCHANGED <<file, held, cancel, verdict, values, playbooks, trouble>>

\* (mutant) the verification after the deployment is not looked at.
DeployConvergesUnverified ==
    /\ run.pc = "deploy" /\ Finish("ok")
    /\ UNCHANGED <<file, held, values, playbooks, trouble>>

\* The deployment ends with every check passed.
DeployConverges ==
    /\ run.pc = "deploy" /\ run.seen = Secrets /\ (~cancel \/ run.shield)
    /\ Finish("ok")
    /\ UNCHANGED <<file, held, values, playbooks, trouble>>

\* The deployment ends otherwise: a failure of its own, or the cancellation
\* marker.  The handler shields what follows from cancellation and clears the
\* marker; the command does neither.
DeployFails ==
    /\ run.pc = "deploy"
    /\ \/ (cancel \/ \E s \in Secrets : ~Accepts(s)) /\ UNCHANGED trouble
       \/ Fault("outage")
    /\ IF run.op = "deploy" THEN Finish("deploy_failed")
       ELSE /\ run' = [run EXCEPT !.pc = "restore", !.shield = run.op = "job"]
            /\ cancel' = (cancel /\ run.op # "job")
            /\ UNCHANGED verdict
    /\ UNCHANGED <<file, held, values, playbooks>>

\* The job's log callback raises, because it was cancelled or has lost its
\* lease, or the command is interrupted: the deployment is left as it is, and
\* the way back is shielded.
Interrupted ==
    /\ run.pc = "deploy" /\ Fault("interrupt") /\ Leave
    /\ IF run.op = "deploy" THEN Finish("deploy_failed")
       ELSE /\ run' = [run EXCEPT !.pc = "restore", !.shield = TRUE, !.hurt = TRUE]
            /\ cancel' = FALSE /\ UNCHANGED verdict
    /\ UNCHANGED <<file, held, values>>

\* restore_secret_values: refused when someone else changed a value.
Restore ==
    /\ run.pc = "restore"
    /\ IF \A s \in run.names : file[s] = run.rotated[s]
       THEN /\ file' = [s \in Secrets |-> IF s \in run.names THEN run.before[s] ELSE file[s]]
            /\ run' = [run EXCEPT !.pc = "rollback", !.seen = {}]
            /\ UNCHANGED <<cancel, verdict>>
       ELSE Finish("blocked") /\ UNCHANGED file
    /\ UNCHANGED <<held, values, playbooks, trouble>>

\* What an interrupted command says, whatever its rollback did.
AfterRollback(v) == IF run.op = "cli" /\ run.hurt THEN "interrupted" ELSE v

\* The second deployment converges: the old credentials are back.
RollbackConverges ==
    /\ run.pc = "rollback" /\ run.seen = Secrets /\ (~cancel \/ run.shield)
    /\ Finish(AfterRollback("restored"))
    /\ UNCHANGED <<file, held, values, playbooks, trouble>>

\* (mutant) a rollback that failed is reported like one that converged.
RollbackFailsQuietly ==
    /\ run.pc = "rollback" /\ Finish("restored")
    /\ UNCHANGED <<file, held, values, playbooks, trouble>>

\* It does not: the handler and the command say so.
RollbackFails ==
    /\ run.pc = "rollback"
    /\ \/ ((cancel /\ ~run.shield) \/ \E s \in Secrets : ~Accepts(s)) /\ UNCHANGED trouble
       \/ Fault("outage")
    /\ Finish(AfterRollback("not_converged"))
    /\ UNCHANGED <<file, held, values, playbooks>>

\* It raises: the handler calls its rollback blocked, the command passes the
\* exception on.
RollbackRaises ==
    /\ run.pc = "rollback" /\ Fault("interrupt") /\ Leave
    /\ Finish(IF run.op = "cli" THEN "interrupted" ELSE "blocked")
    /\ UNCHANGED <<file, held, values>>

\* `deploy lock --cancel': the marker of the current owner.
RequestCancel ==
    /\ run.op # "none" /\ ~cancel /\ cancel' = TRUE /\ Fault("cancel")
    /\ UNCHANGED <<file, held, run, verdict, values, playbooks>>

\* The process is killed: deadline, power, SIGKILL.
Kill ==
    /\ run.op # "none" /\ Finish("killed") /\ Fault("kill") /\ Leave
    /\ UNCHANGED <<file, held, values>>

\* A playbook nobody waits for sets a value, or comes to its end without.
StrayApplies(t) ==
    /\ t \in stray /\ stray' = stray \ {t}
    /\ \/ /\ t[1] \notin NeedsPrevious \/ held[t[1]] \in {t[2], t[3]}
          /\ held' = [held EXCEPT ![t[1]] = t[2]]
       \/ UNCHANGED held
    /\ UNCHANGED <<file, run, cancel, verdict, values, left, trouble>>

\* The operator edits the secrets file with an editor, without the boundary.
Edit(s) ==
    /\ run.op # "none" /\ values < MaxValue /\ Fault("edit")
    /\ file' = [file EXCEPT ![s] = values + 1] /\ values' = values + 1
    /\ UNCHANGED <<held, run, cancel, verdict, playbooks>>

Next ==
    \/ \E op \in {"job", "cli", "deploy"}, S \in SUBSET Secrets : Begin(op, S)
    \/ Dump \/ Rotate \/ (\E s \in Secrets : Reconcile(s) \/ Look(s)) \/ DeployConverges \/ DeployFails
    \/ Interrupted \/ Restore \/ RollbackConverges \/ RollbackFails \/ RollbackRaises
    \/ RequestCancel \/ Kill \/ (\E s \in Secrets : Edit(s)) \/ (\E t \in stray : StrayApplies(t))

Spec == Init /\ [][Next]_rotationVars

-----------------------------------------------------------------------------
\* Values, phases and verdicts stay within their types; only an operation that
\* runs has a cancellation marker.
TypeOK ==
    /\ file \in [Secrets -> 0 .. MaxValue] /\ held \in [Secrets -> 0 .. MaxValue]
    /\ values \in 0 .. MaxValue /\ trouble \in [Kinds -> 0 .. MaxFaults]
    /\ run.op \in {"none", "job", "cli", "deploy"} /\ run.names \subseteq Secrets
    /\ run.seen \subseteq Secrets
    /\ stray \subseteq Secrets \X (0 .. MaxValue) \X (-1 .. MaxValue)
    /\ left \subseteq Secrets \X (0 .. MaxValue)
    /\ run.pc \in {"idle", "dump", "rotate", "deploy", "restore", "rollback"}
    /\ run.op = "none" <=> run.pc = "idle"
    /\ verdict \in {"none", "ok", "failed", "restored", "not_converged", "blocked", "interrupted",
                    "deploy_failed", "killed"}
    /\ cancel => run.op # "none"

\* A playbook that was left behind had with it what the service accepts.
Astray(s) == <<s, held[s]>> \in left

\* A verdict that everything is well is true, as long as nobody edits the file
\* beside a rotation: after "ok" and after "previous credentials restored"
\* every service accepts what the file says, unless a playbook that was left
\* behind has set it to another value since the deployment looked at it; and
\* after "restored" the file holds the values from before the rotation.
VerdictIsTrue ==
    [][verdict' \in {"ok", "restored"} /\ verdict = "none" /\ trouble.edit = 0 =>
          /\ \A s \in Secrets : held'[s] # file'[s] => Astray(s)'
          /\ verdict' = "restored" => \A s \in run.names : file'[s] = run.before[s]]_rotationVars

\* An operation that found file and services in agreement and leaves them in
\* disagreement does not end as if nothing had happened, unless the
\* disagreement is the work of a playbook that was left behind, by it or by an
\* operation before it.
LossIsReported ==
    [][run.clean /\ run'.op = "none" /\ trouble.edit = 0
       => \/ verdict' \in {"not_converged", "blocked", "interrupted", "killed"}
          \/ \A s \in Secrets : held'[s] # file'[s] => Astray(s)']_rotationVars

\* (With TypeOK.) While the operation lives, the value a service accepts is
\* in the file or in its memory, so that there is a way back, or is one that a
\* playbook brought which an operation left behind.
WayBackIsKnown ==
    /\ TypeOK
    /\ run.clean /\ trouble.edit = 0 =>
          \A s \in Secrets : held[s] \in {file[s], run.before[s], run.rotated[s]} \/ Astray(s)
=============================================================================
