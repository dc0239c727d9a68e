----------------------------- MODULE Deployment -----------------------------
(***************************************************************************)
(* The deployment and the recovery workflow (run_deploy_workflow and       *)
(* run_recover_workflow of toolkit/core/deploy), run by the command line   *)
(* and by the controller's jobs, one at a time under the boundary that     *)
(* OperationLease models.                                                  *)
(*                                                                         *)
(* A workflow is a list of phases.  The first ones are gates: a failure    *)
(* ends the workflow.  The later ones are checks whose failures add up to  *)
(* the verdict.  What is at stake is the fleet: which services each node   *)
(* runs, the credentials kept for them, and the ownership ledger, which    *)
(* says whose credentials may be pruned once a service has left the        *)
(* catalog.                                                                *)
(*                                                                         *)
(* Workflows end early in four ways: the operator's cancellation marker is *)
(* seen at a checkpoint; a job's log callback raises (the job was          *)
(* cancelled or its lease lost); a tool runs into its time limit; the      *)
(* process is killed.  The tools they wait for are processes of their own. *)
(* Remote deployment over Ansible is modelled, the local one is not.       *)
(***************************************************************************)
EXTENDS Integers, FiniteSets

CONSTANTS
    Nodes,       \* enabled nodes
    Services,    \* services that enter and leave the catalog
    HookTries,   \* attempts of the hook verification (3 in the code)
    Faults,      \* which of "raise", "timeout", "kill" happen
    MaxFaults,   \* bound on such faults
    MaxChanges   \* bound on changes of the catalog

ASSUME DeploymentAssumption ==
    /\ IsFiniteSet(Nodes) /\ Nodes # {} /\ HookTries \in Nat \ {0}
    /\ Faults \subseteq {"raise", "timeout", "kill"}
    /\ MaxFaults \in Nat /\ MaxChanges \in Nat

VARIABLES
    catalog,    \* the services the configuration and the catalog ask for
    generated,  \* the services of the generated artifacts on disk
    running,    \* running[n]: the services node n was last deployed with
    creds,      \* the services with credentials in the secrets file
    ledger,     \* the services of service-ownership.json
    run,        \* the workflow that owns .deploy.lock; op = "free" when none does
    cancel,     \* the owner's cancellation marker is set
    report,     \* what the last workflow returned, until the next one begins
    stray,      \* tools nobody waits for: the node and what they may yet apply
    abandoned,  \* a playbook nobody waited for existed
    faults,     \* faults so far
    changes     \* changes of the catalog so far

deploymentVars == <<catalog, generated, running, creds, ledger, run, cancel, report, stray,
                    abandoned, faults, changes>>

-----------------------------------------------------------------------------
Ops == {"cli", "job"}
\* The phase that follows each phase.
DeployOrder == [preflight |-> "pre_dump", pre_dump |-> "generate", generate |-> "postcheck",
                postcheck |-> "infra", infra |-> "tofu", tofu |-> "machines",
                machines |-> "nodes", nodes |-> "playbook",
                playbook |-> "hooks", hooks |-> "vaultwarden", vaultwarden |-> "dns",
                dns |-> "hook_verify", hook_verify |-> "verify", verify |-> "qa",
                qa |-> "cleanup", cleanup |-> "prune", prune |-> "commit",
                commit |-> "notify", notify |-> "last"]
RecoverOrder == [preflight |-> "nodes", nodes |-> "playbook", playbook |-> "hooks",
                 hooks |-> "hook_verify", hook_verify |-> "verify", verify |-> "last"]
Phases == DOMAIN DeployOrder \cup {"last"}

Steps == {"preflight", "pre_dump", "generate", "infra", "hooks", "vaultwarden", "dns", "hook_verify",
          "verify", "qa", "cleanup", "notify"}
Checks == {"hooks", "vaultwarden", "dns", "hook_verify", "verify", "qa"}
PostDeploySkip == {"hooks", "hook_verify", "verify", "vaultwarden", "dns", "notify"}

\* A node's step is deploy_<node>, never the name of another step.
ASSUME StepIdsAssumption == Nodes \cap Steps = {}

\* _init_step_status.  A step that is left out by choice (no database, no
\* provisioning, no DNS token) counts as "ok"; "skip" is what a failure
\* earlier on makes of a step.
Pending(T) == [s \in Steps \cup T |-> "pending"]
Idle == [op |-> "free", pc |-> "idle", kind |-> "deploy", targets |-> {}, step |-> Pending({}),
         tries |-> 0, made |-> {}, left |-> {}, ok |-> TRUE]
NoReport == [result |-> "none", step |-> Pending({})]

After == IF run.kind = "deploy" THEN DeployOrder[run.pc] ELSE RecoverOrder[run.pc]

\* Entering a phase marks its step as running.
Enter(step, p, T) ==
    IF p = "nodes" THEN [s \in DOMAIN step |-> IF s \in T THEN "running" ELSE step[s]]
    ELSE IF p \in Steps THEN [step EXCEPT ![p] = "running"] ELSE step

\* set_step and go on with the next phase.
Advance(step) ==
    run' = [run EXCEPT !.pc = After, !.tries = 0, !.step = Enter(step, After, run.targets)]

Settled(step) == [s \in DOMAIN step |-> IF step[s] = "running" THEN "fail" ELSE step[s]]
Marked(step, S, status) == [s \in DOMAIN step |-> IF s \in S THEN status ELSE step[s]]

\* _skip_remaining_steps; recovery skips its own pending steps.
SkipRemaining(step) ==
    LET S == IF run.kind = "deploy" THEN PostDeploySkip ELSE {"hooks", "hook_verify", "verify"}
    IN  Marked(step, S, "skip")

\* all_success
AllSuccess == run.ok /\ \A s \in Checks : run.step[s] # "fail"

\* The workflow returns and the lease is released by whoever took it: the
\* workflow itself (cli) or the handler around it (job).
End(step, result) ==
    run' = Idle /\ report' = [result |-> result, step |-> step] /\ cancel' = FALSE

Fleet == <<catalog, generated, running, creds, ledger>>
Lease == <<cancel, report>>
Bounds == <<faults, changes>>

-----------------------------------------------------------------------------
Init ==
    /\ catalog \in SUBSET Services
    /\ generated = {} /\ creds = {} /\ ledger = {}
    /\ running = [n \in Nodes |-> {}]
    /\ run = Idle /\ cancel = FALSE /\ report = NoReport
    /\ stray = {} /\ abandoned = FALSE
    /\ faults = 0 /\ changes = 0

\* The boundary is taken; a workflow that finds it owned returns at once and
\* changes nothing.
Begin(d, k, T) ==
    /\ run.op = "free" /\ T # {} /\ (k = "recover" => T = Nodes \/ Cardinality(T) = 1)
    /\ run' = [Idle EXCEPT !.op = d, !.kind = k, !.targets = T, !.pc = "preflight",
                           !.step = Enter(Pending(T), "preflight", T)]
    /\ cancel' = FALSE /\ report' = NoReport
    /\ UNCHANGED <<Fleet, stray, abandoned, Bounds>>

\* lease.raise_if_cancelled stands before the phases that say so.
Checked == run.pc # "vaultwarden" => ~cancel

\* Preflight: the step stays "running" until the artifacts have been generated
\* and checked again.
Preflight ==
    /\ run.kind = "deploy" /\ run.pc = "preflight" /\ Checked
    /\ \/ Advance(run.step) /\ UNCHANGED Lease
       \/ End([run.step EXCEPT !["preflight"] = "fail"], "fail")
    /\ UNCHANGED <<Fleet, stray, abandoned, Bounds>>

\* The database dump is a gate when a provider is enabled, else skipped.
PreDump ==
    /\ run.pc = "pre_dump" /\ Checked
    /\ \/ Advance([run.step EXCEPT !["pre_dump"] = "ok"]) /\ UNCHANGED Lease
       \/ End([run.step EXCEPT !["pre_dump"] = "fail"], "fail")
    /\ UNCHANGED <<Fleet, stray, abandoned, Bounds>>

\* generate_and_validate_artifacts: missing credentials are created and all
\* files written before the validation that may reject them.
Generate ==
    /\ run.pc = "generate" /\ Checked
    /\ \/ /\ generated' = catalog /\ creds' = creds \cup catalog
          /\ \/ Advance([run.step EXCEPT !["generate"] = "ok"]) /\ UNCHANGED Lease
             \/ End([run.step EXCEPT !["generate"] = "fail"], "fail")
       \/ /\ End([run.step EXCEPT !["generate"] = "fail"], "fail")
          /\ UNCHANGED <<generated, creds>>
    /\ UNCHANGED <<catalog, running, ledger, stray, abandoned, Bounds>>

Postcheck ==
    /\ run.pc = "postcheck" /\ Checked
    /\ \/ Advance([run.step EXCEPT !["preflight"] = "ok"]) /\ UNCHANGED Lease
       \/ End([run.step EXCEPT !["preflight"] = "fail"], "fail")
    /\ UNCHANGED <<Fleet, stray, abandoned, Bounds>>

InfraFails == End([run.step EXCEPT !["infra"] = "fail"], "fail")

\* Provisioning is left out by choice or because the machines exist; else the
\* host-setup playbook runs and the storage has to become active.
HostSetup ==
    /\ run.pc = "infra" /\ Checked
    /\ \/ Advance(run.step) /\ UNCHANGED Lease
       \/ /\ run' = [run EXCEPT !.pc = "machines", !.step["infra"] = "ok"]
          /\ UNCHANGED Lease
       \/ InfraFails
    /\ UNCHANGED <<Fleet, stray, abandoned, Bounds>>

\* tofu init and apply, then the inventory.
TofuApply ==
    /\ run.pc = "tofu" /\ Checked
    /\ \/ Advance([run.step EXCEPT !["infra"] = "ok"]) /\ UNCHANGED Lease
       \/ InfraFails
    /\ UNCHANGED <<Fleet, stray, abandoned, Bounds>>

\* reconcile_infrastructure_secrets, without a checkpoint before it.
MachineSecrets ==
    /\ run.pc = "machines"
    /\ (Advance(run.step) /\ UNCHANGED Lease) \/ InfraFails
    /\ UNCHANGED <<Fleet, stray, abandoned, Bounds>>

\* The tools that are at work: playbooks that have still to reach a node, and
\* host setup or OpenTofu.
Tools ==
    IF run.pc = "playbook" THEN {<<"playbook", n, run.made>> : n \in run.left}
    ELSE IF run.pc \in {"infra", "tofu"} THEN {<<"tofu", run.targets, {}>>}
    ELSE {}

\* The workflow is over and nobody waits for its tools any more.
Abandon ==
    /\ stray' = stray \cup Tools
    /\ abandoned' = (abandoned \/ run.left # {})

\* asyncio.wait_for gives up waiting for the tool and does not end it.
InfraTimesOut ==
    /\ run.pc \in {"infra", "tofu"} /\ "timeout" \in Faults /\ faults < MaxFaults
    /\ InfraFails /\ Abandon
    /\ faults' = faults + 1
    /\ UNCHANGED <<Fleet, changes>>

StartPlaybook ==
    /\ run' = [run EXCEPT !.pc = "playbook", !.left = run.targets, !.made = generated]
    /\ UNCHANGED Lease

\* SSH, guest bootstrap and images; then the playbook is started.  Without a
\* guest playbook the deployment fails and the steps of its nodes stay as they
\* are.
DeployNodes ==
    /\ run.kind = "deploy" /\ run.pc = "nodes" /\ Checked
    /\ \/ StartPlaybook
       \/ LET failed == Marked(run.step, run.targets, "fail")
          IN  End(SkipRemaining(failed), "fail") \/ End(failed, "fail")
       \/ End(SkipRemaining(run.step), "fail")
    /\ UNCHANGED <<Fleet, stray, abandoned, Bounds>>

\* The playbook reaches a node.
Apply(n) ==
    /\ run.pc = "playbook" /\ n \in run.left
    /\ running' = [running EXCEPT ![n] = run.made]
    /\ run' = [run EXCEPT !.left = @ \ {n}]
    /\ UNCHANGED <<catalog, generated, creds, ledger, Lease, stray, abandoned, Bounds>>

\* (mutant) the playbook's return code is not looked at.
PlaybookReturnsUnchecked ==
    /\ run.kind = "deploy" /\ run.pc = "playbook" /\ ~cancel
    /\ run' = [run EXCEPT !.pc = "hooks", !.left = {},
                          !.step = Enter(Marked(@, run.targets, "ok"), "hooks", {})]
    /\ UNCHANGED <<Fleet, Lease, stray, abandoned, Bounds>>

NodesDone ==
    /\ run.left = {}
    /\ run' = [run EXCEPT !.pc = "hooks", !.step = Enter(Marked(@, run.targets, "ok"), "hooks", {})]
    /\ UNCHANGED Lease

\* The playbook ends, by itself or killed at its time limit.  The output marks
\* a node as done when the next one is begun, so a failed playbook leaves some
\* nodes "ok"; a "fatal:" in the output fails one that returned 0.
PlaybookReturns ==
    /\ run.kind = "deploy" /\ run.pc = "playbook" /\ ~cancel
    /\ \/ NodesDone
       \/ \E done \in SUBSET run.targets :
             End(SkipRemaining(Marked(Marked(run.step, run.targets, "fail"), done, "ok")), "fail")
    /\ UNCHANGED <<Fleet, stray, abandoned, Bounds>>

\* A check writes down its outcome, and the workflow goes on either way.
Outcome(k, p) ==
    /\ run.kind = k /\ run.pc = p /\ Checked
    /\ \E o \in {"ok", "fail"} : Advance([run.step EXCEPT ![p] = o])
    /\ UNCHANGED <<Fleet, Lease, stray, abandoned, Bounds>>

\* A check that failed is made again, at most n times in all.
Again(k, p, n) ==
    /\ run.kind = k /\ run.pc = p /\ Checked /\ run.tries < n - 1
    /\ run' = [run EXCEPT !.tries = @ + 1]
    /\ UNCHANGED <<Fleet, Lease, stray, abandoned, Bounds>>

\* Post-start hooks and credentials of the services, node by node.
RunHooks == Outcome("deploy", "hooks")
\* Credentials are copied into the password manager.
SyncVaultwarden == Outcome("deploy", "vaultwarden")
UpdateDns == Outcome("deploy", "dns")
\* verify_hooks: only failures that may pass are tried again.
VerifyHooks == Outcome("deploy", "hook_verify") \/ Again("deploy", "hook_verify", HookTries)
\* Containers on every node, then the soak period and a second look.
VerifyContainers == Outcome("deploy", "verify")
RunQa == Outcome("deploy", "qa")

\* Dangling images and stopped containers; never fatal.
Cleanup ==
    /\ run.pc = "cleanup" /\ Checked
    /\ Advance([run.step EXCEPT !["cleanup"] = "ok"])
    /\ UNCHANGED <<Fleet, Lease, stray, abandoned, Bounds>>

\* (mutant) ownership is committed after any successful deployment.
OwnsFleetPartly == AllSuccess

\* Only a successful deployment of every node may commit ownership.
OwnsFleet == AllSuccess /\ run.targets = Nodes

\* commit_ownership_ledger, first half: credentials of owned services that
\* left the catalog are removed from the secrets file.
Prune ==
    /\ run.pc = "prune" /\ Advance(run.step)
    /\ creds' = IF OwnsFleet THEN creds \ (ledger \ catalog) ELSE creds
    /\ UNCHANGED <<catalog, generated, running, ledger, Lease, stray, abandoned, Bounds>>

\* (mutant) the ledger follows the catalog even if the deployment failed.
CommitAlways ==
    /\ run.pc = "commit" /\ ledger' = catalog /\ Advance(run.step)
    /\ UNCHANGED <<catalog, generated, running, creds, Lease, stray, abandoned, Bounds>>

\* commit_ownership_ledger, second half: the ledger is replaced; an error
\* makes the deployment a failure.
Commit ==
    /\ run.pc = "commit"
    /\ \/ /\ ledger' = IF OwnsFleet THEN catalog ELSE ledger
          /\ Advance(run.step)
       \/ /\ OwnsFleet
          /\ run' = [run EXCEPT !.ok = FALSE, !.pc = "notify",
                                !.step = Enter(@, "notify", {})]
          /\ UNCHANGED ledger
    /\ UNCHANGED <<catalog, generated, running, creds, Lease, stray, abandoned, Bounds>>

Notify ==
    /\ run.pc = "notify" /\ Checked
    /\ \E o \in {"ok", "fail"} : Advance([run.step EXCEPT !["notify"] = o])
    /\ UNCHANGED <<Fleet, Lease, stray, abandoned, Bounds>>

\* After the last checkpoint the verdict is returned.
Return ==
    /\ run.kind = "deploy" /\ run.pc = "last" /\ ~cancel
    /\ End(run.step, IF AllSuccess THEN "ok" ELSE "fail")
    /\ UNCHANGED <<Fleet, stray, abandoned, Bounds>>

\* (mutant) the steps that run are left as they are.
CancelledAsIs ==
    /\ run.kind = "deploy" /\ cancel /\ run.pc \notin {"idle", "machines", "vaultwarden", "prune", "commit"}
    /\ End(run.step, "cancelled")
    /\ UNCHANGED <<Fleet, stray, abandoned, Bounds>>

\* A checkpoint finds the cancellation marker: no tool runs then.
Cancelled ==
    /\ run.kind = "deploy" /\ cancel
    /\ run.pc \notin {"idle", "machines", "vaultwarden", "prune", "commit"}
    /\ End(Settled(run.step), "cancelled")
    /\ UNCHANGED <<Fleet, stray, abandoned, Bounds>>

-----------------------------------------------------------------------------
(* The recovery workflow: the last artifacts are deployed once more.       *)

\* The first checkpoint is after the preflight checks.
RecoverPreflight ==
    /\ run.kind = "recover" /\ run.pc = "preflight"
    /\ LET passed == [run.step EXCEPT !["preflight"] = "ok"]
       IN  \/ ~cancel /\ Advance(passed) /\ UNCHANGED Lease
           \/ cancel /\ End(passed, "cancelled")
           \/ End([run.step EXCEPT !["preflight"] = "fail"], "fail")
    /\ UNCHANGED <<Fleet, stray, abandoned, Bounds>>

\* Images, then the playbook; the next checkpoint is after it.
RecoverNodes ==
    /\ run.kind = "recover" /\ run.pc = "nodes"
    /\ \/ StartPlaybook
       \/ End(SkipRemaining(Marked(run.step, run.targets, "fail")), "fail")
    /\ UNCHANGED <<Fleet, stray, abandoned, Bounds>>

\* Nodes that a failed playbook did not mention are skipped.
RecoverPlaybookReturns ==
    /\ run.kind = "recover" /\ run.pc = "playbook" /\ ~cancel
    /\ \/ NodesDone
       \/ \E seen \in SUBSET run.targets :
             End(SkipRemaining(Marked(Marked(run.step, run.targets, "skip"), seen, "fail")), "fail")
    /\ UNCHANGED <<Fleet, stray, abandoned, Bounds>>

RecoverHooks == Outcome("recover", "hooks")
RecoverVerifyHooks == Outcome("recover", "hook_verify") \/ Again("recover", "hook_verify", HookTries)
RecoverVerify == Outcome("recover", "verify") \/ Again("recover", "verify", HookTries)

RecoverReturn ==
    /\ run.kind = "recover" /\ run.pc = "last" /\ ~cancel
    /\ End(run.step, IF AllSuccess THEN "ok" ELSE "fail")
    /\ UNCHANGED <<Fleet, stray, abandoned, Bounds>>

RecoverCancelled ==
    /\ run.kind = "recover" /\ cancel /\ run.pc \notin {"idle", "preflight", "nodes"}
    /\ End(Settled(run.step), "cancelled")
    /\ UNCHANGED <<Fleet, stray, abandoned, Bounds>>

-----------------------------------------------------------------------------
(* What happens to workflows.                                              *)

\* The log callback of a job raises: the job was cancelled or its lease lost.
\* The exception leaves run_playbook_streaming without ending the playbook,
\* and the workflow without a result; the handler releases the boundary.
LogRaises ==
    /\ run.op = "job" /\ "raise" \in Faults /\ faults < MaxFaults
    /\ End(Settled(run.step), "raised") /\ Abandon
    /\ faults' = faults + 1
    /\ UNCHANGED <<Fleet, changes>>

\* The process is killed; the flock goes with it, the tools do not.
Kill ==
    /\ run.pc # "idle" /\ "kill" \in Faults /\ faults < MaxFaults
    /\ End(run.step, "killed") /\ Abandon
    /\ faults' = faults + 1
    /\ UNCHANGED <<Fleet, changes>>

\* What a tool nobody waits for still does, or no longer does.
StrayApplies(s) ==
    /\ s \in stray /\ stray' = stray \ {s}
    /\ \/ s[1] = "playbook" /\ running' = [running EXCEPT ![s[2]] = s[3]]
       \/ UNCHANGED running
    /\ UNCHANGED <<catalog, generated, creds, ledger, Lease, run, abandoned, Bounds>>

\* The operator asks the owner to stop (`deploy lock --cancel').
RequestCancel ==
    /\ run.op # "free" /\ ~cancel /\ cancel' = TRUE
    /\ UNCHANGED <<Fleet, run, report, stray, abandoned, Bounds>>

\* Services enter or leave; changes of the configuration take the boundary.
ChangeCatalog(S) ==
    /\ run.op = "free" /\ changes < MaxChanges /\ S # catalog
    /\ catalog' = S /\ changes' = changes + 1
    /\ UNCHANGED <<generated, running, creds, ledger, Lease, run, stray, abandoned, faults>>

Next ==
    \/ RequestCancel
    \/ \E S \in SUBSET Services : ChangeCatalog(S)
    \/ \E s \in stray : StrayApplies(s)
    \/ \E d \in Ops, k \in {"deploy", "recover"}, T \in SUBSET Nodes : Begin(d, k, T)
    \/ Preflight \/ PreDump \/ Generate \/ Postcheck \/ HostSetup \/ TofuApply \/ MachineSecrets
    \/ DeployNodes \/ (\E n \in Nodes : Apply(n)) \/ PlaybookReturns
    \/ RunHooks \/ SyncVaultwarden \/ UpdateDns \/ VerifyHooks \/ VerifyContainers \/ RunQa
    \/ Cleanup \/ Prune \/ Commit \/ Notify \/ Return \/ Cancelled
    \/ RecoverPreflight \/ RecoverNodes \/ RecoverPlaybookReturns \/ RecoverHooks
    \/ RecoverVerifyHooks \/ RecoverVerify \/ RecoverReturn \/ RecoverCancelled
    \/ InfraTimesOut \/ LogRaises \/ Kill

Spec == Init /\ [][Next]_deploymentVars

-----------------------------------------------------------------------------
\* Files, credentials and steps stay within their types; the cancellation
\* marker belongs to a workflow that runs.
TypeOK ==
    /\ catalog \subseteq Services /\ generated \subseteq Services
    /\ creds \subseteq Services /\ ledger \subseteq Services
    /\ running \in [Nodes -> SUBSET Services]
    /\ stray \subseteq ({"playbook"} \X Nodes \X SUBSET Services) \cup ({"tofu"} \X (SUBSET Nodes) \X {{}})
    /\ run.op \in Ops \cup {"free"} /\ run.pc \in Phases \cup {"idle"}
    /\ run.targets \subseteq Nodes /\ run.left \subseteq run.targets
    /\ run.step \in [Steps \cup run.targets -> {"pending", "running", "ok", "fail", "skip"}]
    /\ run.op = "free" <=> run.pc = "idle"
    /\ cancel => run.op # "free"

\* A workflow reports success only when every node it was asked for runs what
\* was generated: failures of the playbook are not lost on the way through the
\* later phases, and no other workflow came in between.
SuccessIsConverged ==
    [][report'.result = "ok" /\ report.result = "none" /\ ~abandoned
       => \A n \in run.targets : running[n] = generated]_deploymentVars

\* The ownership ledger always names what a verified deployment put on every
\* node ("Persist framework-owned paths and secrets after verified full
\* deployments"); a cancelled, failed or partial one leaves it alone.
LedgerIsDeployed ==
    [][ledger' # ledger /\ ~abandoned => \A n \in Nodes : running[n] = ledger']_deploymentVars

\* Credentials outlive the service: what a node runs, or is about to be
\* deployed with, has its credentials in the secrets file, through failed,
\* cancelled, partial and killed deployments, as long as none of them has left
\* a playbook behind that nobody waits for.
CredentialsOutliveServices ==
    ~abandoned => /\ generated \subseteq creds
                  /\ \A n \in Nodes : running[n] \subseteq creds

\* The steps of a deployment that found no guest playbook.
NoPlaybook(step) ==
    step["hooks"] = "skip" /\ \A n \in DOMAIN step \ Steps : step[n] = "running"

\* (With TypeOK.) A workflow that came to its end leaves no step running, but
\* for the preflight step when the dump or the generation failed, and for the
\* steps of all nodes when there was no playbook to run.
StepsAreSettled ==
    /\ TypeOK
    /\ report.result \in {"ok", "fail", "cancelled"} =>
          \A s \in DOMAIN report.step :
              report.step[s] = "running" =>
                  \/ s = "preflight" /\ "fail" \in {report.step["pre_dump"], report.step["generate"]}
                  \/ s \notin Steps /\ NoPlaybook(report.step) /\ report.result = "fail"

\* The boundary covers the tools: nothing an operation started goes on
\* changing the fleet once the operation has given the boundary back.
BoundaryCoversTools == stray = {}
=============================================================================
