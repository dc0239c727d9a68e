-------------------------- MODULE DeploymentProofs --------------------------
(***************************************************************************)
(* Proofs about the workflows that run under the deployment boundary, for  *)
(* any nodes, services and bounds, and about the boundary itself, for any  *)
(* number of operations and cancellers.                                    *)
(*                                                                         *)
(* The workflows: CredentialsOutliveServices is not inductive.  That       *)
(* pruning is harmless rests on what the earlier phases of the same        *)
(* workflow established, and on the catalog and the artifacts not changing *)
(* while the workflow owns the boundary.  DeployInv says, phase by phase,  *)
(* what has been achieved.                                                 *)
(*                                                                         *)
(* The boundary: it has one owner, which the record names; a cancel marker *)
(* never stops an operation that nobody asked to stop; and the files keep  *)
(* the promise of DeployBoundary.                                          *)
(***************************************************************************)
EXTENDS Deployment, OperationLease, TLAPS

\* The phases that follow the generation, and those that follow the playbook.
PostPlay == {"hooks", "vaultwarden", "dns", "hook_verify", "verify", "qa", "cleanup", "prune",
             "commit", "notify", "last"}
PostGen == {"postcheck", "infra", "tofu", "machines", "nodes", "playbook"} \cup PostPlay
RecoverPhases == {"preflight", "nodes", "playbook", "hooks", "hook_verify", "verify", "last"}

Shape ==
    /\ DOMAIN run = {"op", "pc", "kind", "targets", "step", "tries", "made", "left", "ok"}
    /\ run.kind \in {"deploy", "recover"}
    /\ run.pc \in Phases \cup {"idle"}
    /\ run.kind = "recover" => run.pc \in RecoverPhases
    /\ run.targets \subseteq Nodes
    /\ run.op = "free" <=> run.pc = "idle"
    /\ DOMAIN running = Nodes /\ running = [n \in Nodes |-> running[n]]

\* Only workflows that were abandoned leave playbooks behind.
StrayInv == \A s \in stray : s[1] = "playbook" => abandoned

\* What the phases so far have achieved.
Achieved ==
    /\ run.kind = "deploy" /\ run.pc \in PostGen => generated = catalog
    /\ run.pc = "playbook" => run.made = generated
    /\ run.pc = "playbook" /\ ~abandoned =>
          \A n \in run.targets \ run.left : running[n] = generated
    /\ run.pc \in PostPlay /\ ~abandoned => \A n \in run.targets : running[n] = generated

DeployInv == Shape /\ StrayInv /\ Achieved /\ CredentialsOutliveServices

-----------------------------------------------------------------------------
\* No phase of a deployment is reached but from the one before it.
LEMMA DeployOrderFacts ==
    ASSUME NEW p \in DOMAIN DeployOrder
    PROVE  /\ DeployOrder[p] \in Phases
           /\ DeployOrder[p] \in PostGen => p \in PostGen \cup {"generate"}
           /\ DeployOrder[p] \in PostPlay => p \in PostPlay \cup {"playbook"}
           /\ DeployOrder[p] = "playbook" => p = "nodes"
BY DEF DeployOrder, Phases, PostGen, PostPlay

\* The same for a recovery.
LEMMA RecoverOrderFacts ==
    ASSUME NEW p \in DOMAIN RecoverOrder
    PROVE  /\ RecoverOrder[p] \in RecoverPhases
           /\ RecoverOrder[p] \in Phases
           /\ RecoverOrder[p] \in PostPlay => p \in PostPlay \cup {"playbook"}
           /\ RecoverOrder[p] = "playbook" => p = "nodes"
BY DEF DeployOrder, RecoverOrder, RecoverPhases, Phases, PostPlay

\* A workflow that ends with the fleet as it is keeps the invariant, also when
\* it abandons its tools.
LEMMA EndStep ==
    ASSUME DeployInv, NEW step, NEW result, End(step, result), UNCHANGED Fleet,
           UNCHANGED <<stray, abandoned>> \/ Abandon
    PROVE  DeployInv'
<1>1. run'.kind = "deploy" /\ run'.pc = "idle" /\ run'.op = "free" /\ run'.targets = {}
  BY DEF End, Idle
<1>2. Shape'
  BY <1>1 DEF DeployInv, Shape, End, Idle, Fleet
<1>3. abandoned => abandoned'
  BY DEF Abandon
<1>4. StrayInv'
  <2>1. CASE UNCHANGED <<stray, abandoned>>
    BY <2>1 DEF DeployInv, StrayInv
  <2>2. CASE Abandon
    <3>1. ASSUME NEW s \in Tools, s[1] = "playbook" PROVE run.left # {}
      BY <3>1 DEF Tools
    <3> QED
      BY <2>2, <3>1 DEF Abandon, DeployInv, StrayInv
  <2> QED
    BY <2>1, <2>2
<1>5. Achieved'
  BY <1>1 DEF Achieved, PostGen, PostPlay
<1> QED
  BY <1>2, <1>3, <1>4, <1>5 DEF DeployInv, CredentialsOutliveServices, Fleet

\* Entering the next phase keeps it, where the phase left has nothing to add.
LEMMA AdvanceStep ==
    ASSUME DeployInv, NEW step, Advance(step), UNCHANGED <<Fleet, stray, abandoned>>,
           run.pc \notin {"idle", "generate", "nodes", "playbook", "last"}
    PROVE  DeployInv'
<1>1. /\ run'.kind = run.kind /\ run'.pc = After /\ run'.op = run.op
      /\ run'.targets = run.targets /\ DOMAIN run' = DOMAIN run
  BY DEF Advance, DeployInv, Shape
<1>2. CASE run.kind = "deploy"
  <2>1. run.pc \in DOMAIN DeployOrder /\ After = DeployOrder[run.pc]
    BY <1>2 DEF DeployInv, Shape, Phases, After
  <2>2. After \in Phases /\ (After \in PostGen => run.pc \in PostGen)
        /\ (After \in PostPlay => run.pc \in PostPlay) /\ After # "playbook"
    BY <2>1, DeployOrderFacts
  <2>3. Shape'
    BY <1>1, <1>2, <2>1, <2>2 DEF DeployInv, Shape, Fleet, Phases, DeployOrder
  <2>4. Achieved'
    BY <1>1, <2>2 DEF DeployInv, Achieved, Fleet
  <2> QED
    BY <2>3, <2>4 DEF DeployInv, StrayInv, CredentialsOutliveServices, Fleet
<1>3. CASE run.kind = "recover"
  <2>1. run.pc \in DOMAIN RecoverOrder /\ After = RecoverOrder[run.pc]
    BY <1>3 DEF DeployInv, Shape, RecoverPhases, RecoverOrder, After
  <2>2. After \in Phases /\ After \in RecoverPhases
        /\ (After \in PostPlay => run.pc \in PostPlay) /\ After # "playbook"
    BY <2>1, RecoverOrderFacts
  <2>3. Shape'
    BY <1>1, <1>3, <2>1, <2>2 DEF DeployInv, Shape, Fleet, RecoverPhases
  <2>4. Achieved'
    BY <1>1, <1>3, <2>2 DEF DeployInv, Achieved, Fleet
  <2> QED
    BY <2>3, <2>4 DEF DeployInv, StrayInv, CredentialsOutliveServices, Fleet
<1> QED
  BY <1>2, <1>3 DEF DeployInv, Shape

\* The gates and the checks of a deployment, and the ways it ends: each enters
\* the next phase or ends the workflow, and leaves the fleet alone.
LEMMA GateSteps ==
    ASSUME DeployInv,
           \/ Preflight \/ PreDump \/ Postcheck \/ TofuApply \/ MachineSecrets
           \/ Cleanup \/ Notify \/ Return \/ Cancelled
           \/ RecoverPreflight \/ RecoverReturn \/ RecoverCancelled
           \/ InfraTimesOut \/ LogRaises \/ Kill
    PROVE  DeployInv'
<1>1. CASE Preflight
  BY <1>1, EndStep, AdvanceStep DEF Preflight
<1>2. CASE PreDump
  BY <1>2, EndStep, AdvanceStep DEF PreDump
<1>3. CASE Postcheck
  BY <1>3, EndStep, AdvanceStep DEF Postcheck
<1>4. CASE TofuApply
  BY <1>4, EndStep, AdvanceStep DEF TofuApply, InfraFails
<1>5. CASE MachineSecrets
  BY <1>5, EndStep, AdvanceStep DEF MachineSecrets, InfraFails
<1>6. CASE Cleanup
  BY <1>6, AdvanceStep DEF Cleanup
<1>7. CASE Notify
  BY <1>7, AdvanceStep DEF Notify
<1>8. CASE Return
  BY <1>8, EndStep DEF Return
<1>9. CASE Cancelled
  BY <1>9, EndStep DEF Cancelled
<1>10. CASE RecoverPreflight
  BY <1>10, EndStep, AdvanceStep DEF RecoverPreflight
<1>11. CASE RecoverReturn
  BY <1>11, EndStep DEF RecoverReturn
<1>12. CASE RecoverCancelled
  BY <1>12, EndStep DEF RecoverCancelled
<1>13. CASE InfraTimesOut
  BY <1>13, EndStep DEF InfraTimesOut, InfraFails
<1>14. CASE LogRaises
  BY <1>14, EndStep DEF LogRaises
<1>15. CASE Kill
  BY <1>15, EndStep DEF Kill
<1> QED
  BY <1>1, <1>2, <1>3, <1>4, <1>5, <1>6, <1>7, <1>8, <1>9, <1>10, <1>11, <1>12, <1>13, <1>14, <1>15

\* A check records its outcome and goes on, or is made again.
LEMMA CheckSteps ==
    ASSUME DeployInv, NEW k, NEW p, NEW n,
           p \notin {"idle", "generate", "nodes", "playbook", "last"},
           Outcome(k, p) \/ Again(k, p, n)
    PROVE  DeployInv'
<1>1. CASE Outcome(k, p)
  BY <1>1, AdvanceStep DEF Outcome
<1>2. CASE Again(k, p, n)
  <2>1. /\ run'.kind = run.kind /\ run'.pc = run.pc /\ run'.op = run.op /\ run'.made = run.made
        /\ run'.targets = run.targets /\ run'.left = run.left /\ DOMAIN run' = DOMAIN run
        /\ UNCHANGED <<Fleet, stray, abandoned>>
    BY <1>2 DEF Again, DeployInv, Shape
  <2> QED
    BY <2>1 DEF DeployInv, Shape, StrayInv, Achieved, CredentialsOutliveServices, Fleet
<1> QED
  BY <1>1, <1>2

\* Provisioning that is left out jumps over OpenTofu.
LEMMA HostSetupStep == DeployInv /\ HostSetup => DeployInv'
<1> SUFFICES ASSUME DeployInv, HostSetup PROVE DeployInv'
  OBVIOUS
<1>1. UNCHANGED <<Fleet, stray, abandoned>> /\ run.pc = "infra"
  BY DEF HostSetup
<1>2. ASSUME run' = [run EXCEPT !.pc = "machines", !.step["infra"] = "ok"] PROVE DeployInv'
  <2>1. /\ run'.kind = run.kind /\ run'.pc = "machines" /\ run'.op = run.op
        /\ run'.targets = run.targets /\ DOMAIN run' = DOMAIN run
    BY <1>2 DEF DeployInv, Shape
  <2>2. run.kind = "deploy"
    BY <1>1 DEF DeployInv, Shape, RecoverPhases
  <2> QED
    BY <1>1, <2>1, <2>2
    DEF DeployInv, Shape, StrayInv, Achieved, CredentialsOutliveServices, Fleet, Phases, DeployOrder,
        PostGen, PostPlay
<1> QED
  BY <1>1, <1>2, EndStep, AdvanceStep DEF HostSetup, InfraFails

\* Begin starts a workflow that has achieved nothing yet.
LEMMA BeginStep ==
    ASSUME DeployInv, NEW d \in Ops, NEW k \in {"deploy", "recover"}, NEW T \in SUBSET Nodes,
           Begin(d, k, T)
    PROVE  DeployInv'
<1>1. /\ run'.kind = k /\ run'.pc = "preflight" /\ run'.op = d /\ run'.targets = T
      /\ DOMAIN run' = {"op", "pc", "kind", "targets", "step", "tries", "made", "left", "ok"}
      /\ UNCHANGED <<Fleet, stray, abandoned>>
  BY DEF Begin, Idle
<1> QED
  BY <1>1
  DEF DeployInv, Shape, StrayInv, Achieved, CredentialsOutliveServices, Fleet, Phases, DeployOrder,
      PostGen, PostPlay, RecoverPhases, Ops

\* Generate writes artifacts and credentials together, whatever comes of them.
LEMMA GenerateStep == DeployInv /\ Generate => DeployInv'
<1> SUFFICES ASSUME DeployInv, Generate PROVE DeployInv'
  OBVIOUS
<1>1. /\ run.pc = "generate" /\ run.kind = "deploy"
      /\ UNCHANGED <<catalog, running, ledger, stray, abandoned>>
  BY DEF Generate, DeployInv, Shape, RecoverPhases
<1>2. CASE UNCHANGED <<generated, creds>> /\ End([run.step EXCEPT !["generate"] = "fail"], "fail")
  BY <1>1, <1>2, EndStep DEF Fleet
<1>3. CASE generated' = catalog /\ creds' = creds \cup catalog
  <2>1. CredentialsOutliveServices'
    BY <1>1, <1>3 DEF DeployInv, CredentialsOutliveServices
  <2>2. StrayInv'
    BY <1>1 DEF DeployInv, StrayInv
  <2>3. CASE Advance([run.step EXCEPT !["generate"] = "ok"])
    <3>1. After = "postcheck"
      BY <1>1 DEF After, DeployOrder
    <3>2. /\ run'.kind = "deploy" /\ run'.pc = "postcheck" /\ run'.op = run.op
          /\ run'.targets = run.targets /\ DOMAIN run' = DOMAIN run
      BY <1>1, <2>3, <3>1 DEF Advance, DeployInv, Shape
    <3>3. Shape'
      BY <1>1, <3>2 DEF DeployInv, Shape, Phases, DeployOrder
    <3>4. Achieved'
      BY <1>1, <1>3, <3>2 DEF Achieved, PostPlay
    <3> QED
      BY <2>1, <2>2, <3>3, <3>4 DEF DeployInv
  <2>4. CASE End([run.step EXCEPT !["generate"] = "fail"], "fail")
    <3>1. /\ run'.kind = "deploy" /\ run'.pc = "idle" /\ run'.op = "free" /\ run'.targets = {}
      BY <2>4 DEF End, Idle
    <3>2. Shape'
      BY <1>1, <2>4, <3>1 DEF DeployInv, Shape, End, Idle
    <3>3. Achieved'
      BY <3>1 DEF Achieved, PostGen, PostPlay
    <3> QED
      BY <2>1, <2>2, <3>2, <3>3 DEF DeployInv
  <2> QED
    BY <1>3, <2>3, <2>4, <1>1 DEF Generate
<1> QED
  BY <1>2, <1>3 DEF Generate

\* The playbook works with the artifacts on disk.
LEMMA NodesStep == DeployInv /\ (DeployNodes \/ RecoverNodes) => DeployInv'
<1> SUFFICES ASSUME DeployInv, DeployNodes \/ RecoverNodes PROVE DeployInv'
  OBVIOUS
<1>1. UNCHANGED <<Fleet, stray, abandoned>> /\ run.pc = "nodes"
  BY DEF DeployNodes, RecoverNodes
<1>2. CASE StartPlaybook
  <2>1. /\ run'.kind = run.kind /\ run'.pc = "playbook" /\ run'.op = run.op
        /\ run'.targets = run.targets /\ run'.left = run.targets /\ run'.made = generated
        /\ DOMAIN run' = DOMAIN run
    BY <1>2 DEF StartPlaybook, DeployInv, Shape
  <2> QED
    BY <1>1, <2>1
    DEF DeployInv, Shape, StrayInv, Achieved, CredentialsOutliveServices, Fleet, Phases, DeployOrder,
        PostGen, PostPlay, RecoverPhases
<1> QED
  BY <1>1, <1>2, EndStep DEF DeployNodes, RecoverNodes

\* A node reached by the playbook runs what was generated.
LEMMA ApplyStep == ASSUME DeployInv, NEW n \in Nodes, Apply(n) PROVE DeployInv'
<1>1. /\ run.pc = "playbook" /\ running' = [running EXCEPT ![n] = generated]
      /\ UNCHANGED <<catalog, generated, creds, ledger, stray, abandoned>>
  BY DEF Apply, DeployInv, Achieved
<1>2. /\ run'.kind = run.kind /\ run'.pc = run.pc /\ run'.op = run.op /\ run'.made = run.made
      /\ run'.targets = run.targets /\ run'.left = run.left \ {n} /\ DOMAIN run' = DOMAIN run
  BY DEF Apply, DeployInv, Shape
<1>3. running'[n] = generated /\ \A m \in Nodes \ {n} : running'[m] = running[m]
  BY <1>1 DEF DeployInv, Shape
<1>4. Shape'
  BY <1>1, <1>2 DEF DeployInv, Shape
<1>5. Achieved'
  BY <1>1, <1>2, <1>3 DEF DeployInv, Shape, Achieved, PostPlay
<1>6. CredentialsOutliveServices'
  BY <1>1, <1>3 DEF DeployInv, CredentialsOutliveServices
<1> QED
  BY <1>1, <1>4, <1>5, <1>6 DEF DeployInv, StrayInv

\* The playbook returned: the later phases are entered with every node done.
LEMMA PlaybookStep == DeployInv /\ (PlaybookReturns \/ RecoverPlaybookReturns) => DeployInv'
<1> SUFFICES ASSUME DeployInv, PlaybookReturns \/ RecoverPlaybookReturns PROVE DeployInv'
  OBVIOUS
<1>1. UNCHANGED <<Fleet, stray, abandoned>> /\ run.pc = "playbook"
  BY DEF PlaybookReturns, RecoverPlaybookReturns
<1>2. CASE NodesDone
  <2>1. /\ run'.kind = run.kind /\ run'.pc = "hooks" /\ run'.op = run.op /\ run.left = {}
        /\ run'.targets = run.targets /\ DOMAIN run' = DOMAIN run
    BY <1>2 DEF NodesDone, DeployInv, Shape
  <2> QED
    BY <1>1, <2>1
    DEF DeployInv, Shape, StrayInv, Achieved, CredentialsOutliveServices, Fleet, Phases, DeployOrder,
        PostGen, PostPlay, RecoverPhases
<1> QED
  BY <1>1, <1>2, EndStep DEF PlaybookReturns, RecoverPlaybookReturns

\* Pruning happens after a full, successful deployment of the catalog, so
\* nothing that is gone from the catalog runs anywhere.
LEMMA PruneStep == DeployInv /\ Prune => DeployInv'
<1> SUFFICES ASSUME DeployInv, Prune PROVE DeployInv'
  OBVIOUS
<1>1. /\ run.pc = "prune" /\ run.kind = "deploy" /\ After = "commit"
      /\ UNCHANGED <<catalog, generated, running, ledger, stray, abandoned>>
  BY DEF Prune, DeployInv, Shape, RecoverPhases, After, DeployOrder
<1>2. /\ run'.kind = run.kind /\ run'.pc = "commit" /\ run'.op = run.op
      /\ run'.targets = run.targets /\ DOMAIN run' = DOMAIN run
  BY <1>1 DEF Prune, Advance, DeployInv, Shape
<1>3. Shape'
  BY <1>1, <1>2 DEF DeployInv, Shape, Phases, DeployOrder
<1>4. Achieved'
  BY <1>1, <1>2 DEF DeployInv, Achieved, PostGen, PostPlay
<1>5. CredentialsOutliveServices'
  <2>1. CASE OwnsFleet
    <3>1. ASSUME ~abandoned PROVE generated = catalog /\ \A n \in Nodes : running[n] = catalog
      BY <1>1, <2>1, <3>1 DEF OwnsFleet, DeployInv, Achieved, PostGen, PostPlay
    <3> QED
      BY <1>1, <2>1, <3>1 DEF Prune, DeployInv, CredentialsOutliveServices
  <2>2. CASE ~OwnsFleet
    BY <1>1, <2>2 DEF Prune, DeployInv, CredentialsOutliveServices
  <2> QED
    BY <2>1, <2>2
<1> QED
  BY <1>1, <1>3, <1>4, <1>5 DEF DeployInv, StrayInv

\* The ledger plays no part in the invariant.
LEMMA CommitStep == DeployInv /\ Commit => DeployInv'
<1> SUFFICES ASSUME DeployInv, Commit PROVE DeployInv'
  OBVIOUS
<1>1. /\ run.pc = "commit" /\ run.kind = "deploy" /\ After = "notify"
      /\ UNCHANGED <<catalog, generated, running, creds, stray, abandoned>>
  BY DEF Commit, DeployInv, Shape, RecoverPhases, After, DeployOrder
<1>2. /\ run'.kind = run.kind /\ run'.pc = "notify" /\ run'.op = run.op
      /\ run'.targets = run.targets /\ DOMAIN run' = DOMAIN run
  BY <1>1 DEF Commit, Advance, DeployInv, Shape
<1> QED
  BY <1>1, <1>2
  DEF DeployInv, Shape, StrayInv, Achieved, CredentialsOutliveServices, Phases, DeployOrder,
      PostGen, PostPlay

\* What goes on beside the workflows.
LEMMA OutsideSteps ==
    ASSUME DeployInv,
           \/ RequestCancel
           \/ \E S \in SUBSET Services : ChangeCatalog(S)
           \/ \E s \in stray : StrayApplies(s)
           \/ UNCHANGED deploymentVars
    PROVE  DeployInv'
<1>1. CASE RequestCancel \/ UNCHANGED deploymentVars
  BY <1>1
  DEF RequestCancel, deploymentVars, DeployInv, Shape, StrayInv, Achieved,
      CredentialsOutliveServices, Fleet
<1>2. ASSUME NEW S \in SUBSET Services, ChangeCatalog(S) PROVE DeployInv'
  <2>1. /\ run.pc = "idle"
        /\ UNCHANGED <<generated, running, creds, ledger, run, stray, abandoned>>
    BY <1>2 DEF ChangeCatalog, DeployInv, Shape
  <2> QED
    BY <2>1
    DEF DeployInv, Shape, StrayInv, Achieved, CredentialsOutliveServices, PostGen, PostPlay
<1>3. ASSUME NEW s \in stray, StrayApplies(s) PROVE DeployInv'
  <2>1. /\ stray' \subseteq stray /\ UNCHANGED <<catalog, generated, creds, ledger, run, abandoned>>
        /\ UNCHANGED running \/ (abandoned /\ running' = [running EXCEPT ![s[2]] = s[3]])
    BY <1>3 DEF StrayApplies, DeployInv, StrayInv
  <2>2. Shape'
    BY <2>1 DEF DeployInv, Shape
  <2> QED
    BY <2>1, <2>2 DEF DeployInv, StrayInv, Achieved, CredentialsOutliveServices
<1> QED
  BY <1>1, <1>2, <1>3

\* The invariant holds throughout.
THEOREM DeployInvariant == Spec => []DeployInv
<1>1. Init => DeployInv
  BY DEF Init, Idle, DeployInv, Shape, StrayInv, Achieved, CredentialsOutliveServices, PostGen, PostPlay
<1>2. DeployInv /\ [Next]_deploymentVars => DeployInv'
  <2> SUFFICES ASSUME DeployInv, [Next]_deploymentVars PROVE DeployInv'
    OBVIOUS
  <2>1. ASSUME \/ RunHooks \/ SyncVaultwarden \/ UpdateDns \/ VerifyHooks \/ VerifyContainers \/ RunQa
               \/ RecoverHooks \/ RecoverVerifyHooks \/ RecoverVerify
        PROVE  DeployInv'
    BY <2>1, CheckSteps
    DEF RunHooks, SyncVaultwarden, UpdateDns, VerifyHooks, VerifyContainers, RunQa,
        RecoverHooks, RecoverVerifyHooks, RecoverVerify
  <2> QED
    BY <2>1, GateSteps, HostSetupStep, BeginStep, GenerateStep, NodesStep, ApplyStep, PlaybookStep,
       PruneStep, CommitStep, OutsideSteps
    DEF Next
<1> QED
  BY <1>1, <1>2, PTL DEF Spec

\* No failed, cancelled, partial or killed deployment or recovery leaves a
\* node with a service whose credentials were pruned (commit_ownership_ledger
\* after run_deploy_workflow's all_success).
THEOREM CredentialsKept == Spec => []CredentialsOutliveServices
BY DeployInvariant, PTL DEF DeployInv

\* The ownership ledger only ever changes to what a verified deployment put
\* on every node.
THEOREM LedgerFollowsFleet == Spec => LedgerIsDeployed
<1>1. DeployInv /\ [Next]_deploymentVars =>
          [ledger' # ledger /\ ~abandoned => \A n \in Nodes : running[n] = ledger']_deploymentVars
  <2> SUFFICES ASSUME DeployInv, Next, ledger' # ledger, ~abandoned
               PROVE  \A n \in Nodes : running[n] = ledger'
    BY DEF deploymentVars
  <2>1. Commit
    BY DEF Next, Fleet, RequestCancel, ChangeCatalog, StrayApplies, Begin, Preflight, PreDump, Generate,
           Postcheck, HostSetup, TofuApply, MachineSecrets, DeployNodes, Apply, PlaybookReturns,
           RunHooks, SyncVaultwarden, UpdateDns, VerifyHooks, VerifyContainers, RunQa, Outcome, Again,
           Cleanup, Prune, Notify, Return, Cancelled, RecoverPreflight, RecoverNodes,
           RecoverPlaybookReturns, RecoverHooks, RecoverVerifyHooks, RecoverVerify, RecoverReturn,
           RecoverCancelled, InfraTimesOut, LogRaises, Kill
  <2>2. OwnsFleet /\ ledger' = catalog /\ run.pc = "commit" /\ run.kind = "deploy"
    BY <2>1 DEF Commit, DeployInv, Shape, RecoverPhases
  <2> QED
    BY <2>2 DEF OwnsFleet, DeployInv, Achieved, PostGen, PostPlay
<1> QED
  BY <1>1, DeployInvariant, PTL DEF Spec, LedgerIsDeployed

\* A deployment or recovery that reports success has put the generated
\* artifacts on every node it was asked for.
THEOREM SuccessMeansConverged == Spec => SuccessIsConverged
<1>1. DeployInv /\ [Next]_deploymentVars =>
          [report'.result = "ok" /\ report.result = "none" /\ ~abandoned
             => \A n \in run.targets : running[n] = generated]_deploymentVars
  <2> SUFFICES ASSUME DeployInv, Next, report'.result = "ok", report.result = "none", ~abandoned
               PROVE  \A n \in run.targets : running[n] = generated
    BY DEF deploymentVars
  <2>1. ASSUME NEW step, NEW result, End(step, result) PROVE result = "ok"
    BY <2>1 DEF End
  <2>2. report' # report /\ report'.result # NoReport.result
    BY DEF NoReport
  <2>3. Return \/ RecoverReturn
    BY <2>1, <2>2
       DEF Next, Lease, RequestCancel, ChangeCatalog, StrayApplies, Begin, Preflight, PreDump, Generate,
           Postcheck, HostSetup, TofuApply, MachineSecrets, DeployNodes, StartPlaybook, NodesDone, Apply,
           PlaybookReturns, InfraFails,
           RunHooks, SyncVaultwarden, UpdateDns, VerifyHooks, VerifyContainers, RunQa, Outcome, Again,
           Cleanup, Prune, Commit, Notify, Cancelled, RecoverPreflight, RecoverNodes,
           RecoverPlaybookReturns, RecoverHooks, RecoverVerifyHooks, RecoverVerify,
           RecoverCancelled, InfraTimesOut, LogRaises, Kill
  <2> QED
    BY <2>3 DEF Return, RecoverReturn, DeployInv, Achieved, PostPlay
<1> QED
  BY <1>1, DeployInvariant, PTL DEF Spec, SuccessIsConverged

-----------------------------------------------------------------------------
(* StepsAreSettled speaks of the report; which steps it leaves running is  *)
(* decided by the phase the workflow ends in.  SettleInv says which steps  *)
(* may be running in each phase.                                           *)

Statuses == {"pending", "running", "ok", "fail", "skip"}

\* The steps an earlier phase leaves running for phase p to finish.
Leftover(p) ==
    IF p \in {"pre_dump", "generate", "postcheck"} THEN {"preflight"}
    ELSE IF p = "tofu" THEN {"infra"} ELSE {}

\* The steps that may be running in phase p.
MayRun(p, T) ==
    Leftover(p) \cup (IF p \in {"nodes", "playbook"} THEN T ELSE IF p \in Steps THEN {p} ELSE {})

\* Of the steps of step, only those of S are running.
OnlyRun(step, S) == \A s \in DOMAIN step : step[s] = "running" => s \in S

FleetOK ==
    /\ catalog \subseteq Services /\ generated \subseteq Services
    /\ creds \subseteq Services /\ ledger \subseteq Services
    /\ running \in [Nodes -> SUBSET Services]

StrayOK ==
    stray \subseteq ({"playbook"} \X Nodes \X SUBSET Services) \cup ({"tofu"} \X (SUBSET Nodes) \X {{}})

RunOK ==
    /\ run.op \in Ops \cup {"free"}
    /\ run.left \subseteq run.targets /\ run.made \subseteq Services
    /\ run.step \in [Steps \cup run.targets -> Statuses]
    /\ OnlyRun(run.step, MayRun(run.pc, run.targets))
    /\ run.pc = "nodes" => \A s \in run.targets : run.step[s] = "running"
    /\ cancel => run.op # "free"

\* What a workflow may report of its steps: no step running, but for
\* preflight when a gate between its two halves failed, or exactly those of
\* the nodes.
Reported(step) ==
    OnlyRun(step, IF "fail" \in {step["pre_dump"], step["generate"]} THEN {"preflight"} ELSE {})

Unplayed(step) == NoPlaybook(step) /\ OnlyRun(step, DOMAIN step \ Steps)

ReportOK ==
    report.result \in {"ok", "fail", "cancelled"} =>
        Reported(report.step) \/ (report.result = "fail" /\ Unplayed(report.step))

SettleInv == FleetOK /\ StrayOK /\ RunOK /\ ReportOK

\* Which steps run after a step is set, or all are settled.
LEMMA StepFacts ==
    ASSUME NEW T, NEW step \in [Steps \cup T -> Statuses], NEW R, OnlyRun(step, R)
    PROVE  /\ \A p \in Steps, v \in Statuses \ {"running"} :
                 /\ [step EXCEPT ![p] = v] \in [Steps \cup T -> Statuses]
                 /\ OnlyRun([step EXCEPT ![p] = v], R \ {p})
           /\ Settled(step) \in [Steps \cup T -> Statuses]
           /\ OnlyRun(Settled(step), {})
<1>1. ASSUME NEW p \in Steps, NEW v \in Statuses \ {"running"}
      PROVE  /\ [step EXCEPT ![p] = v] \in [Steps \cup T -> Statuses]
             /\ OnlyRun([step EXCEPT ![p] = v], R \ {p})
  <2>1. [step EXCEPT ![p] = v] \in [Steps \cup T -> Statuses]
    OBVIOUS
  <2>2. \A s \in Steps \cup T : [step EXCEPT ![p] = v][s] = IF s = p THEN v ELSE step[s]
    OBVIOUS
  <2> QED
    BY <2>1, <2>2 DEF OnlyRun
<1>2. Settled(step) \in [Steps \cup T -> Statuses] /\ OnlyRun(Settled(step), {})
  BY DEF Settled, OnlyRun, Statuses
<1> QED
  BY <1>1, <1>2

\* The steps of S are no longer running once they are marked otherwise.
LEMMA MarkFacts ==
    ASSUME NEW T, NEW step \in [Steps \cup T -> Statuses], NEW R, OnlyRun(step, R),
           NEW S, NEW v \in {"ok", "fail", "skip"}
    PROVE  /\ Marked(step, S, v) \in [Steps \cup T -> Statuses]
           /\ OnlyRun(Marked(step, S, v), R \ S)
BY DEF Marked, OnlyRun, Statuses

\* Entering a phase sets its own step running and leaves the others.
LEMMA EnterFacts ==
    ASSUME NEW T, NEW step \in [Steps \cup T -> Statuses], NEW p, OnlyRun(step, Leftover(p))
    PROVE  /\ Enter(step, p, T) \in [Steps \cup T -> Statuses]
           /\ OnlyRun(Enter(step, p, T), MayRun(p, T))
           /\ p = "nodes" => \A s \in T : Enter(step, p, T)[s] = "running"
<1>1. CASE p = "nodes"
  <2>1. Enter(step, p, T) = [s \in Steps \cup T |-> IF s \in T THEN "running" ELSE step[s]]
    BY <1>1 DEF Enter
  <2> QED
    BY <1>1, <2>1 DEF OnlyRun, MayRun, Statuses
<1>2. CASE p # "nodes" /\ p \in Steps
  <2>1. Enter(step, p, T) = [step EXCEPT ![p] = "running"]
    BY <1>2 DEF Enter
  <2>2. "running" \in Statuses /\ p \in MayRun(p, T)
    BY <1>2 DEF Statuses, MayRun, Steps
  <2>3. \A s \in Steps \cup T : Enter(step, p, T)[s] = IF s = p THEN "running" ELSE step[s]
    BY <2>1
  <2> QED
    BY <1>2, <2>1, <2>2, <2>3 DEF OnlyRun, MayRun
<1>3. CASE p # "nodes" /\ p \notin Steps
  BY <1>3 DEF Enter, OnlyRun, MayRun
<1> QED
  BY <1>1, <1>2, <1>3

\* A workflow that goes on with the next phase.
LEMMA RunAdvances ==
    ASSUME Shape, RunOK, NEW step \in [Steps \cup run.targets -> Statuses], Advance(step),
           OnlyRun(step, Leftover(After)), UNCHANGED cancel
    PROVE  RunOK'
<1>1. /\ run'.op = run.op /\ run'.pc = After /\ run'.targets = run.targets
      /\ run'.left = run.left /\ run'.made = run.made
      /\ run'.step = Enter(step, After, run.targets)
  BY DEF Shape, Advance
<1>2. /\ Enter(step, After, run.targets) \in [Steps \cup run.targets -> Statuses]
      /\ OnlyRun(Enter(step, After, run.targets), MayRun(After, run.targets))
      /\ After = "nodes" => \A s \in run.targets : Enter(step, After, run.targets)[s] = "running"
  BY EnterFacts
<1> QED
  BY <1>1, <1>2 DEF RunOK

\* A workflow that ends.
LEMMA RunEnds ==
    ASSUME NEW step, NEW result, End(step, result),
           result \in {"ok", "fail", "cancelled"} =>
               Reported(step) \/ (result = "fail" /\ Unplayed(step))
    PROVE  RunOK' /\ ReportOK'
<1>1. /\ run'.op = "free" /\ run'.pc = "idle" /\ run'.targets = {} /\ run'.left = {} /\ run'.made = {}
      /\ run'.step = [s \in Steps \cup {} |-> "pending"] /\ cancel' = FALSE
  BY DEF End, Idle, Pending
<1>2. RunOK'
  BY <1>1 DEF RunOK, OnlyRun, Statuses
<1>3. ReportOK'
  BY DEF End, ReportOK
<1> QED
  BY <1>2, <1>3

\* Steps none of which runs may be reported.
LEMMA QuietReport ==
    ASSUME NEW step, OnlyRun(step, {})
    PROVE  Reported(step)
BY DEF OnlyRun, Reported

\* Setting a step of the workflow.
LEMMA PutFacts ==
    ASSUME RunOK, NEW p \in Steps, NEW v \in Statuses \ {"running"}
    PROVE  /\ [run.step EXCEPT ![p] = v] \in [Steps \cup run.targets -> Statuses]
           /\ OnlyRun([run.step EXCEPT ![p] = v], MayRun(run.pc, run.targets) \ {p})
<1> DEFINE T == run.targets
           R == MayRun(run.pc, run.targets)
<1>1. run.step \in [Steps \cup T -> Statuses] /\ OnlyRun(run.step, R)
  BY DEF RunOK
<1> HIDE DEF T, R
<1>2. /\ [run.step EXCEPT ![p] = v] \in [Steps \cup T -> Statuses]
      /\ OnlyRun([run.step EXCEPT ![p] = v], R \ {p})
  BY <1>1, StepFacts
<1> QED
  BY <1>2 DEF T, R

\* A phase sets the step it answers for and goes on with the next one.
LEMMA PutAdvances ==
    ASSUME Shape, RunOK, ReportOK, NEW p \in Steps, NEW v \in {"ok", "fail"},
           Advance([run.step EXCEPT ![p] = v]), UNCHANGED Lease,
           MayRun(run.pc, run.targets) \ {p} \subseteq Leftover(After)
    PROVE  RunOK' /\ ReportOK'
<1> DEFINE step == [run.step EXCEPT ![p] = v]
<1>1. /\ step \in [Steps \cup run.targets -> Statuses]
      /\ OnlyRun(step, MayRun(run.pc, run.targets) \ {p})
  <2>1. v \in Statuses \ {"running"}
    BY DEF Statuses
  <2> QED
    BY <2>1, PutFacts
<1>2. OnlyRun(step, Leftover(After))
  BY <1>1 DEF OnlyRun
<1>3. RunOK'
  BY <1>1, <1>2, RunAdvances DEF Lease
<1> QED
  BY <1>3 DEF ReportOK, Lease

\* A gate that fails ends the workflow with its step set.
LEMMA PutEnds ==
    ASSUME RunOK, NEW p \in Steps, End([run.step EXCEPT ![p] = "fail"], "fail"),
           MayRun(run.pc, run.targets) \ {p} \subseteq
               (IF p \in {"pre_dump", "generate"} THEN {"preflight"} ELSE {})
    PROVE  RunOK' /\ ReportOK'
<1> DEFINE step == [run.step EXCEPT ![p] = "fail"]
<1>1. /\ step \in [Steps \cup run.targets -> Statuses]
      /\ OnlyRun(step, MayRun(run.pc, run.targets) \ {p})
  <2>1. "fail" \in Statuses \ {"running"}
    BY DEF Statuses
  <2> QED
    BY <2>1, PutFacts
<1>2. step[p] = "fail"
  BY DEF RunOK
<1>3. OnlyRun(step, IF "fail" \in {step["pre_dump"], step["generate"]} THEN {"preflight"} ELSE {})
  BY <1>1, <1>2 DEF OnlyRun
<1> QED
  BY <1>3, RunEnds DEF Reported

\* The gates: preflight, dump, generation, provisioning.
LEMMA GatesSettle ==
    ASSUME Shape, RunOK, ReportOK,
           \/ Preflight \/ PreDump \/ Generate \/ Postcheck \/ TofuApply \/ MachineSecrets \/ HostSetup
    PROVE  RunOK' /\ ReportOK'
<1>1. CASE Preflight
  <2>1. After = "pre_dump" /\ MayRun(run.pc, run.targets) = {"preflight"}
    BY <1>1 DEF Preflight, After, DeployOrder, MayRun, Leftover, Steps
  <2>2. CASE Advance(run.step) /\ UNCHANGED Lease
    <3>1. OnlyRun(run.step, Leftover(After)) /\ run.step \in [Steps \cup run.targets -> Statuses]
      BY <2>1 DEF RunOK, Leftover
    <3> QED
      BY <2>2, <3>1, RunAdvances DEF Lease, ReportOK
  <2>3. CASE End([run.step EXCEPT !["preflight"] = "fail"], "fail")
    BY <2>1, <2>3, PutEnds DEF Steps
  <2> QED
    BY <1>1, <2>2, <2>3 DEF Preflight
<1>2. CASE PreDump
  <2>1. /\ After = "generate" /\ MayRun(run.pc, run.targets) = {"preflight", "pre_dump"}
    BY <1>2 DEF PreDump, Shape, RecoverPhases, After, DeployOrder, MayRun, Leftover, Steps
  <2>2. Leftover(After) = {"preflight"} /\ "pre_dump" \in Steps
    BY <2>1 DEF Leftover, Steps
  <2> QED
    BY <1>2, <2>1, <2>2, PutAdvances, PutEnds DEF PreDump
<1>3. CASE Generate
  <2>1. /\ After = "postcheck" /\ MayRun(run.pc, run.targets) = {"preflight", "generate"}
    BY <1>3 DEF Generate, Shape, RecoverPhases, After, DeployOrder, MayRun, Leftover, Steps
  <2>2. Leftover(After) = {"preflight"} /\ "generate" \in Steps
    BY <2>1 DEF Leftover, Steps
  <2> QED
    BY <1>3, <2>1, <2>2, PutAdvances, PutEnds DEF Generate
<1>4. CASE Postcheck
  <2>1. /\ After = "infra" /\ MayRun(run.pc, run.targets) = {"preflight"} /\ "preflight" \in Steps
    BY <1>4 DEF Postcheck, Shape, RecoverPhases, After, DeployOrder, MayRun, Leftover, Steps
  <2> QED
    BY <1>4, <2>1, PutAdvances, PutEnds DEF Postcheck
<1>5. CASE TofuApply
  <2>1. /\ After = "machines" /\ MayRun(run.pc, run.targets) = {"infra"} /\ "infra" \in Steps
    BY <1>5 DEF TofuApply, Shape, RecoverPhases, After, DeployOrder, MayRun, Leftover, Steps
  <2> QED
    BY <1>5, <2>1, PutAdvances, PutEnds DEF TofuApply, InfraFails
<1>6. CASE MachineSecrets
  <2>1. /\ After = "nodes" /\ MayRun(run.pc, run.targets) = {} /\ "infra" \in Steps
    BY <1>6 DEF MachineSecrets, Shape, RecoverPhases, After, DeployOrder, MayRun, Leftover, Steps
  <2>2. CASE Advance(run.step) /\ UNCHANGED Lease
    <3>1. OnlyRun(run.step, Leftover(After)) /\ run.step \in [Steps \cup run.targets -> Statuses]
      BY <2>1 DEF RunOK, OnlyRun
    <3> QED
      BY <2>2, <3>1, RunAdvances DEF Lease, ReportOK
  <2> QED
    BY <1>6, <2>1, <2>2, PutEnds DEF MachineSecrets, InfraFails
<1>7. CASE HostSetup
  <2>1. /\ After = "tofu" /\ MayRun(run.pc, run.targets) = {"infra"} /\ "infra" \in Steps
    BY <1>7 DEF HostSetup, Shape, RecoverPhases, After, DeployOrder, MayRun, Leftover, Steps
  <2>2. CASE Advance(run.step) /\ UNCHANGED Lease
    <3>1. OnlyRun(run.step, Leftover(After)) /\ run.step \in [Steps \cup run.targets -> Statuses]
      BY <2>1 DEF RunOK, Leftover
    <3> QED
      BY <2>2, <3>1, RunAdvances DEF Lease, ReportOK
  <2>3. CASE run' = [run EXCEPT !.pc = "machines", !.step["infra"] = "ok"] /\ UNCHANGED Lease
    <3>1. /\ run'.op = run.op /\ run'.pc = "machines" /\ run'.targets = run.targets
          /\ run'.left = run.left /\ run'.made = run.made
          /\ run'.step = [run.step EXCEPT !["infra"] = "ok"]
      BY <2>3 DEF Shape
    <3>2. /\ [run.step EXCEPT !["infra"] = "ok"] \in [Steps \cup run.targets -> Statuses]
          /\ OnlyRun([run.step EXCEPT !["infra"] = "ok"], MayRun(run.pc, run.targets) \ {"infra"})
      BY <2>1, StepFacts DEF RunOK, Statuses
    <3>3. OnlyRun([run.step EXCEPT !["infra"] = "ok"], MayRun("machines", run.targets))
      BY <2>1, <3>2 DEF OnlyRun
    <3> QED
      BY <2>3, <3>1, <3>2, <3>3 DEF RunOK, ReportOK, Lease
  <2> QED
    BY <1>7, <2>1, <2>2, <2>3, PutEnds DEF HostSetup, InfraFails
<1> QED
  BY <1>1, <1>2, <1>3, <1>4, <1>5, <1>6, <1>7

\* Marking every target and ending, when only targets run.
LEMMA NodesFail ==
    ASSUME RunOK, MayRun(run.pc, run.targets) = run.targets, NEW step, NEW S,
           NEW v \in {"ok", "fail", "skip"}, NEW w \in {"ok", "fail", "skip"},
           LET failed == Marked(Marked(run.step, run.targets, v), S, w)
           IN  step = failed \/ step = SkipRemaining(failed),
           End(step, "fail")
    PROVE  RunOK' /\ ReportOK'
<1> DEFINE one == Marked(run.step, run.targets, v)
           failed == Marked(one, S, w)
<1>1. one \in [Steps \cup run.targets -> Statuses] /\ OnlyRun(one, run.targets \ run.targets)
  <2>1. run.step \in [Steps \cup run.targets -> Statuses] /\ OnlyRun(run.step, run.targets)
    BY DEF RunOK
  <2> QED
    BY <2>1, MarkFacts
<1>2. failed \in [Steps \cup run.targets -> Statuses] /\ OnlyRun(failed, (run.targets \ run.targets) \ S)
  <2> HIDE DEF one
  <2> QED
    BY <1>1, MarkFacts
<1> HIDE DEF failed
<1>3. OnlyRun(failed, {})
  BY <1>2 DEF OnlyRun
<1>4. OnlyRun(SkipRemaining(failed), {})
  <2> DEFINE skipped == IF run.kind = "deploy" THEN PostDeploySkip ELSE {"hooks", "hook_verify", "verify"}
  <2>1. OnlyRun(Marked(failed, skipped, "skip"), {} \ skipped)
    BY <1>2, <1>3, MarkFacts
  <2> QED
    BY <2>1 DEF SkipRemaining, OnlyRun
<1> QED
  BY <1>3, <1>4, QuietReport, RunEnds DEF failed

\* The node phases.
LEMMA NodesSettle ==
    ASSUME Shape, RunOK, ReportOK, FleetOK,
           DeployNodes \/ RecoverNodes \/ PlaybookReturns \/ RecoverPlaybookReturns
           \/ \E n \in Nodes : Apply(n)
    PROVE  RunOK' /\ ReportOK'
<1>1. MayRun(run.pc, run.targets) = run.targets /\ run.pc \in {"nodes", "playbook"}
  BY DEF DeployNodes, RecoverNodes, PlaybookReturns, RecoverPlaybookReturns, Apply, MayRun, Leftover
<1>2. CASE StartPlaybook
  <2>1. /\ run'.op = run.op /\ run'.pc = "playbook" /\ run'.targets = run.targets
        /\ run'.left = run.targets /\ run'.made = generated /\ run'.step = run.step
    BY <1>2 DEF StartPlaybook, Shape
  <2>2. MayRun("playbook", run.targets) = run.targets
    BY DEF MayRun, Leftover
  <2> QED
    BY <1>1, <1>2, <2>1, <2>2 DEF StartPlaybook, RunOK, ReportOK, Lease, FleetOK
<1>3. ASSUME NEW n \in Nodes, Apply(n) PROVE RunOK' /\ ReportOK'
  <2>1. /\ run'.op = run.op /\ run'.pc = run.pc /\ run'.targets = run.targets
        /\ run'.left = run.left \ {n} /\ run'.made = run.made /\ run'.step = run.step
    BY <1>3 DEF Apply, Shape
  <2> QED
    BY <1>3, <2>1 DEF Apply, RunOK, ReportOK, Lease
<1>4. CASE NodesDone
  <2> DEFINE done == Marked(run.step, run.targets, "ok")
  <2>1. /\ run'.op = run.op /\ run'.pc = "hooks" /\ run'.targets = run.targets
        /\ run'.left = run.left /\ run'.made = run.made /\ run'.step = Enter(done, "hooks", {})
    BY <1>4 DEF NodesDone, Shape
  <2>2. done \in [Steps \cup run.targets -> Statuses] /\ OnlyRun(done, run.targets \ run.targets)
    BY <1>1, MarkFacts DEF RunOK
  <2> HIDE DEF done
  <2>3. OnlyRun(done, Leftover("hooks"))
    BY <2>2 DEF OnlyRun
  <2>4. Enter(done, "hooks", {}) = Enter(done, "hooks", run.targets)
    BY DEF Enter
  <2>5. /\ Enter(done, "hooks", run.targets) \in [Steps \cup run.targets -> Statuses]
        /\ OnlyRun(Enter(done, "hooks", run.targets), MayRun("hooks", run.targets))
    BY <2>2, <2>3, EnterFacts
  <2> QED
    BY <1>4, <2>1, <2>4, <2>5 DEF NodesDone, RunOK, ReportOK, Lease
<1>5. ASSUME NEW step, End(step, "fail"),
             LET failed == Marked(run.step, run.targets, "fail")
             IN  step = failed \/ step = SkipRemaining(failed)
      PROVE  RunOK' /\ ReportOK'
  <2>1. Marked(Marked(run.step, run.targets, "fail"), {}, "ok") = Marked(run.step, run.targets, "fail")
    BY DEF Marked
  <2> QED
    BY <1>1, <1>5, <2>1, NodesFail
<1>6. ASSUME DeployNodes, End(SkipRemaining(run.step), "fail") PROVE RunOK' /\ ReportOK'
  <2> DEFINE step == SkipRemaining(run.step)
  <2>1. step = Marked(run.step, PostDeploySkip, "skip")
    BY <1>6 DEF DeployNodes, SkipRemaining
  <2>2. /\ run.step \in [Steps \cup run.targets -> Statuses] /\ OnlyRun(run.step, run.targets)
        /\ \A s \in run.targets : run.step[s] = "running"
    BY <1>1, <1>6 DEF RunOK, DeployNodes
  <2>3. PostDeploySkip \subseteq Steps /\ run.targets \cap Steps = {} /\ "hooks" \in PostDeploySkip
    BY StepIdsAssumption DEF PostDeploySkip, Steps, Shape
  <2>4. /\ DOMAIN step = Steps \cup run.targets
        /\ \A s \in Steps \cup run.targets :
              step[s] = IF s \in PostDeploySkip THEN "skip" ELSE run.step[s]
    BY <2>1, <2>2 DEF Marked
  <2>5. Unplayed(step)
    BY <2>2, <2>3, <2>4 DEF Unplayed, NoPlaybook, OnlyRun
  <2> HIDE DEF step
  <2> QED
    BY <1>6, <2>5, RunEnds DEF step
<1>7. CASE DeployNodes \/ RecoverNodes
  BY <1>2, <1>5, <1>6, <1>7 DEF DeployNodes, RecoverNodes
<1>8. CASE PlaybookReturns \/ RecoverPlaybookReturns
  BY <1>1, <1>4, <1>8, NodesFail DEF PlaybookReturns, RecoverPlaybookReturns
<1> QED
  BY <1>3, <1>7, <1>8

\* The phases after the playbook: each answers for its own step.
LEMMA ChecksSettle ==
    ASSUME Shape, RunOK, ReportOK, NEW k, NEW p, NEW n, p \in Checks,
           Outcome(k, p) \/ Again(k, p, n)
    PROVE  RunOK' /\ ReportOK'
<1>1. run.pc = p /\ run.pc \in Steps /\ MayRun(run.pc, run.targets) = {p}
  BY DEF Outcome, Again, Checks, Steps, MayRun, Leftover
<1>2. CASE Outcome(k, p)
  BY <1>1, <1>2, PutAdvances DEF Outcome
<1>3. CASE Again(k, p, n)
  <2>1. /\ run'.op = run.op /\ run'.pc = run.pc /\ run'.targets = run.targets
        /\ run'.left = run.left /\ run'.made = run.made /\ run'.step = run.step
    BY <1>3 DEF Again, Shape
  <2> QED
    BY <1>3, <2>1 DEF Again, RunOK, ReportOK, Lease
<1> QED
  BY <1>2, <1>3

\* Cleanup, ownership and the notification.
LEMMA TailSettles ==
    ASSUME Shape, RunOK, ReportOK, Cleanup \/ Prune \/ Commit \/ Notify
    PROVE  RunOK' /\ ReportOK'
<1>1. CASE Cleanup
  <2>1. "cleanup" \in Steps /\ MayRun(run.pc, run.targets) = {"cleanup"}
    BY <1>1 DEF Cleanup, Steps, MayRun, Leftover
  <2> QED
    BY <1>1, <2>1, PutAdvances DEF Cleanup
<1>2. CASE Notify
  <2>1. "notify" \in Steps /\ MayRun(run.pc, run.targets) = {"notify"}
    BY <1>2 DEF Notify, Steps, MayRun, Leftover
  <2> QED
    BY <1>2, <2>1, PutAdvances DEF Notify
<1>3. ASSUME run.pc \in {"prune", "commit"}, Advance(run.step), UNCHANGED Lease PROVE RunOK' /\ ReportOK'
  <2>1. MayRun(run.pc, run.targets) = {}
    BY <1>3 DEF MayRun, Leftover, Steps
  <2>2. OnlyRun(run.step, Leftover(After)) /\ run.step \in [Steps \cup run.targets -> Statuses]
    BY <2>1 DEF RunOK, OnlyRun
  <2> QED
    BY <1>3, <2>2, RunAdvances DEF Lease, ReportOK
<1>4. ASSUME run.pc = "commit", UNCHANGED Lease,
             run' = [run EXCEPT !.ok = FALSE, !.pc = "notify", !.step = Enter(@, "notify", {})]
      PROVE  RunOK' /\ ReportOK'
  <2>1. /\ run'.op = run.op /\ run'.pc = "notify" /\ run'.targets = run.targets
        /\ run'.left = run.left /\ run'.made = run.made
        /\ run'.step = Enter(run.step, "notify", run.targets)
    BY <1>4 DEF Shape, Enter
  <2>2. MayRun(run.pc, run.targets) = {}
    BY <1>4 DEF MayRun, Leftover, Steps
  <2>3. OnlyRun(run.step, Leftover("notify")) /\ run.step \in [Steps \cup run.targets -> Statuses]
    BY <2>2 DEF RunOK, OnlyRun
  <2>4. /\ Enter(run.step, "notify", run.targets) \in [Steps \cup run.targets -> Statuses]
        /\ OnlyRun(Enter(run.step, "notify", run.targets), MayRun("notify", run.targets))
    BY <2>3, EnterFacts
  <2> QED
    BY <1>4, <2>1, <2>4 DEF RunOK, ReportOK, Lease
<1> QED
  BY <1>1, <1>2, <1>3, <1>4 DEF Prune, Commit

\* The ways a workflow ends.
LEMMA EndsSettle ==
    ASSUME Shape, RunOK, ReportOK,
           \/ Return \/ RecoverReturn \/ Cancelled \/ RecoverCancelled \/ RecoverPreflight
           \/ InfraTimesOut \/ LogRaises \/ Kill
    PROVE  RunOK' /\ ReportOK'
<1>1. CASE Return \/ RecoverReturn
  <2>1. OnlyRun(run.step, {})
    BY <1>1 DEF Return, RecoverReturn, RunOK, MayRun, Leftover, Steps
  <2> QED
    BY <1>1, <2>1, QuietReport, RunEnds DEF Return, RecoverReturn
<1>2. CASE Cancelled \/ RecoverCancelled
  <2>1. OnlyRun(Settled(run.step), {})
    BY StepFacts DEF RunOK
  <2> QED
    BY <1>2, <2>1, QuietReport, RunEnds DEF Cancelled, RecoverCancelled
<1>3. CASE RecoverPreflight
  <2> DEFINE passed == [run.step EXCEPT !["preflight"] = "ok"]
  <2>1. "preflight" \in Steps /\ MayRun(run.pc, run.targets) = {"preflight"}
    BY <1>3 DEF RecoverPreflight, MayRun, Leftover, Steps
  <2>2. OnlyRun(passed, MayRun(run.pc, run.targets) \ {"preflight"})
    <3>1. "ok" \in Statuses \ {"running"}
      BY DEF Statuses
    <3> QED
      BY <2>1, <3>1, PutFacts
  <2>3. OnlyRun(passed, {})
    BY <2>1, <2>2 DEF OnlyRun
  <2>4. CASE End(passed, "cancelled")
    BY <2>3, <2>4, QuietReport, RunEnds
  <2> HIDE DEF passed
  <2> QED
    BY <1>3, <2>1, <2>4, PutAdvances, PutEnds DEF RecoverPreflight, passed
<1>4. CASE InfraTimesOut
  <2>1. "infra" \in Steps /\ MayRun(run.pc, run.targets) = {"infra"}
    BY <1>4 DEF InfraTimesOut, MayRun, Leftover, Steps
  <2> QED
    BY <1>4, <2>1, PutEnds DEF InfraTimesOut, InfraFails
<1>5. CASE LogRaises \/ Kill
  BY <1>5, RunEnds DEF LogRaises, Kill
<1> QED
  BY <1>1, <1>2, <1>3, <1>4, <1>5

\* A workflow begins with one step running and nothing reported.
LEMMA BeginSettles ==
    ASSUME NEW d \in Ops, NEW k, NEW T \in SUBSET Nodes, Begin(d, k, T)
    PROVE  RunOK' /\ ReportOK'
<1>1. /\ run'.op = d /\ run'.pc = "preflight" /\ run'.targets = T /\ run'.left = {} /\ run'.made = {}
      /\ run'.step = Enter(Pending(T), "preflight", T) /\ cancel' = FALSE
      /\ report'.result = "none"
  BY DEF Begin, Idle, NoReport
<1>2. Pending(T) \in [Steps \cup T -> Statuses] /\ OnlyRun(Pending(T), Leftover("preflight"))
  BY DEF Pending, Statuses, OnlyRun
<1>3. /\ Enter(Pending(T), "preflight", T) \in [Steps \cup T -> Statuses]
      /\ OnlyRun(Enter(Pending(T), "preflight", T), MayRun("preflight", T))
  BY <1>2, EnterFacts
<1> QED
  BY <1>1, <1>3 DEF RunOK, ReportOK

\* Services stay services, on whichever node and in whichever file.
LEMMA FleetTyped ==
    ASSUME Shape, RunOK, FleetOK, StrayOK, [Next]_deploymentVars
    PROVE  FleetOK'
<1>1. CASE UNCHANGED Fleet
  BY <1>1 DEF FleetOK, Fleet
<1>2. CASE Generate
  BY <1>2 DEF Generate, FleetOK
<1>3. ASSUME NEW n \in Nodes, Apply(n) PROVE FleetOK'
  BY <1>3 DEF Apply, FleetOK, RunOK
<1>4. CASE Prune \/ Commit
  BY <1>4 DEF Prune, Commit, FleetOK
<1>5. ASSUME NEW s \in stray, StrayApplies(s) PROVE FleetOK'
  <2>1. s[1] = "playbook" => s[2] \in Nodes /\ s[3] \in SUBSET Services
    BY DEF StrayOK
  <2> QED
    BY <1>5, <2>1 DEF StrayApplies, FleetOK
<1>6. ASSUME NEW S \in SUBSET Services, ChangeCatalog(S) PROVE FleetOK'
  BY <1>6 DEF ChangeCatalog, FleetOK
<1>7. \/ UNCHANGED Fleet \/ Generate \/ Prune \/ Commit
      \/ \E n \in Nodes : Apply(n)
      \/ \E s \in stray : StrayApplies(s)
      \/ \E S \in SUBSET Services : ChangeCatalog(S)
  BY DEF Next, deploymentVars, Fleet, RequestCancel, Begin, Preflight, PreDump, Postcheck, HostSetup,
         TofuApply, MachineSecrets, DeployNodes, PlaybookReturns, RunHooks, SyncVaultwarden, UpdateDns,
         VerifyHooks, VerifyContainers, RunQa, Outcome, Again, Cleanup, Notify, Return, Cancelled,
         RecoverPreflight, RecoverNodes, RecoverPlaybookReturns, RecoverHooks, RecoverVerifyHooks,
         RecoverVerify, RecoverReturn, RecoverCancelled, InfraTimesOut, LogRaises, Kill
<1> QED
  BY <1>1, <1>2, <1>3, <1>4, <1>5, <1>6, <1>7

\* Tools are abandoned with what they were started with.
LEMMA StrayTyped ==
    ASSUME Shape, RunOK, StrayOK, [Next]_deploymentVars
    PROVE  StrayOK'
<1>1. CASE stray' \subseteq stray
  BY <1>1 DEF StrayOK
<1>2. CASE Abandon
  <2>1. Tools \subseteq ({"playbook"} \X Nodes \X SUBSET Services)
                        \cup ({"tofu"} \X (SUBSET Nodes) \X {{}})
    BY DEF Tools, Shape, RunOK
  <2> QED
    BY <1>2, <2>1 DEF Abandon, StrayOK
<1>3. stray' \subseteq stray \/ Abandon
  BY DEF Next, deploymentVars, ChangeCatalog, StrayApplies, Generate, Apply, Prune, Commit,
         RequestCancel, Begin, Preflight, PreDump, Postcheck, HostSetup,
         TofuApply, MachineSecrets, DeployNodes, PlaybookReturns, RunHooks, SyncVaultwarden, UpdateDns,
         VerifyHooks, VerifyContainers, RunQa, Outcome, Again, Cleanup, Notify, Return, Cancelled,
         RecoverPreflight, RecoverNodes, RecoverPlaybookReturns, RecoverHooks, RecoverVerifyHooks,
         RecoverVerify, RecoverReturn, RecoverCancelled, InfraTimesOut, LogRaises, Kill
<1> QED
  BY <1>1, <1>2, <1>3

\* Every step keeps the account of the running steps.
LEMMA SettleStep ==
    ASSUME Shape, SettleInv, [Next]_deploymentVars
    PROVE  SettleInv'
<1>1. FleetOK' /\ StrayOK'
  BY FleetTyped, StrayTyped DEF SettleInv
<1>2. ASSUME \/ RequestCancel \/ UNCHANGED deploymentVars
             \/ \E S \in SUBSET Services : ChangeCatalog(S)
             \/ \E s \in stray : StrayApplies(s)
      PROVE  RunOK' /\ ReportOK'
  <2>1. UNCHANGED <<run, report>> /\ (cancel' = cancel \/ run.op # "free")
    BY <1>2 DEF RequestCancel, deploymentVars, ChangeCatalog, StrayApplies, Lease
  <2> QED
    BY <2>1 DEF SettleInv, RunOK, ReportOK
<1>3. ASSUME \/ RunHooks \/ SyncVaultwarden \/ UpdateDns \/ VerifyHooks \/ VerifyContainers \/ RunQa
             \/ RecoverHooks \/ RecoverVerifyHooks \/ RecoverVerify
      PROVE  RunOK' /\ ReportOK'
  BY <1>3, ChecksSettle
  DEF SettleInv, Checks, RunHooks, SyncVaultwarden, UpdateDns, VerifyHooks, VerifyContainers, RunQa,
      RecoverHooks, RecoverVerifyHooks, RecoverVerify
<1>4. ASSUME \/ Preflight \/ PreDump \/ Generate \/ Postcheck \/ TofuApply \/ MachineSecrets \/ HostSetup
             \/ DeployNodes \/ RecoverNodes \/ PlaybookReturns \/ RecoverPlaybookReturns
             \/ \E n \in Nodes : Apply(n)
      PROVE  RunOK' /\ ReportOK'
  BY <1>4, GatesSettle, NodesSettle DEF SettleInv
<1>5. ASSUME \/ Cleanup \/ Prune \/ Commit \/ Notify
             \/ Return \/ RecoverReturn \/ Cancelled \/ RecoverCancelled \/ RecoverPreflight
             \/ InfraTimesOut \/ LogRaises \/ Kill
      PROVE  RunOK' /\ ReportOK'
  BY <1>5, TailSettles, EndsSettle DEF SettleInv
<1>6. ASSUME NEW d \in Ops, NEW k \in {"deploy", "recover"}, NEW T \in SUBSET Nodes, Begin(d, k, T)
      PROVE  RunOK' /\ ReportOK'
  BY <1>6, BeginSettles
<1>7. RunOK' /\ ReportOK'
  BY <1>2, <1>3, <1>4, <1>5, <1>6 DEF Next
<1> QED
  BY <1>1, <1>7 DEF SettleInv

\* A deployment or recovery that came to its end (run_deploy_workflow's
\* results and its handlers of OperationCancelled) reports no step as running
\* but the first half of preflight, or those of all nodes when no playbook was
\* found, and keeps to its types.
THEOREM ReportsAreSettled == Spec => []StepsAreSettled
<1>1. Init => SettleInv
  <2> SUFFICES ASSUME Init PROVE SettleInv
    OBVIOUS
  <2>1. /\ run.op = "free" /\ run.targets = {} /\ run.left = {} /\ run.made = {}
        /\ run.step = [s \in Steps \cup {} |-> "pending"] /\ cancel = FALSE
    BY DEF Init, Idle, Pending
  <2>2. RunOK
    BY <2>1 DEF RunOK, OnlyRun, Statuses
  <2> QED
    BY <2>2 DEF Init, SettleInv, FleetOK, StrayOK, ReportOK, NoReport
<1>2. Shape /\ SettleInv /\ [Next]_deploymentVars => SettleInv'
  BY SettleStep
<1>3. DeployInv => Shape
  BY DEF DeployInv
<1>4. Shape /\ SettleInv => StepsAreSettled
  BY DEF Shape, SettleInv, FleetOK, StrayOK, RunOK, ReportOK, Reported, Unplayed, OnlyRun,
         StepsAreSettled, TypeOK, Statuses
<1> QED
  BY <1>1, <1>2, <1>3, <1>4, DeployInvariant, PTL DEF Spec

-----------------------------------------------------------------------------
\* The boundary.

\* Whoever is between flock and unlock, operation or prober, has the lock.
Locked ==
    /\ \A l \in Leases : op[l] \in {"clearing", "unlinking", "truncating", "writing"} \cup Owning
                            => lock = l
    /\ \A c \in Cancellers : can[c] \in {"probing", "reprobing"} => lock = c

\* The record is the owner's from the moment acquire has flushed it.
Recorded == \A l \in Leases : op[l] \in Owning => record = l

\* A canceller takes aim once, before it can write the marker.
AimTaken ==
    \A c \in Cancellers :
        /\ can[c] \in {"idle", "reading1"} => aim[c] = None
        /\ can[c] \in {"named", "reading2", "replacing"} => aim[c] \in Leases

\* Whatever the marker says, somebody aimed at it.
MarkerAimed == marker = None \/ \E c \in Cancellers : aim[c] = marker

\* The inductive invariants.
BoundaryInv == LeaseTypeOK /\ Locked /\ Recorded /\ AimTaken
CancelInv == BoundaryInv /\ MarkerAimed /\ CancelIsAimed

-----------------------------------------------------------------------------
\* The steps of an operation keep the boundary's invariant.
LEMMA OperationBoundary ==
    ASSUME BoundaryInv, NEW l \in Leases, Operation(l) PROVE BoundaryInv'
<1> USE LeaseAssumption DEF BoundaryInv, LeaseTypeOK, Locked, Recorded, AimTaken, Owning, opFrame,
                            Goto, OpPlaces
<1>1. CASE Lock(l)
  BY <1>1 DEF Lock
<1>2. CASE FindMarker(l) \/ UnlinkMarker(l)
  BY <1>2 DEF FindMarker, UnlinkMarker
<1>3. CASE Truncate(l)
  BY <1>3 DEF Truncate
<1>4. CASE WriteRecord(l) \/ Sync(l)
  BY <1>4 DEF WriteRecord, Sync
<1>5. CASE Checkpoint(l)
  BY <1>5 DEF Checkpoint
<1>6. CASE EnterShield(l) \/ ShieldUnlink(l)
  BY <1>6 DEF EnterShield, ShieldUnlink
<1>7. CASE LeaveShield(l)
  BY <1>7 DEF LeaveShield
<1>8. CASE Unlock(l)
  BY <1>8 DEF Unlock
<1>9. CASE ReadOwnMarker(l) \/ Forget(l)
  BY <1>9 DEF ReadOwnMarker, Forget
<1>10. CASE Die(l)
  BY <1>10 DEF Die
<1> QED
  BY <1>1, <1>2, <1>3, <1>4, <1>5, <1>6, <1>7, <1>8, <1>9, <1>10 DEF Operation

\* The steps of a canceller keep the boundary's invariant: a probe is exclusive.
LEMMA CancellerBoundary ==
    ASSUME BoundaryInv, NEW c \in Cancellers, Canceller(c) PROVE BoundaryInv'
<1> USE LeaseAssumption DEF BoundaryInv, LeaseTypeOK, Locked, Recorded, AimTaken, Owning, cancelFrame,
                            CanGoto, CanPlaces
<1>1. CASE Probe(c)
  BY <1>1 DEF Probe, Inspections
<1>2. CASE Unprobe(c)
  BY <1>2 DEF Unprobe
<1>3. CASE ReadRecord(c)
  BY <1>3 DEF ReadRecord
<1>4. CASE RereadRecord(c)
  BY <1>4 DEF RereadRecord
<1>5. CASE ReplaceMarker(c)
  BY <1>5 DEF ReplaceMarker
<1>6. CASE Review(c)
  BY <1>6 DEF Review
<1> QED
  BY <1>1, <1>2, <1>3, <1>4, <1>5, <1>6 DEF Canceller

\* Every step keeps it.
LEMMA BoundaryStep ==
    ASSUME BoundaryInv, [LeaseNext]_vars PROVE BoundaryInv'
<1>1. CASE UNCHANGED vars
  BY <1>1 DEF BoundaryInv, LeaseTypeOK, Locked, Recorded, AimTaken, vars
<1> QED
  BY <1>1, OperationBoundary, CancellerBoundary DEF LeaseNext

\* At most one operation is between the flush of its record and the unlock, it
\* has the flock and the record names it, for any number of operations and
\* cancellers and whatever dies in between.
THEOREM OneOwner == LeaseSpec => []OwnerIsNamed
<1>1. LeaseInit => BoundaryInv
  BY LeaseAssumption
  DEF LeaseInit, BoundaryInv, LeaseTypeOK, Locked, Recorded, AimTaken, Owning, OpPlaces, CanPlaces
<1>2. BoundaryInv /\ [LeaseNext]_vars => BoundaryInv'
  BY BoundaryStep
<1>3. BoundaryInv => OwnerIsNamed
  BY DEF BoundaryInv, Locked, Recorded, OwnerIsNamed
<1> QED
  BY <1>1, <1>2, <1>3, PTL DEF LeaseSpec

\* An aim, once taken, stays; and every marker written repeats one.
LEMMA MarkerStep ==
    ASSUME CancelInv, [LeaseNext]_vars PROVE (MarkerAimed /\ CancelIsAimed)'
<1> USE DEF CancelInv, MarkerAimed, CancelIsAimed
<1>1. ASSUME NEW l \in Leases, Operation(l)
      PROVE  aim' = aim /\ marker' \in {marker, None} /\ told' \subseteq told \cup ({marker} \cap Leases)
  BY <1>1
  DEF Operation, Lock, FindMarker, UnlinkMarker, Truncate, WriteRecord, Sync, Checkpoint, EnterShield,
      ShieldUnlink, LeaveShield, Unlock, ReadOwnMarker, Forget, Die, opFrame
<1>2. ASSUME NEW l \in Leases, Operation(l) PROVE (MarkerAimed /\ CancelIsAimed)'
  <2>1. \A k \in told' : k \in told \/ (k = marker /\ k # None)
    BY <1>1, <1>2, LeaseAssumption
  <2> QED
    BY <1>1, <1>2, <2>1
<1>3. ASSUME NEW c \in Cancellers, Canceller(c) PROVE (MarkerAimed /\ CancelIsAimed)'
  <2>1. CASE ReadRecord(c)
    <3>1. aim[c] = None /\ told' = told /\ marker' = marker /\ told \subseteq Leases
      BY <2>1 DEF ReadRecord, BoundaryInv, AimTaken, LeaseTypeOK, cancelFrame
    <3>2. \A k \in Cancellers : aim[k] # None => aim'[k] = aim[k]
      BY <2>1, <3>1 DEF ReadRecord, BoundaryInv, LeaseTypeOK
    <3> QED
      BY <3>1, <3>2, LeaseAssumption
  <2>2. CASE ReplaceMarker(c)
    BY <2>2 DEF ReplaceMarker, cancelFrame
  <2>3. CASE UNCHANGED <<marker, aim, told>>
    BY <2>3
  <2> QED
    BY <1>3, <2>1, <2>2, <2>3 DEF Canceller, Probe, Unprobe, RereadRecord, Review, cancelFrame
<1>4. CASE UNCHANGED vars
  BY <1>4 DEF vars
<1> QED
  BY <1>2, <1>3, <1>4 DEF LeaseNext

\* raise_if_cancelled stops an operation only if some canceller read the lease
\* id of that very operation: a marker left by a crash, or written late for a
\* predecessor, reaches nobody else.
THEOREM CancelsAreAimed == LeaseSpec => []CancelIsAimed
<1>1. LeaseInit => CancelInv
  BY LeaseAssumption
  DEF LeaseInit, CancelInv, BoundaryInv, LeaseTypeOK, Locked, Recorded, AimTaken, Owning, OpPlaces, CanPlaces,
      MarkerAimed, CancelIsAimed
<1>2. CancelInv /\ [LeaseNext]_vars => CancelInv'
  BY BoundaryStep, MarkerStep DEF CancelInv
<1>3. CancelInv => CancelIsAimed
  BY DEF CancelInv
<1> QED
  BY <1>1, <1>2, <1>3, PTL DEF LeaseSpec

-----------------------------------------------------------------------------
\* The record, and hence the aim of a canceller, names an operation that has had
\* the boundary: acquire writes the record under the lock, after it has
\* truncated the one of the predecessor.
NamesHeld ==
    /\ record # None => op[record] \in Held
    /\ \A c \in Cancellers : aim[c] # None => op[aim[c]] \in Held

\* The steps of an operation keep NamesHeld.
LEMMA OperationHeld ==
    ASSUME BoundaryInv, NamesHeld, NEW l \in Leases, Operation(l) PROVE NamesHeld'
<1> USE LeaseAssumption DEF BoundaryInv, LeaseTypeOK, NamesHeld, Held, Owning, Acquiring, opFrame,
                            Goto, OpPlaces
<1>1. ASSUME op[l] \in Held => op'[l] \in Held, \A m \in Leases \ {l} : op'[m] = op[m],
             aim' = aim, record' \in {record, None}
      PROVE  NamesHeld'
  BY <1>1
<1>2. CASE WriteRecord(l) \/ Sync(l)
  BY <1>2 DEF WriteRecord, Sync
<1>3. CASE Truncate(l)
  BY <1>3 DEF Truncate
<1>4. CASE Lock(l) \/ FindMarker(l) \/ UnlinkMarker(l)
  BY <1>4 DEF Lock, FindMarker, UnlinkMarker
<1>5. CASE Checkpoint(l) \/ EnterShield(l) \/ ShieldUnlink(l) \/ LeaveShield(l)
  BY <1>5 DEF Checkpoint, EnterShield, ShieldUnlink, LeaveShield
<1>6. CASE Unlock(l) \/ ReadOwnMarker(l) \/ Forget(l) \/ Die(l)
  BY <1>6 DEF Unlock, ReadOwnMarker, Forget, Die
<1> QED
  BY <1>2, <1>3, <1>4, <1>5, <1>6 DEF Operation

\* The steps of a canceller keep NamesHeld: it reads its aim from the record.
LEMMA CancellerHeld ==
    ASSUME BoundaryInv, NamesHeld, NEW c \in Cancellers, Canceller(c) PROVE NamesHeld'
<1> USE DEF BoundaryInv, LeaseTypeOK, NamesHeld, cancelFrame
<1>1. CASE ReadRecord(c)
  BY <1>1 DEF ReadRecord
<1>2. CASE Probe(c) \/ Unprobe(c) \/ RereadRecord(c) \/ ReplaceMarker(c) \/ Review(c)
  BY <1>2 DEF Probe, Unprobe, RereadRecord, ReplaceMarker, Review
<1> QED
  BY <1>1, <1>2 DEF Canceller

\* The inductive invariant under which every system call maps to a step.
PromiseInv == CancelInv /\ NamesHeld

\* It holds in every state of the boundary.
LEMMA PromiseInvariant == LeaseSpec => []PromiseInv
<1>1. LeaseInit => PromiseInv
  BY LeaseAssumption
  DEF LeaseInit, PromiseInv, NamesHeld, CancelInv, BoundaryInv, LeaseTypeOK, Locked, Recorded,
      AimTaken, Owning, OpPlaces, CanPlaces, MarkerAimed, CancelIsAimed
<1>2. PromiseInv /\ [LeaseNext]_vars => PromiseInv'
  <2> SUFFICES ASSUME PromiseInv, [LeaseNext]_vars PROVE PromiseInv'
    OBVIOUS
  <2>1. CancelInv'
    BY BoundaryStep, MarkerStep DEF PromiseInv, CancelInv
  <2>2. CASE UNCHANGED vars
    BY <2>1, <2>2 DEF PromiseInv, NamesHeld, vars
  <2>3. CASE LeaseNext
    BY <2>1, <2>3, OperationHeld, CancellerHeld DEF PromiseInv, CancelInv, LeaseNext
  <2> QED
    BY <2>2, <2>3
<1> QED
  BY <1>1, <1>2, PTL DEF LeaseSpec

\* Seen as the promise, a step that moves nobody in or out of the boundary,
\* asks for nobody and stops nobody is invisible.
LEMMA Invisible ==
    ASSUME \A m \in Leases : (op'[m] \in Owning) = (op[m] \in Owning),
           \A m \in Leases : (op'[m] \in Held) = (op[m] \in Held),
           aim' = aim, told' = told
    PROVE  UNCHANGED Boundary!boundaryVars
BY DEF Boundary!boundaryVars

\* Every step of an operation is a step of the promise.
LEMMA OperationPromise ==
    ASSUME PromiseInv, NEW l \in Leases, Operation(l)
    PROVE  Boundary!Take(l) \/ Boundary!GiveBack(l) \/ Boundary!Stop(l)
              \/ UNCHANGED Boundary!boundaryVars
<1> DEFINE own == {m \in Leases : op[m] \in Owning}
           had == {m \in Leases : op[m] \in Held}
           asked == {m \in Leases : \E c \in Cancellers : aim[c] = m}
<1>t. LeaseTypeOK /\ Locked /\ CancelIsAimed /\ MarkerAimed
  BY DEF PromiseInv, CancelInv, BoundaryInv
<1>1. ASSUME op[l] \in Acquiring \cup Owning PROVE \A m \in Leases \ {l} : op[m] \notin Owning
  BY <1>1, <1>t DEF Locked, Acquiring, Owning
<1>2. CASE WriteRecord(l)
  <2>1. op[l] = "writing" /\ op' = [op EXCEPT ![l] = "syncing"] /\ aim' = aim /\ told' = told
    BY <1>2 DEF WriteRecord, Goto, opFrame
  <2>2. own = {} /\ own' = {l} /\ l \notin had /\ had' = had \cup {l} /\ asked' = asked
    BY <1>1, <1>t, <2>1 DEF Acquiring, Owning, Held, LeaseTypeOK
  <2> QED
    BY <2>1, <2>2 DEF Boundary!Take
<1>3. CASE Checkpoint(l)
  <2>1. op[l] = "owned" /\ op' = op /\ aim' = aim /\ told' = told \cup {l} /\ marker = l
    BY <1>3 DEF Checkpoint, opFrame
  <2>2. own = {l} /\ own' = own /\ had' = had /\ asked' = asked
    BY <1>1, <1>t, <2>1 DEF Owning
  <2>3. l \in asked
    BY <1>t, <2>1, LeaseAssumption DEF MarkerAimed
  <2> QED
    BY <2>1, <2>2, <2>3 DEF Boundary!Stop
<1>4. ASSUME op[l] \in Owning, op'[l] \in Held \ Owning, \A m \in Leases \ {l} : op'[m] = op[m],
             aim' = aim, told' = told
      PROVE  Boundary!GiveBack(l)
  <2>1. own = {l} /\ own' = {} /\ had' = had /\ asked' = asked
    BY <1>1, <1>4 DEF Held
  <2> QED
    BY <2>1, <1>4 DEF Boundary!GiveBack
<1>5. CASE Unlock(l)
  <2>1. op[l] = "owned" /\ op' = [op EXCEPT ![l] = "unlocked"] /\ aim' = aim /\ told' = told
    BY <1>5 DEF Unlock, Goto, opFrame
  <2> QED
    BY <1>4, <1>t, <2>1 DEF Owning, Held, LeaseTypeOK
<1>6. CASE Die(l)
  <2>1. /\ op[l] \notin {"new", "refused", "done"}
        /\ op' = [op EXCEPT ![l] = IF op[l] \in Acquiring THEN "refused" ELSE "done"]
        /\ aim' = aim /\ told' = told
    BY <1>6 DEF Die, Goto, opFrame
  <2>2. CASE op[l] \in Owning
    BY <1>4, <1>t, <2>1, <2>2 DEF Owning, Held, Acquiring, LeaseTypeOK
  <2>3. CASE op[l] \notin Owning
    BY Invisible, <1>t, <2>1, <2>3 DEF Owning, Held, Acquiring, LeaseTypeOK, OpPlaces
  <2> QED
    BY <2>2, <2>3
<1>7. CASE Lock(l) \/ FindMarker(l) \/ UnlinkMarker(l) \/ Truncate(l) \/ Sync(l)
  BY Invisible, <1>t, <1>7
  DEF Lock, FindMarker, UnlinkMarker, Truncate, Sync, Goto, opFrame, Owning, Held, LeaseTypeOK
<1>8. CASE EnterShield(l) \/ ShieldUnlink(l) \/ LeaveShield(l) \/ ReadOwnMarker(l) \/ Forget(l)
  BY Invisible, <1>t, <1>8
  DEF EnterShield, ShieldUnlink, LeaveShield, ReadOwnMarker, Forget, Goto, opFrame, Owning, Held,
      LeaseTypeOK
<1> QED
  BY <1>2, <1>3, <1>5, <1>6, <1>7, <1>8 DEF Operation

\* Every step of a canceller asks for the operation it read from the record,
\* or is invisible.
LEMMA CancellerPromise ==
    ASSUME PromiseInv, NEW c \in Cancellers, Canceller(c)
    PROVE  (\E l \in Leases : Boundary!Ask(l)) \/ UNCHANGED Boundary!boundaryVars
<1> DEFINE asked == {m \in Leases : \E d \in Cancellers : aim[d] = m}
<1>t. LeaseTypeOK /\ AimTaken /\ NamesHeld
  BY DEF PromiseInv, CancelInv, BoundaryInv
<1>1. CASE ReadRecord(c) /\ record # None
  <2>1. PICK l \in Leases : record = l
    BY <1>1, <1>t DEF LeaseTypeOK
  <2>2. aim[c] = None /\ aim' = [aim EXCEPT ![c] = l] /\ UNCHANGED <<op, told>>
    BY <1>1, <1>t, <2>1 DEF ReadRecord, AimTaken, cancelFrame
  <2>3. asked' = asked \cup {l}
    <3>1. ASSUME NEW m \in Leases PROVE (m \in asked') = (m \in asked \cup {l})
      BY <1>t, <2>2, LeaseAssumption DEF LeaseTypeOK
    <3> QED
      BY <3>1
  <2>4. Boundary!Ask(l)
    BY <2>1, <2>2, <2>3, <1>1, <1>t DEF Boundary!Ask, NamesHeld
  <2> QED
    BY <2>4
<1>2. CASE ReadRecord(c) /\ record = None
  <2>1. aim' = aim /\ UNCHANGED <<op, told>>
    BY <1>2, <1>t DEF ReadRecord, AimTaken, cancelFrame, LeaseTypeOK
  <2> QED
    BY <2>1, Invisible
<1>3. CASE Probe(c) \/ Unprobe(c) \/ RereadRecord(c) \/ ReplaceMarker(c) \/ Review(c)
  <2>1. UNCHANGED <<op, told, aim>>
    BY <1>3 DEF Probe, Unprobe, RereadRecord, ReplaceMarker, Review, cancelFrame
  <2> QED
    BY <2>1, Invisible
<1> QED
  BY <1>1, <1>2, <1>3 DEF Canceller

\* The lock, the record and the marker of operation_lease.py together
\* implement DeployBoundary: whichever system calls of other processes come
\* between those of acquire, request_active_cancel and release, the boundary
\* passes through nobody, requests name operations that have had it (be it only
\* until their fsync failed), and only an owner that was asked for is stopped.
THEOREM FilesKeepThePromise == LeaseSpec => BoundarySpec
<1>1. LeaseInit => Boundary!Init
  BY LeaseAssumption DEF LeaseInit, Boundary!Init, Owning, Held
<1>2. PromiseInv /\ [LeaseNext]_vars => [Boundary!Next]_(Boundary!boundaryVars)
  <2> SUFFICES ASSUME PromiseInv, [LeaseNext]_vars
               PROVE  [Boundary!Next]_(Boundary!boundaryVars)
    OBVIOUS
  <2>1. CASE UNCHANGED vars
    BY <2>1, Invisible DEF vars
  <2>2. CASE LeaseNext
    BY <2>2, OperationPromise, CancellerPromise DEF LeaseNext, Boundary!Next
  <2> QED
    BY <2>1, <2>2
<1> QED
  BY <1>1, <1>2, PromiseInvariant, PTL DEF LeaseSpec, BoundarySpec, Boundary!Spec
=============================================================================
