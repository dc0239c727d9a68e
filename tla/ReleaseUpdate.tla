---------------------------- MODULE ReleaseUpdate ----------------------------
(***************************************************************************)
(* Image updates with automatic rollback: the update handler of            *)
(* toolkit/controller/operations.py and the three release files it keeps   *)
(* (toolkit/core/ops/release_state.py): active.json, rollback.json and     *)
(* recovery.json.                                                          *)
(*                                                                         *)
(* Each file is replaced atomically, but one after the other, with a       *)
(* deployment in between; the handler may be killed between any two steps  *)
(* (shutdown, deadline, lost lease, crash), and the job is then either     *)
(* failed or run again from the start by the next attempt.  Update jobs    *)
(* exclude each other (active_limit), so there is one handler.             *)
(***************************************************************************)
EXTENDS Naturals

CONSTANTS
    Roles,        \* node roles; one updatable service each
    MaxReleases,  \* bound on the releases built
    MaxFaults     \* bound on killed handlers

ASSUME ReleaseAssumption == MaxReleases \in Nat /\ MaxFaults \in Nat

\* A release: its revision, and the version of each service it pins.  Version
\* 0 is the unpinned base image; revision 0 stands for "no active.json".
Releases == [rev : 0 .. MaxReleases, ver : [Roles -> 0 .. MaxReleases]]
Base == [rev |-> 0, ver |-> [r \in Roles |-> 0]]
Pinned(rel) == {r \in Roles : rel.ver[r] # 0}
Nothing == [kind |-> "none"]

VARIABLES
    active,     \* active.json
    rollback,   \* rollback.json: the revision it undoes and the release to go back to
    recovery,   \* recovery.json: the release to go back to and the one that failed
    plan,       \* the release the cached update report was made for
    fleet,      \* fleet[r]: the version that role r runs
    pc,         \* where the handler stands
    op,         \* the operation it executes
    old, new,   \* its local variables active and release
    built,      \* releases built so far
    faults,     \* handlers killed so far
    clean       \* no handler was killed, no rollback failed and no playbook was
                \* left behind (history)

files == <<active, rollback, recovery>>
vars == <<files, plan, fleet, pc, op, old, new, built, faults, clean>>
world == <<fleet, clean>>
locals == <<op, old, new, built>>

Operations ==
    [kind : {"refresh", "deploy", "recover"}]
    \cup [kind : {"rollback"}, rev : 0 .. MaxReleases]
    \cup [kind : {"apply"}, roles : SUBSET Roles \ {{}}]

Init ==
    /\ active = Base /\ rollback = Nothing /\ recovery = Nothing
    /\ plan = Base
    /\ fleet = Base.ver
    /\ pc = "idle" /\ op = Nothing
    /\ old = Base /\ new = Base
    /\ built = 0 /\ faults = 0 /\ clean = TRUE

Goto(place) == pc' = place /\ UNCHANGED <<plan, faults>>
Reject == Goto("idle") /\ UNCHANGED <<files, world, locals>>

-----------------------------------------------------------------------------
\* The operator submits an operation; a rollback carries the active revision
\* that was shown, an attempt to run it again may find another one.
Submit(o) ==
    /\ pc = "idle"
    /\ o.kind = "rollback" => o.rev = active.rev
    /\ op' = o
    /\ pc' = "start"
    /\ UNCHANGED <<files, world, plan, old, new, built, faults>>

\* action "refresh": the report is made for the release that is active now.
Refresh ==
    /\ pc = "start" /\ op.kind = "refresh"
    /\ plan' = active
    /\ pc' = "idle"
    /\ UNCHANGED <<files, world, locals, faults>>

\* A DEPLOY job of all roles goes straight to the deployment.
PlainDeploy ==
    /\ pc = "start" /\ op.kind = "deploy"
    /\ Goto("deploy")
    /\ old' = active
    /\ UNCHANGED <<files, world, op, new, built>>

\* action "recover".  It is also rejected when affected_roles finds no enabled
\* node for the services of the two releases, which depends on the
\* configuration of the moment.
Recover ==
    /\ pc = "start" /\ op.kind = "recover"
    /\ \/ Reject
       \/ /\ recovery # Nothing /\ active = recovery.previous
          /\ Goto("repair")
          /\ old' = active /\ new' = recovery.failed
          /\ UNCHANGED <<files, world, op, built>>

\* action "rollback": the checks, affected_roles once more the last of them,
\* then the previous release is made active.
Rollback ==
    /\ pc = "start" /\ op.kind = "rollback"
    /\ \/ Reject
       \/ /\ recovery = Nothing
          /\ active.rev # 0 /\ active.rev = op.rev
          /\ rollback # Nothing /\ rollback.expected = active.rev
          /\ Goto("revert")
          /\ old' = active /\ new' = rollback.previous
          /\ active' = rollback.previous
          /\ UNCHANGED <<rollback, recovery, world, op, built>>

\* action "apply": the report must still match the versions of the active
\* release; then digests are resolved, snapshots are taken (both may fail) and
\* the new release is built.
Prepare ==
    /\ pc = "start" /\ op.kind = "apply"
    /\ \/ Reject
       \/ /\ recovery = Nothing /\ plan.ver = active.ver
          /\ built < MaxReleases
          /\ Goto("noting")
          /\ old' = active
          /\ built' = built + 1
          /\ new' = [rev |-> built', ver |-> [r \in Roles |->
                        IF r \in op.roles THEN built' ELSE active.ver[r]]]
          /\ UNCHANGED <<files, world, op>>

\* (mutant) the record is made for the release that is being replaced.
NoteRollbackForOld ==
    /\ pc = "noting"
    /\ rollback' = [kind |-> "rollback", expected |-> old.rev, previous |-> old]
    /\ Goto("activating")
    /\ UNCHANGED <<active, recovery, world, locals>>

\* write_rollback_release
NoteRollback ==
    /\ pc = "noting"
    /\ rollback' = [kind |-> "rollback", expected |-> new.rev, previous |-> old]
    /\ Goto("activating")
    /\ UNCHANGED <<active, recovery, world, locals>>

\* write_active_release(release)
Activate ==
    /\ pc = "activating"
    /\ active' = new
    /\ Goto("deploy")
    /\ UNCHANGED <<rollback, recovery, world, locals>>

\* The roles a deployment is restricted to.
Affected ==
    CASE op.kind = "apply" -> op.roles
      [] op.kind = "deploy" -> Roles
      [] OTHER -> Pinned(old) \cup Pinned(new)

\* run_deploy_workflow brings the affected roles to the active release, or
\* only some of them (D).
Deploys(D) == fleet' = [r \in Roles |-> IF r \in D THEN active.ver[r] ELSE fleet[r]]

\* What follows a deployment that succeeded, and one that failed.
AfterSuccess ==
    CASE pc = "deploy" -> "idle"
      [] pc = "revert" -> "forget"
      [] pc = "repair" -> "settle"
AfterFailure ==
    CASE pc = "deploy" /\ op.kind = "apply" -> "restoring"
      [] pc = "revert" -> "reinstate"
      [] OTHER -> "idle"

\* A deployment also fails when its log callback raises, and the playbook whose
\* output was being read is then left running.
Deploy ==
    /\ pc \in {"deploy", "revert", "repair"}
    /\ \/ /\ Deploys(Affected)
          /\ Goto(AfterSuccess)
          /\ UNCHANGED clean
       \/ /\ \E D \in SUBSET Affected : Deploys(D)
          /\ Goto(AfterFailure)
          /\ clean' \in {clean /\ pc # "revert", FALSE}
    /\ UNCHANGED <<files, locals>>

\* (mutant) the failure is recorded before the marker is put back.
RestoreAfterRecovery ==
    /\ pc = "restoring"
    /\ recovery' = [kind |-> "recovery", previous |-> old, failed |-> new]
    /\ Goto("flagging")
    /\ UNCHANGED <<active, rollback, world, locals>>

\* The update failed: write_active_release(active) ...
Restore ==
    /\ pc = "restoring"
    /\ active' = old
    /\ Goto("flagging")
    /\ UNCHANGED <<rollback, recovery, world, locals>>

\* (mutant) the repair starts without a record of it.
FlagNothing ==
    /\ pc = "flagging"
    /\ Goto("repair")
    /\ UNCHANGED <<files, world, locals>>

\* ... then write_recovery_release, then the repair deployment.
Flag ==
    /\ pc = "flagging"
    /\ recovery' = [kind |-> "recovery", previous |-> old, failed |-> new]
    /\ Goto("repair")
    /\ UNCHANGED <<active, rollback, world, locals>>

\* clear_recovery_release, then clear_rollback_release
Settle ==
    /\ pc = "settle"
    /\ recovery' = Nothing
    /\ Goto("forget")
    /\ UNCHANGED <<active, rollback, world, locals>>

Forget ==
    /\ pc = "forget"
    /\ rollback' = Nothing
    /\ Goto("idle")
    /\ UNCHANGED <<active, recovery, world, locals>>

\* The rollback failed: the marker is put back, the nodes are left as they are.
Reinstate ==
    /\ pc = "reinstate"
    /\ active' = old
    /\ Goto("idle")
    /\ UNCHANGED <<rollback, recovery, world, locals>>

\* The handler is killed, in the middle of a deployment perhaps; its job
\* fails, or is attempted again from the start.
Killed ==
    /\ pc # "idle" /\ faults < MaxFaults
    /\ \/ pc \in {"deploy", "revert", "repair"} /\ \E D \in SUBSET Affected : Deploys(D)
       \/ UNCHANGED fleet
    /\ pc' \in {"idle", "start"}
    /\ faults' = faults + 1
    /\ clean' = FALSE
    /\ UNCHANGED <<files, plan, locals>>

\* A playbook that a killed handler or a failed deployment left behind goes on:
\* it brings a role to a release of its time, whatever has happened since.
Straggle ==
    /\ ~clean
    /\ \E r \in Roles, v \in 0 .. built : fleet' = [fleet EXCEPT ![r] = v]
    /\ UNCHANGED <<files, plan, pc, locals, faults, clean>>

Next ==
    \/ \E o \in Operations : Submit(o)
    \/ Refresh \/ PlainDeploy \/ Recover \/ Rollback
    \/ Prepare \/ NoteRollback \/ Activate \/ Deploy \/ Restore \/ Flag
    \/ Settle \/ Forget \/ Reinstate \/ Killed \/ Straggle

Spec == Init /\ [][Next]_vars

-----------------------------------------------------------------------------
\* The three release files hold releases that were built: a rollback record is
\* always about a release with a revision of its own.
TypeOK ==
    /\ active \in Releases /\ plan \in Releases /\ old \in Releases /\ new \in Releases
    /\ rollback = Nothing \/ rollback \in [kind : {"rollback"}, expected : 1 .. MaxReleases, previous : Releases]
    /\ recovery = Nothing \/ recovery \in [kind : {"recovery"}, previous : Releases, failed : Releases]
    /\ fleet \in [Roles -> 0 .. MaxReleases]
    /\ pc \in {"idle", "start", "noting", "activating", "deploy", "revert", "repair", "restoring",
               "flagging", "settle", "forget", "reinstate"}
    /\ op = Nothing \/ op \in Operations
    /\ built \in 0 .. MaxReleases /\ faults \in 0 .. MaxFaults /\ clean \in BOOLEAN

\* While recovery.json exists every other update operation is refused, so the
\* recover action has to be possible: the release it goes back to is the active
\* one, wherever a handler was killed.  Otherwise it would be refused as
\* superseded and updates would be locked for good.
RecoverIsPossible ==
    recovery # Nothing => active = recovery.previous

\* (With TypeOK.) A failed update does not go unnoticed: unless a handler was
\* killed, a playbook was left running or an explicit rollback failed, nodes
\* that do not run the active release are left behind only together with the
\* request for explicit recovery.
FailureIsFlagged ==
    TypeOK /\ (clean /\ pc = "idle" /\ recovery = Nothing => fleet = active.ver)

\* Rolling back restores what the active release replaced: rollback.json, when
\* it matches, never names a release with pins that the active one lacks.
RollbackIsOlder ==
    rollback # Nothing /\ rollback.expected = active.rev =>
        /\ rollback.previous.rev < active.rev
        /\ \A r \in Roles : rollback.previous.ver[r] <= active.ver[r]
=============================================================================
