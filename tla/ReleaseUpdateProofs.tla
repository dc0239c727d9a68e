------------------------- MODULE ReleaseUpdateProofs -------------------------
(***************************************************************************)
(* Proofs about the release files, for any number of roles, releases and   *)
(* killed handlers: recovery is always possible, and a rollback goes back. *)
(***************************************************************************)
EXTENDS ReleaseUpdate, TLAPS

\* The statements from which active.json may change or recovery.json appear.
Exposed ==
    \/ pc \in {"noting", "activating", "restoring", "flagging", "revert", "reinstate"}
    \/ pc = "deploy" /\ op.kind = "apply"

\* They are reached only without recovery.json, and the marker is back in
\* place before recovery.json is written.
Guarded ==
    /\ Exposed => recovery = Nothing
    /\ pc = "flagging" => active = old

\* A release that is about to be noted has a revision of its own.
Typed == TypeOK /\ (pc = "noting" => new.rev \in 1 .. MaxReleases)

\* The inductive invariant.
RecoverInv == Typed /\ Guarded /\ RecoverIsPossible

-----------------------------------------------------------------------------
\* Every step keeps the types.
LEMMA TypeStep ==
    ASSUME Typed, [Next]_vars PROVE Typed'
<1> USE ReleaseAssumption DEF Typed, TypeOK, Goto, Reject, files, world, locals, Nothing
<1>1. ASSUME NEW o \in Operations, Submit(o) PROVE Typed'
  BY <1>1 DEF Submit
<1>2. CASE Refresh \/ PlainDeploy
  BY <1>2 DEF Refresh, PlainDeploy
<1>3. CASE Recover
  BY <1>3 DEF Recover
<1>4. CASE Rollback
  BY <1>4 DEF Rollback
<1>5. CASE Prepare
  <2>1. CASE Reject
    BY <2>1
  <2>2. CASE ~Reject
    <3>1. built' \in 1 .. MaxReleases
      BY <1>5, <2>2 DEF Prepare
    <3>2. new' \in Releases
      BY <1>5, <2>2, <3>1 DEF Prepare, Releases
    <3> QED
      BY <1>5, <2>2, <3>1, <3>2 DEF Prepare
  <2> QED
    BY <2>1, <2>2
<1>6. CASE NoteRollback
  BY <1>6 DEF NoteRollback
<1>7. CASE Activate \/ Restore \/ Reinstate
  BY <1>7 DEF Activate, Restore, Reinstate
<1>8. CASE Flag
  BY <1>8 DEF Flag
<1>9. CASE Settle \/ Forget
  BY <1>9 DEF Settle, Forget
<1>10. ASSUME NEW D, Deploys(D) PROVE fleet' \in [Roles -> 0 .. MaxReleases]
  BY <1>10 DEF Deploys, Releases
<1>11. CASE Deploy
  <2>1. fleet' \in [Roles -> 0 .. MaxReleases]
    BY <1>10, <1>11 DEF Deploy
  <2>2. pc' \in {"idle", "forget", "settle", "restoring", "reinstate"}
    BY <1>11 DEF Deploy, AfterSuccess, AfterFailure
  <2>3. clean' \in BOOLEAN
    BY <1>11 DEF Deploy
  <2> QED
    BY <1>11, <2>1, <2>2, <2>3 DEF Deploy
<1>12. CASE Killed
  <2>1. fleet' \in [Roles -> 0 .. MaxReleases]
    BY <1>10, <1>12 DEF Killed
  <2>2. faults' \in 0 .. MaxFaults /\ pc' \in {"idle", "start"} /\ clean' = FALSE
    BY <1>12 DEF Killed
  <2> QED
    BY <1>12, <2>1, <2>2 DEF Killed
<1>13. CASE UNCHANGED vars
  BY <1>13 DEF vars
<1>14. CASE Straggle
  BY <1>14 DEF Straggle
<1> QED
  BY <1>1, <1>2, <1>3, <1>4, <1>5, <1>6, <1>7, <1>8, <1>9, <1>11, <1>12, <1>13, <1>14 DEF Next

\* Every step keeps recovery possible.
LEMMA RecoverStep ==
    ASSUME RecoverInv, [Next]_vars PROVE (Guarded /\ RecoverIsPossible)'
<1> USE DEF RecoverInv, Guarded, Exposed, RecoverIsPossible, Goto, Reject, files, world, locals
<1>1. CASE UNCHANGED files /\ pc' \in {"idle", "start", "repair", "settle", "forget"}
  BY <1>1
<1>2. CASE PlainDeploy
  BY <1>2 DEF PlainDeploy
<1>3. CASE Rollback
  BY <1>3 DEF Rollback
<1>4. CASE Prepare
  BY <1>4 DEF Prepare
<1>5. CASE NoteRollback \/ Activate
  BY <1>5 DEF NoteRollback, Activate
<1>6. CASE Deploy
  BY <1>6 DEF Deploy, AfterSuccess, AfterFailure
<1>7. CASE Restore
  BY <1>7 DEF Restore
<1>8. CASE Flag
  BY <1>8 DEF Flag
<1>9. CASE Settle \/ Forget \/ Reinstate
  BY <1>9 DEF Settle, Forget, Reinstate
<1>10. CASE UNCHANGED vars \/ Straggle
  BY <1>10 DEF vars, Straggle
<1> QED
  BY <1>1, <1>2, <1>3, <1>4, <1>5, <1>6, <1>7, <1>8, <1>9, <1>10
  DEF Next, Submit, Refresh, Recover, Killed

\* Wherever the update handler is killed, recovery.json names the active release
\* as the one to go back to: the recover action is never refused as superseded
\* while it blocks every other update.
THEOREM RecoveryPossible == Spec => [](TypeOK /\ RecoverIsPossible)
<1>1. Init => RecoverInv
  <2>1. Base \in Releases
    BY ReleaseAssumption DEF Base, Releases
  <2> QED
    BY <2>1, ReleaseAssumption
    DEF Init, RecoverInv, Typed, TypeOK, Guarded, Exposed, RecoverIsPossible, Base
<1>2. RecoverInv /\ [Next]_vars => RecoverInv'
  BY TypeStep, RecoverStep DEF RecoverInv
<1>3. RecoverInv => TypeOK /\ RecoverIsPossible
  BY DEF RecoverInv, Typed
<1> QED
  BY <1>1, <1>2, <1>3, PTL DEF Spec

-----------------------------------------------------------------------------
(* Rollback.                                                               *)

Older(x, y) == x.rev < y.rev /\ \A r \in Roles : x.ver[r] <= y.ver[r]

\* Every release that can become active without being built first.
Known ==
    {active, old, new}
    \cup {x \in Releases : rollback # Nothing /\ x = rollback.previous}
    \cup {x \in Releases : recovery # Nothing /\ x \in {recovery.previous, recovery.failed}}

\* Revisions are numbered in the order in which releases are built.
Numbered ==
    /\ \A x \in Known : x.rev <= built /\ \A r \in Roles : x.ver[r] <= built
    /\ rollback # Nothing => rollback.expected <= built

\* What is about to be noted is new to everyone.
Fresh ==
    pc = "noting" => Older(old, new) /\ \A x \in Known : x # new => x.rev < new.rev

\* The inductive invariant.
RollbackInv ==
    /\ Typed /\ Numbered /\ Fresh
    /\ rollback # Nothing => \A x \in Known : x.rev = rollback.expected => Older(rollback.previous, x)

\* Only Prepare brings in a release, only NoteRollback a promise to go back.
LEMMA KnownSteps ==
    ASSUME Typed, [Next]_vars
    PROVE  \/ /\ Known' \subseteq Known /\ rollback' \in {rollback, Nothing} /\ built' = built
              /\ pc' = "noting" => UNCHANGED <<pc, files, old, new>>
           \/ Prepare /\ ~Reject
           \/ NoteRollback
<1> USE DEF Typed, TypeOK, Known, Goto, Reject, files, world, locals
<1>1. CASE UNCHANGED <<files, old, new, built>> /\ pc' # "noting"
  BY <1>1
<1>2. CASE PlainDeploy
  BY <1>2 DEF PlainDeploy
<1>3. CASE Recover
  BY <1>3 DEF Recover, Nothing
<1>4. CASE Rollback
  BY <1>4 DEF Rollback, Nothing
<1>5. CASE Activate \/ Restore \/ Reinstate
  BY <1>5 DEF Activate, Restore, Reinstate
<1>6. CASE Flag
  BY <1>6 DEF Flag
<1>7. CASE Settle \/ Forget
  BY <1>7 DEF Settle, Forget
<1>8. CASE Deploy
  BY <1>1, <1>8 DEF Deploy, AfterSuccess, AfterFailure
<1>9. CASE UNCHANGED vars \/ Straggle
  BY <1>9 DEF vars, Straggle
<1> QED
  BY <1>1, <1>2, <1>3, <1>4, <1>5, <1>6, <1>7, <1>8, <1>9
  DEF Next, Submit, Refresh, Killed, Prepare

\* Every step keeps the numbering, and with it what rollback.json promises.
LEMMA RollbackStep ==
    ASSUME RollbackInv, [Next]_vars PROVE RollbackInv'
<1> USE DEF RollbackInv
<1>1. Typed'
  BY TypeStep
<1>2. built \in Nat /\ active \in Releases /\ old \in Releases /\ new \in Releases
  BY ReleaseAssumption DEF Typed, TypeOK
<1>3. ASSUME Known' \subseteq Known, rollback' \in {rollback, Nothing}, built' = built,
             pc' = "noting" => UNCHANGED <<pc, files, old, new>>
      PROVE  RollbackInv'
  <2>1. Fresh'
    BY <1>3 DEF Fresh, Older, Known, vars, files, world
  <2> QED
    BY <1>1, <1>3, <2>1 DEF Numbered, Older
<1>4. CASE Prepare /\ ~Reject
  <2>1. /\ rollback' = rollback /\ recovery' = recovery /\ active' = active /\ old' = active
        /\ built' = built + 1 /\ new'.rev = built + 1
        /\ \A r \in Roles : new'.ver[r] \in {built + 1, active.ver[r]}
    BY <1>4 DEF Prepare, files, Goto
  <2>2. Known' \subseteq Known \cup {new'}
    BY <2>1 DEF Known
  <2>3. \A x \in Known : x.rev <= built /\ x.rev \in Nat /\ \A r \in Roles : x.ver[r] <= built /\ x.ver[r] \in Nat
    BY <1>2 DEF Numbered, Known, Releases
  <2>4. active \in Known
    BY DEF Known
  <2>5. Older(active, new')
    BY <1>2, <2>1, <2>3, <2>4 DEF Older
  <2>6. Numbered'
    BY <1>2, <2>1, <2>2, <2>3, <2>4, ReleaseAssumption DEF Numbered, Typed, TypeOK
  <2>7. Fresh'
    BY <1>2, <2>1, <2>2, <2>3, <2>5 DEF Fresh, Older
  <2>8. ASSUME rollback # Nothing, NEW x \in Known', x.rev = rollback.expected
        PROVE  Older(rollback.previous, x)
    <3>1. rollback.expected <= built /\ rollback.expected \in Nat
      BY <2>8 DEF Numbered, Typed, TypeOK
    <3>2. x # new'
      BY <1>2, <2>1, <2>8, <3>1
    <3> QED
      BY <2>2, <2>8, <3>2
  <2> QED
    BY <1>1, <2>1, <2>6, <2>7, <2>8 DEF Older
<1>5. CASE NoteRollback
  <2>1. /\ rollback' = [kind |-> "rollback", expected |-> new.rev, previous |-> old]
        /\ UNCHANGED <<active, recovery, old, new, built>> /\ pc = "noting" /\ pc' = "activating"
    BY <1>5 DEF NoteRollback, Goto, locals
  <2>2. Known' \subseteq Known
    BY <1>2, <2>1 DEF Known
  <2>3. \A x \in Known' : x.rev = new.rev => x = new
    BY <1>2, <2>1, <2>2 DEF Fresh, Known, Releases
  <2>4. Numbered'
    BY <2>1, <2>2 DEF Numbered, Known
  <2> QED
    BY <1>1, <2>1, <2>3, <2>4 DEF Fresh, Older
<1> QED
  BY <1>3, <1>4, <1>5, KnownSteps

\* When rollback.json matches the active release, the release it goes back to
\* was built earlier and pins no service to a later version, whatever sequence
\* of updates, failures, rollbacks and kills came before.
THEOREM RollbackGoesBack == Spec => []RollbackIsOlder
<1>1. Init => RollbackInv
  <2>1. Base \in Releases /\ Base.rev = 0 /\ \A r \in Roles : Base.ver[r] = 0
    BY ReleaseAssumption DEF Base, Releases
  <2> QED
    BY <2>1, ReleaseAssumption
    DEF Init, RollbackInv, Typed, TypeOK, Numbered, Fresh, Known, Base
<1>2. RollbackInv /\ [Next]_vars => RollbackInv'
  BY RollbackStep
<1>3. RollbackInv => RollbackIsOlder
  BY DEF RollbackInv, RollbackIsOlder, Older, Known
<1> QED
  BY <1>1, <1>2, <1>3, PTL DEF Spec

-----------------------------------------------------------------------------
(* Failures are flagged.                                                   *)

\* The roles that do not run release x.
Off(x) == {r \in Roles : fleet[r] # x.ver[r]}

\* The update that is under way changes the pins of its roles, and no others.
Repins ==
    /\ op.kind = "apply" /\ op.roles \cap Roles \subseteq Pinned(new)
    /\ \A r \in Roles \ op.roles : new.ver[r] = old.ver[r]

\* Until a handler is killed or a rollback fails: which roles may be off the
\* release that counts, from the statement where the handler stands.
Accounted ==
    /\ recovery # Nothing =>
          Off(recovery.previous) \subseteq Pinned(recovery.previous) \cup Pinned(recovery.failed)
    /\ recovery = Nothing /\ (pc \in {"idle", "start"} \/ (pc = "deploy" /\ op.kind = "deploy"))
          => Off(active) = {}
    /\ pc \in {"noting", "activating"} => active = old /\ Off(old) = {} /\ Repins
    /\ pc = "deploy" => op.kind = "deploy" \/ (active = new /\ Off(old) = {} /\ Repins)
    /\ pc = "revert" => op.kind = "rollback" /\ active = new /\ Off(old) = {}
    /\ pc \in {"restoring", "flagging"} => Repins /\ Off(old) \subseteq op.roles
    /\ pc = "repair" => /\ active = old /\ op.kind \in {"apply", "recover"}
                        /\ recovery # Nothing /\ recovery.previous = old /\ recovery.failed = new
                        /\ op.kind = "apply" => Off(old) \subseteq op.roles
    /\ pc \in {"settle", "forget"} => Off(active) = {}
    /\ pc # "reinstate"

FlagInv == RecoverInv /\ (clean => Accounted)

\* A deployment of the active release leaves no affected role behind if it
\* succeeds, and leaves no more roles behind than before if it fails.
LEMMA DeployedRoles ==
    ASSUME NEW D, Deploys(D)
    PROVE  LET off(x) == {r \in Roles : fleet'[r] # x.ver[r]}
           IN  /\ off(active) = Off(active) \ D
               /\ \A x : off(x) \subseteq Off(x) \cup (D \cap {r \in Roles : active.ver[r] # x.ver[r]})
BY DEF Deploys, Off

\* What a deployment leaves, from each of the places where there is one.
LEMMA DeployAccounted ==
    ASSUME FlagInv, Deploy, clean, clean' PROVE Accounted'
<1> USE DEF FlagInv, RecoverInv, Guarded, Exposed, Goto, files, locals
<1>1. /\ UNCHANGED <<active, recovery, op, old, new>> /\ Accounted
      /\ recovery # Nothing => active = recovery.previous
  BY DEF Deploy, RecoverIsPossible
<1>2. ASSUME Off(active)' \subseteq Off(active), pc' = "idle", pc = "deploy", op.kind = "deploy"
      PROVE  Accounted'
  BY <1>1, <1>2 DEF Accounted, Pinned, Off
<1>3. ASSUME Off(active)' = {}, pc' \in {"idle", "settle", "forget"} PROVE Accounted'
  BY <1>1, <1>3 DEF Accounted, Pinned, Off
<1>4. CASE Deploys(Affected) /\ pc' = AfterSuccess
  <2>1. Off(active)' = Off(active) \ Affected
    BY <1>1, <1>4, DeployedRoles DEF Off
  <2>2. pc' \in {"idle", "settle", "forget"}
    BY <1>4 DEF Deploy, AfterSuccess
  <2>3. CASE pc = "deploy" /\ op.kind = "deploy"
    <3>1. Affected = Roles
      BY <2>3 DEF Affected
    <3> QED
      BY <1>3, <2>1, <2>2, <3>1 DEF Off
  <2>4. CASE pc = "deploy" /\ op.kind # "deploy"
    <3>1. Affected = op.roles /\ Off(active) \subseteq op.roles
      BY <1>1, <2>4 DEF Affected, Accounted, Repins, Off
    <3> QED
      BY <1>3, <2>1, <2>2, <3>1
  <2>5. CASE pc = "revert"
    <3>1. Affected = Pinned(old) \cup Pinned(new)
      BY <1>1, <2>5 DEF Affected, Accounted
    <3>2. Off(active) \subseteq Affected
      BY <1>1, <2>5, <3>1 DEF Accounted, Off, Pinned
    <3> QED
      BY <1>3, <2>1, <2>2, <3>2
  <2>6. CASE pc = "repair" /\ op.kind = "apply"
    <3>1. Affected = op.roles /\ Off(active) \subseteq op.roles
      BY <1>1, <2>6 DEF Affected, Accounted
    <3> QED
      BY <1>3, <2>1, <2>2, <3>1
  <2>7. CASE pc = "repair" /\ op.kind # "apply"
    <3>1. Affected = Pinned(old) \cup Pinned(new) /\ Off(active) \subseteq Pinned(old) \cup Pinned(new)
      BY <1>1, <2>7 DEF Affected, Accounted
    <3> QED
      BY <1>3, <2>1, <2>2, <3>1
  <2> QED
    BY <2>3, <2>4, <2>5, <2>6, <2>7 DEF Deploy
<1>5. ASSUME NEW D \in SUBSET Affected, Deploys(D), pc' = AfterFailure, pc # "revert"
      PROVE  Accounted'
  <2>1. /\ Off(active)' \subseteq Off(active)
        /\ \A x : {r \in Roles : fleet'[r] # x.ver[r]} \subseteq Off(x) \cup D
    BY <1>1, <1>5, DeployedRoles DEF Off
  <2>2. pc # "revert"
    BY <1>5
  <2>3. CASE pc = "deploy" /\ op.kind = "apply"
    <3>1. pc' = "restoring" /\ Affected = op.roles
      BY <1>5, <2>3 DEF AfterFailure, Affected
    <3>2. Off(old)' \subseteq op.roles
      BY <1>1, <1>5, <2>1, <2>3, <3>1 DEF Accounted, Off
    <3>3. Repins' /\ recovery' = Nothing
      BY <1>1, <2>3 DEF Accounted, Repins, Pinned
    <3> QED
      BY <1>1, <3>1, <3>2, <3>3 DEF Accounted
  <2>4. CASE pc = "deploy" /\ op.kind # "apply"
    <3>1. pc' = "idle" /\ op.kind = "deploy"
      BY <1>1, <1>5, <2>4 DEF AfterFailure, Accounted, Repins
    <3> QED
      BY <1>2, <2>1, <2>4, <3>1
  <2>5. CASE pc = "repair"
    <3>1. pc' = "idle"
      BY <1>5, <2>5 DEF AfterFailure
    <3>2. recovery # Nothing /\ Off(recovery.previous)' \subseteq Off(recovery.previous)
      BY <1>1, <2>1, <2>5 DEF Accounted
    <3> QED
      BY <1>1, <3>1, <3>2 DEF Accounted, Pinned
  <2> QED
    BY <2>2, <2>3, <2>4, <2>5 DEF Deploy
<1>6. clean' \in {clean /\ pc # "revert", FALSE} => pc # "revert"
  OBVIOUS
<1> QED
  BY <1>4, <1>5, <1>6 DEF Deploy

\* Every other step of the handler keeps the account: a new release differs
\* from the old one in its roles only, and the failure is recorded before the
\* repair begins.
LEMMA AccountedStep ==
    ASSUME FlagInv, [Next]_vars, clean' PROVE Accounted'
<1> USE DEF RecoverInv, Guarded, Exposed, RecoverIsPossible, Goto, Reject, files, world, locals,
            Accounted, Off, Pinned
<1>1. ~Killed /\ ~Straggle
  BY DEF Killed, Straggle
<1>2. CASE Deploy
  <2>1. clean
    BY <1>2 DEF Deploy, FlagInv, Typed, TypeOK
  <2> QED
    BY <1>2, <2>1, DeployAccounted
<1>3. ASSUME ~Deploy PROVE Accounted /\ clean
  BY <1>1, <1>3
  DEF FlagInv, Next, Submit, Refresh, PlainDeploy, Recover, Rollback, Prepare, NoteRollback, Activate,
      Restore, Flag, Settle, Forget, Reinstate, vars
<1>4. ASSUME NEW o \in Operations, Submit(o) PROVE Accounted'
  BY <1>2, <1>3, <1>4 DEF Submit
<1>5. CASE Refresh \/ PlainDeploy
  BY <1>2, <1>3, <1>5 DEF Refresh, PlainDeploy
<1>6. CASE Recover
  BY <1>2, <1>3, <1>6 DEF Recover, FlagInv
<1>7. CASE Rollback
  BY <1>2, <1>3, <1>7 DEF Rollback
<1>8. CASE Prepare
  <2>1. CASE Reject
    BY <1>2, <1>3, <1>8, <2>1 DEF Prepare
  <2>2. CASE ~Reject
    <3> HIDE DEF Reject
    <3>1. /\ pc = "start" /\ op.kind = "apply" /\ recovery = Nothing /\ pc' = "noting"
          /\ old' = active /\ UNCHANGED <<files, fleet, op>> /\ built' = built + 1
          /\ new'.ver = [r \in Roles |-> IF r \in op.roles THEN built' ELSE active.ver[r]]
      <4>1. new' = [rev |-> built', ver |-> [r \in Roles |->
                       IF r \in op.roles THEN built' ELSE active.ver[r]]]
        BY <1>8, <2>2 DEF Prepare
      <4> QED
        BY <1>8, <2>2, <4>1 DEF Prepare
    <3>2. built' # 0
      BY <3>1, ReleaseAssumption DEF FlagInv, Typed, TypeOK
    <3>3. Repins'
      BY <3>1, <3>2 DEF Repins
    <3> QED
      BY <1>2, <1>3, <3>1, <3>3
  <2> QED
    BY <2>1, <2>2
<1>9. CASE NoteRollback \/ Activate
  BY <1>2, <1>3, <1>9 DEF NoteRollback, Activate, FlagInv, Repins
<1>10. CASE Restore
  BY <1>2, <1>3, <1>10 DEF Restore, FlagInv, Repins
<1>11. CASE Flag
  BY <1>2, <1>3, <1>11 DEF Flag, FlagInv, Repins, Nothing
<1>12. CASE Settle \/ Forget \/ Reinstate
  BY <1>2, <1>3, <1>12 DEF Settle, Forget, Reinstate, FlagInv
<1>13. CASE UNCHANGED vars
  BY <1>2, <1>3, <1>13 DEF vars, Repins
<1> QED
  BY <1>1, <1>2, <1>4, <1>5, <1>6, <1>7, <1>8, <1>9, <1>10, <1>11, <1>12, <1>13 DEF Next

\* A failed update does not go unnoticed, for any number of roles, updates and
\* plain deployments: unless a handler was killed, a playbook was left running
\* or an explicit rollback failed, nodes off the active release come with
\* recovery.json.
THEOREM FailuresAreFlagged == Spec => []FailureIsFlagged
<1>1. Init => FlagInv
  <2>1. Base \in Releases
    BY ReleaseAssumption DEF Base, Releases
  <2> QED
    BY <2>1, ReleaseAssumption
    DEF Init, FlagInv, RecoverInv, Typed, TypeOK, Guarded, Exposed, RecoverIsPossible, Base,
        Accounted, Off
<1>2. FlagInv /\ [Next]_vars => FlagInv'
  BY TypeStep, RecoverStep, AccountedStep DEF FlagInv, RecoverInv
<1>3. FlagInv => FailureIsFlagged
  <2> SUFFICES ASSUME FlagInv, clean, pc = "idle", recovery = Nothing PROVE fleet = active.ver
    BY DEF FlagInv, RecoverInv, Typed, FailureIsFlagged
  <2>1. fleet \in [Roles -> 0 .. MaxReleases] /\ active.ver \in [Roles -> 0 .. MaxReleases]
    BY DEF FlagInv, RecoverInv, Typed, TypeOK, Releases
  <2>2. \A r \in Roles : fleet[r] = active.ver[r]
    BY DEF FlagInv, Accounted, Off
  <2> QED
    BY <2>1, <2>2
<1> QED
  BY <1>1, <1>2, <1>3, PTL DEF Spec
=============================================================================
