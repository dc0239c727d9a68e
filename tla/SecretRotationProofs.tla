------------------------ MODULE SecretRotationProofs ------------------------
(***************************************************************************)
(* Proofs about SecretRotation, for any secrets, any services that need    *)
(* their previous credential, any names of its variable and any bounds.    *)
(*                                                                         *)
(* That no value is lost follows from what the process remembers.  Memory  *)
(* says, phase by phase, which of the remembered values the file holds;    *)
(* Known says where the value of a service is then; Looked, that a service *)
(* a deployment has looked at still holds the value of the file.  They     *)
(* hold as long as nobody edits the file beside the rotation, Known and    *)
(* Looked but for services a playbook that was left behind has set;        *)
(* TypeOK, RunOK and StrayOK hold whatever happens.                        *)
(***************************************************************************)
EXTENDS SecretRotation, TLAPS

Values == 0 .. MaxValue

\* The phases in which a rotation has drawn new values.
Drawn == run.op \in {"job", "cli"} /\ run.pc \in {"deploy", "restore", "rollback"}

RunOK ==
    /\ run \in [op : {"none", "job", "cli", "deploy"},
                pc : {"idle", "dump", "rotate", "deploy", "restore", "rollback"},
                names : SUBSET Secrets, before : [Secrets -> Values \cup {None}],
                rotated : [Secrets -> Values \cup {None}], seen : SUBSET Secrets,
                shield : BOOLEAN, hurt : BOOLEAN, clean : BOOLEAN]
    /\ run.op = "none" => ~run.clean
    /\ run.op = "deploy" => run.pc = "deploy"
    /\ run.pc \in {"idle", "dump", "rotate"} => run.seen = {}
    /\ Drawn => run.before \in [Secrets -> Values] /\ run.rotated \in [Secrets -> Values]

\* What the file holds of the values remembered.
Memory ==
    Drawn => /\ file = IF run.pc = "rollback" THEN run.before ELSE run.rotated
             /\ \A s \in Secrets \ run.names : run.before[s] = run.rotated[s]

\* What the services hold, when an operation found them in agreement.
Known ==
    run.clean =>
        \A s \in Secrets : \/ Astray(s)
                           \/ IF Drawn THEN held[s] \in {run.before[s], run.rotated[s]}
                              ELSE held[s] = file[s]

\* What the services hold that the deployment has looked at.
Looked == \A s \in run.seen : Astray(s) \/ held[s] = file[s]

\* What playbooks that were left behind may set is on record.
StrayOK == \A t \in stray : <<t[1], t[2]>> \in left

RotationInv == TypeOK /\ RunOK /\ StrayOK /\ (trouble["edit"] = 0 => Memory /\ Known /\ Looked)

-----------------------------------------------------------------------------
Verdicts == {"none", "ok", "failed", "restored", "not_converged", "blocked", "interrupted",
             "deploy_failed", "killed"}

\* A fault raises one counter, and none beyond the bound.
LEMMA FaultFacts ==
    ASSUME TypeOK, NEW k \in Kinds, Fault(k)
    PROVE  /\ trouble' \in [Kinds -> 0 .. MaxFaults]
           /\ k # "edit" => trouble'["edit"] = trouble["edit"]
           /\ k = "edit" => trouble'["edit"] > 0
<1>1. \A i \in Kinds : trouble[i] \in Nat
  BY SecretRotationAssumption DEF TypeOK
<1>2. trouble[k] < MaxFaults /\ trouble' = [trouble EXCEPT ![k] = trouble[k] + 1]
  BY <1>1, SecretRotationAssumption DEF Fault, Kinds, TypeOK
<1>3. trouble[k] + 1 \in 0 .. MaxFaults
  BY <1>1, <1>2, SecretRotationAssumption
<1> QED
  BY <1>1, <1>2, <1>3 DEF TypeOK, Kinds

StraysTyped ==
    /\ stray \subseteq Secrets \X (0 .. MaxValue) \X (-1 .. MaxValue)
    /\ left \subseteq Secrets \X (0 .. MaxValue)

\* A playbook left behind has with it values of the file, and is on record.
LEMMA LeaveFacts ==
    ASSUME RotationInv, Leave
    PROVE  StraysTyped' /\ StrayOK' /\ left \subseteq left'
<1>1. CASE UNCHANGED playbooks
  BY <1>1 DEF playbooks, StraysTyped, StrayOK, RotationInv, TypeOK
<1>2. CASE ~UNCHANGED playbooks
  <2>1. /\ run.pc \in {"deploy", "rollback"}
        /\ stray' = stray \cup {<<s, file[s], Previous(s)>> : s \in Secrets}
        /\ left' = left \cup {<<s, file[s]>> : s \in Secrets}
    BY <1>2 DEF Leave
  <2>2. \A s \in Secrets : file[s] \in 0 .. MaxValue /\ Previous(s) \in -1 .. MaxValue
    <3>1. \A s \in Secrets : /\ run.before[s] \in Values \cup {None}
                             /\ run.rotated[s] \in Values \cup {None}
      BY DEF RotationInv, RunOK
    <3> QED
      BY <3>1, SecretRotationAssumption DEF RotationInv, TypeOK, Previous, None, Values
  <2>3. StraysTyped'
    BY <2>1, <2>2 DEF RotationInv, TypeOK, StraysTyped
  <2>4. ASSUME NEW t \in stray' PROVE <<t[1], t[2]>> \in left'
    <3>1. CASE t \in stray
      BY <2>1, <3>1 DEF RotationInv, StrayOK
    <3>2. CASE t \in {<<s, file[s], Previous(s)>> : s \in Secrets}
      <4>1. PICK s \in Secrets : t = <<s, file[s], Previous(s)>>
        BY <3>2
      <4>2. t[1] = s /\ t[2] = file[s]
        BY <4>1
      <4> QED
        BY <2>1, <4>2
    <3> QED
      BY <2>1, <2>4, <3>1, <3>2
  <2> QED
    BY <2>1, <2>3, <2>4 DEF StrayOK
<1> QED
  BY <1>1, <1>2

\* An operation that gives the boundary back has nothing left to remember.
LEMMA FinishStep ==
    ASSUME RotationInv, NEW v \in Verdicts, Finish(v), UNCHANGED <<file, held, values>>,
           StraysTyped', StrayOK', trouble' \in [Kinds -> 0 .. MaxFaults]
    PROVE  RotationInv'
<1>1. /\ run' = Idle /\ run'.op = "none" /\ run'.pc = "idle" /\ run'.names = {} /\ run'.clean = FALSE
      /\ run'.seen = {}
  BY DEF Finish, Idle
<1>2. RunOK'
  BY <1>1 DEF RunOK, Idle, Drawn
<1>3. TypeOK'
  BY <1>1 DEF Finish, TypeOK, StraysTyped, RotationInv, Verdicts
<1>4. Memory' /\ Known' /\ Looked'
  BY <1>1 DEF Memory, Known, Looked, Drawn
<1> QED
  BY <1>2, <1>3, <1>4 DEF RotationInv

\* Begin takes stock: clean says whether file and services agree.
LEMMA BeginStep ==
    ASSUME RotationInv, NEW op \in {"job", "cli", "deploy"}, NEW S \in SUBSET Secrets, Begin(op, S)
    PROVE  RotationInv'
<1>1. /\ run'.op = op /\ run'.names = S /\ run'.clean = Agree /\ run'.seen = {}
      /\ run'.pc = IF op = "deploy" THEN "deploy" ELSE "dump"
  BY DEF Begin, Idle
<1>2. Agree \in BOOLEAN
  BY DEF Agree
<1>3. RunOK'
  BY <1>1, <1>2 DEF Begin, RunOK, Idle, Drawn
<1>4. TypeOK'
  BY <1>1 DEF Begin, TypeOK, playbooks, RotationInv
<1>5. Memory' /\ Known' /\ Looked'
  BY <1>1 DEF Begin, Memory, Known, Looked, Drawn, Agree
<1> QED
  BY <1>3, <1>4, <1>5 DEF RotationInv, StrayOK, Begin, playbooks

\* Rotate draws new values for the names and keeps the old ones.
LEMMA RotateStep == RotationInv /\ Rotate => RotationInv'
<1> SUFFICES ASSUME RotationInv, Rotate PROVE RotationInv'
  OBVIOUS
<1> DEFINE new == [s \in Secrets |-> IF s \in run.names THEN values + 1 ELSE file[s]]
<1>1. /\ run.pc = "rotate" /\ file' = new /\ values' = values + 1 /\ values < MaxValue
      /\ UNCHANGED <<held, cancel, verdict, stray, left, trouble>>
  BY DEF Rotate, playbooks
<1>2. /\ run'.op = run.op /\ run'.pc = "deploy" /\ run'.names = run.names /\ run'.before = file
      /\ run'.rotated = new /\ run'.clean = run.clean /\ run'.shield = run.shield /\ run'.hurt = run.hurt
      /\ run'.seen = run.seen
      /\ run' = [run EXCEPT !.pc = "deploy", !.before = file, !.rotated = new]
  BY DEF Rotate, RotationInv, RunOK
<1>3. new \in [Secrets -> Values] /\ values + 1 \in Values /\ file \in [Secrets -> Values]
  BY <1>1, SecretRotationAssumption DEF RotationInv, TypeOK, Values
<1>4. \A s \in Secrets \ run.names : new[s] = file[s]
  OBVIOUS
<1>5. run.op \in {"job", "cli"} /\ ~Drawn
  BY <1>1 DEF RotationInv, RunOK, Drawn, TypeOK
<1> HIDE DEF new
<1>6. RunOK'
  BY <1>2, <1>3, <1>5 DEF RotationInv, RunOK, Drawn
<1>7. TypeOK'
  BY <1>1, <1>2, <1>3 DEF RotationInv, TypeOK, Values
<1>8. Memory'
  BY <1>1, <1>2, <1>4 DEF Memory, Drawn
<1>9. trouble["edit"] = 0 => Known'
  BY <1>1, <1>2, <1>5 DEF RotationInv, Known, Astray, Drawn
<1>10. Looked' /\ StrayOK'
  BY <1>1, <1>2 DEF RotationInv, RunOK, Looked, StrayOK
<1> QED
  BY <1>1, <1>6, <1>7, <1>8, <1>9, <1>10 DEF RotationInv

\* Moving on to another phase with everything remembered.
LEMMA MoveStep ==
    ASSUME RotationInv, NEW p \in {"rotate", "restore"}, NEW sh \in BOOLEAN, NEW hu \in BOOLEAN,
           run' = [run EXCEPT !.pc = p, !.shield = sh, !.hurt = hu],
           \/ p = "rotate" /\ run.pc = "dump"
           \/ p = "restore" /\ run.pc = "deploy" /\ run.op \in {"job", "cli"},
           cancel' \in {cancel, FALSE}, UNCHANGED <<file, held, values, verdict>>,
           StraysTyped', StrayOK', left \subseteq left',
           trouble' \in [Kinds -> 0 .. MaxFaults], trouble'["edit"] = trouble["edit"]
    PROVE  RotationInv'
<1>1. /\ run'.op = run.op /\ run'.pc = p /\ run'.names = run.names /\ run'.before = run.before
      /\ run'.rotated = run.rotated /\ run'.clean = run.clean /\ run'.seen = run.seen
  BY DEF RotationInv, RunOK
<1>2. run.op \in {"job", "cli"} /\ (Drawn' <=> Drawn)
  BY <1>1 DEF RotationInv, RunOK, TypeOK, Drawn
<1>3. RunOK'
  BY <1>1, <1>2 DEF RotationInv, RunOK
<1>4. TypeOK'
  BY <1>1, <1>2 DEF RotationInv, TypeOK, StraysTyped
<1>5. trouble["edit"] = 0 => Memory' /\ Known' /\ Looked'
  BY <1>1, <1>2 DEF RotationInv, Memory, Known, Looked, Astray
<1> QED
  BY <1>3, <1>4, <1>5 DEF RotationInv

\* A service takes the value of the file, which is a remembered one.
LEMMA ReconcileStep ==
    ASSUME RotationInv, NEW s \in Secrets, Reconcile(s)
    PROVE  RotationInv'
<1>1. /\ run.pc \in {"deploy", "rollback"} /\ held' = [held EXCEPT ![s] = file[s]]
      /\ UNCHANGED <<file, run, cancel, verdict, values, stray, left, trouble>>
  BY DEF Reconcile, playbooks
<1>2. held' \in [Secrets -> Values]
  BY <1>1 DEF RotationInv, TypeOK, Values
<1>3. TypeOK' /\ RunOK'
  BY <1>1, <1>2 DEF RotationInv, TypeOK, RunOK, Drawn, Values
<1>4. (Memory <=> Memory') /\ (StrayOK <=> StrayOK')
  BY <1>1 DEF Memory, Drawn, StrayOK
<1>5. \A i \in Secrets : held'[i] = IF i = s THEN file[i] ELSE held[i]
  BY <1>1 DEF RotationInv, TypeOK
<1>6. ASSUME trouble["edit"] = 0, run.clean, NEW i \in Secrets
      PROVE  \/ <<i, held'[i]>> \in left
             \/ IF Drawn THEN held'[i] \in {run.before[i], run.rotated[i]} ELSE held'[i] = file[i]
  <2>1. IF Drawn THEN file[i] \in {run.before[i], run.rotated[i]} ELSE TRUE
    BY <1>6 DEF RotationInv, Memory
  <2> QED
    BY <1>5, <1>6, <2>1 DEF RotationInv, Known, Astray
<1>7. trouble["edit"] = 0 => Known'
  BY <1>1, <1>6 DEF Known, Drawn, Astray
<1>8. trouble["edit"] = 0 => Looked'
  BY <1>1, <1>5 DEF Looked, Astray, RotationInv, RunOK
<1> QED
  BY <1>1, <1>3, <1>4, <1>7, <1>8 DEF RotationInv

\* The deployment has looked at a service that holds the value of the file.
LEMMA LookStep ==
    ASSUME RotationInv, NEW s \in Secrets, Look(s)
    PROVE  RotationInv'
<1>1. /\ run.pc \in {"deploy", "rollback"} /\ held[s] = file[s]
      /\ run' = [run EXCEPT !.seen = run.seen \cup {s}]
      /\ UNCHANGED <<file, held, cancel, verdict, values, stray, left, trouble>>
  BY DEF Look, playbooks
<1>2. /\ run'.op = run.op /\ run'.pc = run.pc /\ run'.names = run.names /\ run'.before = run.before
      /\ run'.rotated = run.rotated /\ run'.clean = run.clean /\ run'.seen = run.seen \cup {s}
  BY <1>1 DEF RotationInv, RunOK
<1>3. Drawn' <=> Drawn
  BY <1>2 DEF Drawn
<1>4. RunOK'
  BY <1>1, <1>2, <1>3 DEF RotationInv, RunOK
<1>5. TypeOK' /\ StrayOK'
  BY <1>1, <1>2 DEF RotationInv, TypeOK, StrayOK
<1>6. trouble["edit"] = 0 => Memory' /\ Known' /\ Looked'
  BY <1>1, <1>2, <1>3 DEF RotationInv, Memory, Known, Looked, Astray
<1> QED
  BY <1>1, <1>4, <1>5, <1>6 DEF RotationInv

\* What a playbook that was left behind sets is on record.
LEMMA StrayStep ==
    ASSUME RotationInv, NEW t \in stray, StrayApplies(t)
    PROVE  RotationInv'
<1>1. /\ held' = [held EXCEPT ![t[1]] = t[2]] \/ held' = held
      /\ stray' \subseteq stray /\ UNCHANGED <<file, run, cancel, verdict, values, left, trouble>>
  BY DEF StrayApplies
<1>2. t[1] \in Secrets /\ t[2] \in 0 .. MaxValue /\ <<t[1], t[2]>> \in left
  BY DEF RotationInv, TypeOK, StrayOK
<1>3. held' \in [Secrets -> 0 .. MaxValue]
  BY <1>1, <1>2 DEF RotationInv, TypeOK
<1>4. TypeOK' /\ RunOK' /\ StrayOK'
  BY <1>1, <1>3 DEF RotationInv, TypeOK, RunOK, StrayOK, Drawn
<1>5. \A s \in Secrets : held'[s] = held[s] \/ Astray(s)'
  BY <1>1, <1>2 DEF RotationInv, TypeOK, Astray
<1>6. trouble["edit"] = 0 => Memory'
  BY <1>1 DEF RotationInv, Memory, Drawn
<1>7. trouble["edit"] = 0 => Known'
  BY <1>1, <1>5 DEF RotationInv, Known, Astray, Drawn
<1>8. trouble["edit"] = 0 => Looked'
  BY <1>1, <1>5 DEF RotationInv, RunOK, Looked, Astray
<1> QED
  BY <1>1, <1>4, <1>6, <1>7, <1>8 DEF RotationInv

\* Restore puts the remembered values back, or refuses after an edit.
LEMMA RestoreStep == RotationInv /\ Restore => RotationInv'
<1> SUFFICES ASSUME RotationInv, Restore PROVE RotationInv'
  OBVIOUS
<1>1. CASE \A s \in run.names : file[s] = run.rotated[s]
  <2>1. /\ run.pc = "restore" /\ run' = [run EXCEPT !.pc = "rollback", !.seen = {}]
        /\ file' = [s \in Secrets |-> IF s \in run.names THEN run.before[s] ELSE file[s]]
        /\ UNCHANGED <<cancel, verdict, held, values, stray, left, trouble>>
    BY <1>1 DEF Restore, playbooks
  <2>2. /\ run'.op = run.op /\ run'.pc = "rollback" /\ run'.names = run.names
        /\ run'.before = run.before /\ run'.rotated = run.rotated /\ run'.clean = run.clean
        /\ run'.seen = {}
    BY <2>1 DEF RotationInv, RunOK
  <2>3. run.op \in {"job", "cli"} /\ Drawn /\ Drawn'
    BY <2>1, <2>2 DEF RotationInv, RunOK, TypeOK, Drawn
  <2>4. file' \in [Secrets -> Values]
    BY <2>1, <2>3 DEF RotationInv, RunOK, TypeOK, Values
  <2>5. RunOK'
    BY <2>1, <2>2, <2>3 DEF RotationInv, RunOK
  <2>6. TypeOK'
    BY <2>1, <2>2, <2>3, <2>4 DEF RotationInv, TypeOK, Values
  <2>7. trouble["edit"] = 0 => file' = run.before
    <3> SUFFICES ASSUME trouble["edit"] = 0 PROVE file' = run.before
      OBVIOUS
    <3>1. \A s \in Secrets : file'[s] = run.before[s]
      BY <2>1, <2>3 DEF RotationInv, Memory
    <3> QED
      BY <2>3, <2>4, <3>1 DEF RotationInv, RunOK
  <2>8. trouble["edit"] = 0 => Memory' /\ Known' /\ Looked'
    BY <2>1, <2>2, <2>3, <2>7 DEF RotationInv, Memory, Known, Looked, Astray
  <2> QED
    BY <2>1, <2>5, <2>6, <2>8 DEF RotationInv, StrayOK
<1>2. CASE ~(\A s \in run.names : file[s] = run.rotated[s])
  <2>1. StraysTyped' /\ StrayOK'
    BY LeaveFacts DEF Restore, Leave
  <2> QED
    BY <1>2, <2>1, FinishStep DEF Restore, Verdicts, RotationInv, TypeOK
<1> QED
  BY <1>1, <1>2

\* The ends of the two deployments.
LEMMA EndSteps ==
    ASSUME RotationInv,
           \/ Dump \/ DeployConverges \/ DeployFails \/ Interrupted
           \/ RollbackConverges \/ RollbackFails \/ RollbackRaises \/ Kill
    PROVE  RotationInv'
<1> USE FaultFacts DEF Kinds
<1>1. run \in [op : {"none", "job", "cli", "deploy"},
               pc : {"idle", "dump", "rotate", "deploy", "restore", "rollback"},
               names : SUBSET Secrets, before : [Secrets -> Values \cup {None}],
               rotated : [Secrets -> Values \cup {None}], seen : SUBSET Secrets,
               shield : BOOLEAN, hurt : BOOLEAN, clean : BOOLEAN]
      /\ TypeOK /\ trouble \in [Kinds -> 0 .. MaxFaults]
  BY DEF RotationInv, RunOK, TypeOK
<1>2. Leave /\ StraysTyped' /\ StrayOK' /\ left \subseteq left'
  <2>1. Leave
    BY DEF Dump, DeployConverges, DeployFails, Interrupted, RollbackConverges, RollbackFails,
           RollbackRaises, Kill, Leave
  <2> QED
    BY <2>1, LeaveFacts
<1>3. ASSUME NEW v \in Verdicts, Finish(v), UNCHANGED <<file, held, values>>,
             trouble' = trouble \/ \E k \in Kinds : Fault(k)
      PROVE  RotationInv'
  BY <1>1, <1>2, <1>3, FinishStep
<1>4. CASE Dump
  <2>1. ASSUME run' = [run EXCEPT !.pc = "rotate"], UNCHANGED <<cancel, verdict>> PROVE RotationInv'
    <3>1. run' = [run EXCEPT !.pc = "rotate", !.shield = run.shield, !.hurt = run.hurt]
      BY <1>1, <2>1
    <3> QED
      BY <1>1, <1>2, <1>4, <2>1, <3>1, MoveStep DEF Dump
  <2> QED
    BY <1>3, <1>4, <2>1 DEF Dump, Verdicts
<1>5. CASE DeployConverges \/ RollbackConverges
  BY <1>3, <1>5 DEF DeployConverges, RollbackConverges, AfterRollback, Verdicts
<1>6. CASE RollbackFails \/ RollbackRaises
  BY <1>3, <1>6 DEF RollbackFails, RollbackRaises, AfterRollback, Verdicts
<1>7. CASE Kill
  BY <1>3, <1>7 DEF Kill, Verdicts
<1>8. CASE DeployFails
  <2>1. /\ run.pc = "deploy" /\ UNCHANGED <<file, held, values>>
        /\ trouble' = trouble \/ Fault("outage")
    BY <1>8 DEF DeployFails
  <2>2. CASE run.op = "deploy"
    BY <1>3, <1>8, <2>1, <2>2 DEF DeployFails, Verdicts
  <2>3. CASE run.op # "deploy"
    <3>1. /\ run' = [run EXCEPT !.pc = "restore", !.shield = run.op = "job", !.hurt = run.hurt]
          /\ cancel' \in {cancel, FALSE} /\ UNCHANGED verdict
      BY <1>1, <1>8, <2>3 DEF DeployFails
    <3>2. run.op \in {"job", "cli"} /\ (run.op = "job") \in BOOLEAN
      BY <1>1, <2>1, <2>3 DEF TypeOK
    <3>3. trouble' \in [Kinds -> 0 .. MaxFaults] /\ trouble'["edit"] = trouble["edit"]
      BY <1>1, <2>1
    <3> QED
      BY <1>1, <1>2, <2>1, <3>1, <3>2, <3>3, MoveStep
  <2> QED
    BY <2>2, <2>3
<1>9. CASE Interrupted
  <2>1. run.pc = "deploy" /\ UNCHANGED <<file, held, values>> /\ Fault("interrupt")
    BY <1>9 DEF Interrupted
  <2>2. CASE run.op = "deploy"
    BY <1>3, <1>9, <2>1, <2>2 DEF Interrupted, Verdicts
  <2>3. CASE run.op # "deploy"
    <3>1. /\ run' = [run EXCEPT !.pc = "restore", !.shield = TRUE, !.hurt = TRUE]
          /\ cancel' = FALSE /\ UNCHANGED verdict
      BY <1>9, <2>3 DEF Interrupted
    <3>2. run.op \in {"job", "cli"}
      BY <1>1, <2>1, <2>3 DEF TypeOK
    <3>3. trouble' \in [Kinds -> 0 .. MaxFaults] /\ trouble'["edit"] = trouble["edit"]
      BY <1>1, <2>1
    <3> QED
      BY <1>2, <2>1, <3>1, <3>2, <3>3, MoveStep
  <2> QED
    BY <2>2, <2>3
<1> QED
  BY <1>4, <1>5, <1>6, <1>7, <1>8, <1>9

\* The operator: a cancellation marker, or an edit, which ends what Memory says.
LEMMA OperatorSteps ==
    ASSUME RotationInv, RequestCancel \/ (\E s \in Secrets : Edit(s))
    PROVE  RotationInv'
<1>1. CASE RequestCancel
  <2>1. /\ run.op # "none" /\ UNCHANGED <<file, held, run, verdict, values, stray, left>>
        /\ trouble' \in [Kinds -> 0 .. MaxFaults] /\ trouble'["edit"] = trouble["edit"]
    BY <1>1, FaultFacts DEF RequestCancel, Kinds, RotationInv, playbooks
  <2>2. TypeOK'
    BY <2>1 DEF RotationInv, TypeOK
  <2>3. /\ (RunOK' <=> RunOK) /\ (Memory' <=> Memory) /\ (Known' <=> Known)
        /\ (Looked' <=> Looked) /\ (StrayOK' <=> StrayOK)
    BY <2>1 DEF RunOK, Memory, Known, Looked, StrayOK, Astray, Drawn
  <2> QED
    BY <2>1, <2>2, <2>3 DEF RotationInv
<1>2. ASSUME NEW s \in Secrets, Edit(s) PROVE RotationInv'
  <2>1. /\ UNCHANGED <<held, run, cancel, verdict, stray, left>>
        /\ values' = values + 1 /\ values < MaxValue
        /\ file' = [file EXCEPT ![s] = values + 1]
        /\ trouble' \in [Kinds -> 0 .. MaxFaults] /\ trouble'["edit"] > 0
    BY <1>2, FaultFacts DEF Edit, Kinds, RotationInv, playbooks
  <2>2. values + 1 \in Values
    BY <2>1, SecretRotationAssumption DEF RotationInv, TypeOK, Values
  <2>3. TypeOK' /\ RunOK' /\ StrayOK'
    BY <2>1, <2>2 DEF RotationInv, TypeOK, RunOK, StrayOK, Drawn, Values
  <2> QED
    BY <2>1, <2>3 DEF RotationInv
<1> QED
  BY <1>1, <1>2

\* The invariant holds throughout.
THEOREM RotationInvariant == Spec => []RotationInv
<1>1. Init => RotationInv
  <2> SUFFICES ASSUME Init PROVE RotationInv
    OBVIOUS
  <2>1. /\ run.op = "none" /\ run.pc = "idle" /\ run.names = {} /\ run.clean = FALSE /\ run.seen = {}
    BY DEF Init, Idle
  <2>2. RunOK
    BY <2>1 DEF Init, RunOK, Idle, Drawn
  <2>3. TypeOK
    BY <2>1, SecretRotationAssumption DEF Init, TypeOK
  <2> QED
    BY <2>1, <2>2, <2>3 DEF RotationInv, Memory, Known, Looked, StrayOK, Drawn, Init
<1>2. RotationInv /\ [Next]_rotationVars => RotationInv'
  <2> SUFFICES ASSUME RotationInv, [Next]_rotationVars PROVE RotationInv'
    OBVIOUS
  <2>1. CASE UNCHANGED rotationVars
    BY <2>1 DEF rotationVars, RotationInv, TypeOK, RunOK, StrayOK, Memory, Known, Looked, Astray, Drawn
  <2> QED
    BY <2>1, BeginStep, RotateStep, ReconcileStep, LookStep, RestoreStep, EndSteps, OperatorSteps,
       StrayStep DEF Next
<1> QED
  BY <1>1, <1>2, PTL DEF Spec

\* While a rotation lives, the credential a service accepts is in the secrets
\* file or in the memory of the process (rotate_secret_values,
\* restore_secret_values), through failures, cancellations and interrupts, or
\* is one that a playbook had with it that an operation left behind.
THEOREM WayBackExists == Spec => []WayBackIsKnown
<1>1. RotationInv => WayBackIsKnown
  BY DEF RotationInv, Known, WayBackIsKnown
<1> QED
  BY <1>1, RotationInvariant, PTL

\* "ok" and "restored" are told only of a fleet that agrees with the file, but
\* for what playbooks left behind did to services already looked at; and
\* "restored" only when the file holds the old values.
THEOREM VerdictsAreTrue == Spec => VerdictIsTrue
<1>1. RotationInv /\ [Next]_rotationVars =>
        [verdict' \in {"ok", "restored"} /\ verdict = "none" /\ trouble.edit = 0 =>
            /\ \A s \in Secrets : held'[s] # file'[s] => Astray(s)'
            /\ verdict' = "restored" => \A s \in run.names : file'[s] = run.before[s]]_rotationVars
  <2> SUFFICES ASSUME RotationInv, Next, verdict' \in {"ok", "restored"}, verdict = "none",
                      trouble.edit = 0
               PROVE  /\ \A s \in Secrets : held'[s] # file'[s] => Astray(s)'
                      /\ verdict' = "restored" => \A s \in run.names : file'[s] = run.before[s]
    BY DEF rotationVars
  <2>1. \/ DeployConverges /\ verdict' = "ok"
        \/ RollbackConverges
    BY DEF Next, Begin, Dump, Rotate, Reconcile, Look, DeployConverges, DeployFails, Interrupted, Restore,
           RollbackConverges, RollbackFails, RollbackRaises, AfterRollback, RequestCancel, Kill, Edit,
           StrayApplies, Finish
  <2>2. run.seen = Secrets /\ UNCHANGED <<file, held, left>>
    BY <2>1 DEF DeployConverges, RollbackConverges, playbooks
  <2>3. \A s \in Secrets : held'[s] # file'[s] => Astray(s)'
    BY <2>2 DEF RotationInv, Looked, Astray
  <2>4. RollbackConverges => run.pc = "rollback" /\ Drawn
    BY DEF RollbackConverges, RotationInv, RunOK, TypeOK, Drawn
  <2> QED
    BY <2>1, <2>2, <2>3, <2>4 DEF RotationInv, Memory
<1> QED
  BY <1>1, RotationInvariant, PTL DEF Spec, VerdictIsTrue

\* An operation that found file and services in agreement never leaves them in
\* disagreement behind a verdict that does not say so, unless the disagreement
\* is the work of a playbook that was left behind.
THEOREM LossesAreReported == Spec => LossIsReported
<1>1. RotationInv /\ [Next]_rotationVars =>
        [run.clean /\ run'.op = "none" /\ trouble.edit = 0
         => \/ verdict' \in {"not_converged", "blocked", "interrupted", "killed"}
            \/ \A s \in Secrets : held'[s] # file'[s] => Astray(s)']_rotationVars
  <2> SUFFICES ASSUME RotationInv, Next, run.clean, run'.op = "none", trouble.edit = 0,
                      verdict' \notin {"not_converged", "blocked", "interrupted", "killed"},
                      NEW s \in Secrets, held'[s] # file'[s]
               PROVE  Astray(s)'
    BY DEF rotationVars
  <2>1. run.op # "none" /\ Memory /\ Known /\ Looked
    BY DEF RotationInv, RunOK
  <2>2. \/ Dump \/ DeployConverges \/ DeployFails \/ RollbackConverges \/ Interrupted
    <3>1. run' # run
      BY <2>1
    <3>2. ~Rotate /\ \A i : ~Look(i)
      BY <2>1 DEF Rotate, Look, RotationInv, RunOK
    <3>3. ~Restore
      BY <2>1 DEF Restore, Finish, RotationInv, RunOK
    <3>4. \A op, S : ~Begin(op, S)
      BY <2>1 DEF Begin
    <3>5. ~Kill /\ ~RollbackFails /\ ~RollbackRaises
      BY DEF Kill, RollbackFails, RollbackRaises, AfterRollback, Finish
    <3> QED
      BY <3>1, <3>2, <3>3, <3>4, <3>5 DEF Next, Reconcile, RequestCancel, Edit, StrayApplies
  <2>3. UNCHANGED <<file, held>> /\ left \subseteq left'
    <3>1. UNCHANGED <<file, held>> /\ Leave
      BY <2>2 DEF Dump, DeployConverges, DeployFails, RollbackConverges, Interrupted, Leave
    <3> QED
      BY <3>1, LeaveFacts
  <2>4. CASE DeployConverges \/ RollbackConverges
    <3>1. s \in run.seen
      BY <2>4 DEF DeployConverges, RollbackConverges
    <3> QED
      BY <2>1, <2>3, <3>1 DEF Looked, Astray
  <2>5. CASE ~Drawn
    BY <2>1, <2>3, <2>5 DEF Known, Astray
  <2>6. CASE Dump
    BY <2>5, <2>6 DEF Dump, Drawn
  <2>7. CASE DeployFails \/ Interrupted
    <3>1. run.op = "deploy"
      BY <2>1, <2>7 DEF DeployFails, Interrupted, RotationInv, RunOK
    <3> QED
      BY <2>5, <3>1 DEF Drawn
  <2> QED
    BY <2>2, <2>4, <2>6, <2>7
<1> QED
  BY <1>1, RotationInvariant, PTL DEF Spec, LossIsReported
=============================================================================
