------------------------ MODULE JobAdmissionProofs ------------------------
(***************************************************************************)
(* Admission, for any number of rows, requests, plans, tokens, principals  *)
(* and deliveries: a destroy job is always an approved one, an approval    *)
(* admits one job for all time, the active limits hold whichever way jobs  *)
(* come in, and a delivery is accepted as a whole.                         *)
(***************************************************************************)
EXTENDS JobAdmission, FiniteSetTheorems, TLAPS

Approvals == [plan : Plans, by : Principals, left : Int, used : BOOLEAN]

\* The tables, as far as destroy jobs are concerned.
Tables ==
    /\ request \in [Rows -> Requests \cup {NoRequest}]
    /\ plan \in [Plans -> [by : Principals, spec : Specs] \cup {NoPlan}]
    /\ approval \in [Tokens -> Approvals \cup {NoApproval}]

AdmissionInv == Tables /\ DestroyIsApproved /\ ApprovalIsUsedOnce

-----------------------------------------------------------------------------
\* The plan and the approval in the row of a destroy job are the ones in the tables.
Approved(j) ==
    /\ plan[request[j].plan] = [by |-> request[j].by, spec |-> request[j].spec]
    /\ approval[request[j].token] # NoApproval
    /\ approval[request[j].token].plan = request[j].plan
    /\ approval[request[j].token].by = request[j].by
    /\ approval[request[j].token].used

Destroys(j) == j \in Rows /\ request[j] # NoRequest /\ request[j].kind = DestroyKind

\* DestroyIsApproved, row by row.
LEMMA ApprovedRows == DestroyIsApproved <=> \A j \in Rows : Destroys(j) => Approved(j)
BY DEF DestroyIsApproved, Approved, Destroys, Existing

\* ApprovalIsUsedOnce, for two rows of the jobs table.
LEMMA DistinctRows ==
    ApprovalIsUsedOnce <=>
        \A i, j \in Rows : Destroys(i) /\ Destroys(j) /\ request[i].token = request[j].token => i = j
BY DEF ApprovalIsUsedOnce, Destroys, Existing

\* The row of a destroy job names a plan and a token.
LEMMA DestroyRow ==
    ASSUME Tables, NEW j \in Rows, Destroys(j)
    PROVE  request[j] \in Requests /\ request[j].plan \in Plans /\ request[j].token \in Tokens
BY AdmissionAssumption DEF Tables, Destroys

\* create_plan writes a plan that no job refers to yet.
LEMMA CreatePlanStep ==
    ASSUME AdmissionInv, NEW p \in Plans, NEW u \in Principals, NEW s \in Specs, CreatePlan(p, u, s)
    PROVE  AdmissionInv'
<1>1. Tables /\ plan[p] = NoPlan /\ request' = request /\ approval' = approval
      /\ plan' = [plan EXCEPT ![p] = [by |-> u, spec |-> s]]
  BY DEF AdmissionInv, CreatePlan
<1>2. Tables'
  BY <1>1 DEF Tables
<1>3. ASSUME NEW j \in Rows, Destroys(j)' PROVE Approved(j)'
  <2>1. Destroys(j)
    BY <1>1, <1>3 DEF Destroys
  <2>2. Approved(j)
    BY <2>1, ApprovedRows DEF AdmissionInv
  <2>3. request[j].plan \in Plans
    BY <1>1, <2>1, DestroyRow
  <2>4. request[j] \in Requests /\ request[j].by \in Principals /\ request[j].spec \in Specs
    BY <1>1, <2>1, DestroyRow, AdmissionAssumption DEF Destroys
  <2>5. request[j].plan # p
    BY <1>1, <2>2, <2>4, AdmissionAssumption DEF Approved
  <2> QED
    BY <1>1, <2>2, <2>3, <2>5 DEF Approved, Tables
<1>4. DestroyIsApproved'
  BY <1>3 DEF DestroyIsApproved, Approved, Destroys, Existing
<1>5. ApprovalIsUsedOnce'
  BY <1>1 DEF AdmissionInv, ApprovalIsUsedOnce, Existing
<1> QED
  BY <1>2, <1>4, <1>5 DEF AdmissionInv

\* issue_approval draws a token that no job presented yet.
LEMMA IssueApprovalStep ==
    ASSUME AdmissionInv, NEW t \in Tokens, NEW p \in Plans, NEW u \in Principals,
           NEW ttl \in 1 .. MaxTTL, NEW d \in Delays, IssueApproval(t, p, u, ttl, d)
    PROVE  AdmissionInv'
<1>1. Tables /\ approval[t] = NoApproval /\ request' = request /\ plan' = plan
      /\ approval' = [approval EXCEPT ![t] = [plan |-> p, by |-> u, left |-> ttl - d, used |-> FALSE]]
  BY DEF AdmissionInv, IssueApproval
<1>2. ttl - d \in Int
  BY AdmissionAssumption DEF Delays
<1>3. Tables'
  BY <1>1, <1>2 DEF Tables, Approvals
<1>4. ASSUME NEW j \in Rows, Destroys(j)' PROVE Approved(j)'
  <2>1. Destroys(j)
    BY <1>1, <1>4 DEF Destroys
  <2>2. Approved(j) /\ request[j].token \in Tokens
    BY <1>1, <2>1, DestroyRow, ApprovedRows DEF AdmissionInv
  <2>3. request[j].token # t
    BY <1>1, <2>2 DEF Approved
  <2> QED
    BY <1>1, <2>2, <2>3 DEF Approved, Tables
<1>5. DestroyIsApproved'
  BY <1>4 DEF DestroyIsApproved, Approved, Destroys, Existing
<1>6. ApprovalIsUsedOnce'
  BY <1>1 DEF AdmissionInv, ApprovalIsUsedOnce, Existing
<1> QED
  BY <1>3, <1>5, <1>6 DEF AdmissionInv

\* submit_job spends the approval in the transaction that inserts the row.
LEMMA SubmitStep ==
    ASSUME AdmissionInv, NEW r \in Requests, NEW j \in Rows, NEW d \in Delays, SubmitJob(r, j, d)
    PROVE  AdmissionInv'
<1>1. Tables /\ request[j] = NoRequest /\ plan' = plan
      /\ request' = [request EXCEPT ![j] = r]
      /\ approval' = IF r.kind = DestroyKind THEN [approval EXCEPT ![r.token].used = TRUE] ELSE approval
  BY DEF AdmissionInv, SubmitJob
<1>2. r.kind = DestroyKind =>
        /\ plan[r.plan] # NoPlan /\ approval[r.token] # NoApproval
        /\ plan[r.plan].by = r.by /\ plan[r.plan].spec = r.spec
        /\ approval[r.token].plan = r.plan /\ approval[r.token].by = r.by
        /\ ~approval[r.token].used
        /\ r.plan \in Plans /\ r.token \in Tokens
  BY AdmissionAssumption DEF SubmitJob, Consumable
<1>3. Tables'
  <2>1. request' \in [Rows -> Requests \cup {NoRequest}]
    BY <1>1 DEF Tables
  <2>2. ASSUME r.kind = DestroyKind PROVE approval' \in [Tokens -> Approvals \cup {NoApproval}]
    <3>1. approval[r.token] \in Approvals
      BY <1>1, <1>2, <2>2 DEF Tables
    <3>2. [approval[r.token] EXCEPT !.used = TRUE] \in Approvals
      BY <3>1 DEF Approvals
    <3> QED
      BY <1>1, <1>2, <2>2, <3>2 DEF Tables
  <2> QED
    BY <1>1, <2>1, <2>2 DEF Tables
<1>4. ASSUME NEW i \in Rows, i # j, Destroys(i)'
      PROVE  Destroys(i) /\ Approved(i)' /\ (r.kind = DestroyKind => request[i].token # r.token)
  <2>1. request'[i] = request[i] /\ Destroys(i)
    BY <1>1, <1>4 DEF Destroys, Tables
  <2>2. Approved(i) /\ request[i].token \in Tokens
    BY <1>1, <2>1, DestroyRow, ApprovedRows DEF AdmissionInv
  <2>3. r.kind = DestroyKind => request[i].token # r.token
    BY <1>2, <2>2 DEF Approved
  <2>4. approval'[request[i].token] = approval[request[i].token]
    BY <1>1, <2>2, <2>3 DEF Tables
  <2> QED
    BY <1>1, <2>1, <2>2, <2>3, <2>4 DEF Approved
<1>5. ASSUME Destroys(j)' PROVE Approved(j)'
  <2>1. request'[j] = r /\ r.kind = DestroyKind
    BY <1>1, <1>5 DEF Destroys, Tables
  <2>2. plan[r.plan] = [by |-> r.by, spec |-> r.spec]
    BY <1>1, <1>2, <2>1 DEF Tables
  <2>3. approval[r.token] \in Approvals
    BY <1>1, <1>2, <2>1 DEF Tables
  <2>4. approval'[r.token] = [approval[r.token] EXCEPT !.used = TRUE]
    BY <1>1, <1>2, <2>1 DEF Tables
  <2>5. /\ approval'[r.token] \in Approvals /\ approval'[r.token].used
        /\ approval'[r.token].plan = r.plan /\ approval'[r.token].by = r.by
    BY <1>2, <2>1, <2>3, <2>4 DEF Approvals
  <2> QED
    BY <1>1, <2>1, <2>2, <2>5, AdmissionAssumption DEF Approved, Approvals
<1>6. \A i \in Rows : Destroys(i)' => Approved(i)'
  BY <1>4, <1>5
<1>7. DestroyIsApproved'
  BY <1>6 DEF DestroyIsApproved, Approved, Destroys, Existing
<1>8. ASSUME NEW i \in Rows, NEW k \in Rows, Destroys(i)', Destroys(k)',
             request'[i].token = request'[k].token
      PROVE  i = k
  <2>1. CASE i # j /\ k # j
    BY <1>1, <1>4, <1>8, <2>1, DistinctRows DEF AdmissionInv, Tables
  <2>2. CASE i # j /\ k = j
    BY <1>1, <1>4, <1>8, <2>2 DEF Destroys, Tables
  <2>3. CASE i = j /\ k # j
    BY <1>1, <1>4, <1>8, <2>3 DEF Destroys, Tables
  <2> QED
    BY <2>1, <2>2, <2>3
<1>9. ApprovalIsUsedOnce'
  BY <1>8 DEF ApprovalIsUsedOnce, Destroys, Existing
<1> QED
  BY <1>3, <1>7, <1>9 DEF AdmissionInv

\* A delivery inserts webhook jobs, never a destroy job.
LEMMA BatchStep ==
    ASSUME AdmissionInv, NEW B \in Batches, NEW P \in SUBSET B, NEW f \in [P -> Rows],
           SubmitJobBatch(B, f)
    PROVE  AdmissionInv'
<1> DEFINE pending == {r \in B : WithKeyOf(r) = {}}
<1>1. Tables /\ plan' = plan /\ approval' = approval
      /\ request' = [j \in Rows |-> IF \E r \in pending : f[r] = j
                                    THEN CHOOSE r \in pending : f[r] = j ELSE request[j]]
  BY DEF AdmissionInv, SubmitJobBatch
<1>2. \A r \in pending : r \in Requests /\ r.kind = HealKind /\ r.kind # DestroyKind
  BY AdmissionAssumption
<1> HIDE DEF pending
<1>3. ASSUME NEW j \in Rows
      PROVE  \/ request'[j] = request[j]
             \/ request'[j] \in pending
  BY <1>1
<1>4. Tables'
  BY <1>1, <1>2, <1>3 DEF Tables
<1>5. ASSUME NEW j \in Rows, Destroys(j)' PROVE Destroys(j) /\ request'[j] = request[j]
  BY <1>2, <1>3, <1>5 DEF Destroys
<1>6. \A j \in Rows : Destroys(j)' => Approved(j)'
  BY <1>1, <1>5, ApprovedRows DEF AdmissionInv, Approved
<1>7. DestroyIsApproved'
  BY <1>6 DEF DestroyIsApproved, Approved, Destroys, Existing
<1>8. \A i, j \in Rows : Destroys(i)' /\ Destroys(j)' /\ request'[i].token = request'[j].token => i = j
  BY <1>5, DistinctRows DEF AdmissionInv
<1>9. ApprovalIsUsedOnce'
  BY <1>8 DEF ApprovalIsUsedOnce, Destroys, Existing
<1> QED
  BY <1>4, <1>7, <1>9 DEF AdmissionInv

\* Time changes the remaining life of an approval and nothing else of it.
LEMMA TickStep == AdmissionInv /\ Tick => AdmissionInv'
<1> SUFFICES ASSUME AdmissionInv, Tick PROVE AdmissionInv'
  OBVIOUS
<1>1. Tables /\ request' = request /\ plan' = plan
      /\ approval' = [t \in Tokens |->
                        IF approval[t] # NoApproval /\ approval[t].left > -MaxDelay
                        THEN [approval[t] EXCEPT !.left = @ - 1] ELSE approval[t]]
  BY DEF AdmissionInv, Tick
<1>2. ASSUME NEW t \in Tokens
      PROVE  /\ approval'[t] \in Approvals \cup {NoApproval}
             /\ approval[t] # NoApproval =>
                   /\ approval'[t] # NoApproval
                   /\ approval'[t].plan = approval[t].plan /\ approval'[t].by = approval[t].by
                   /\ approval'[t].used = approval[t].used
  <2>1. CASE approval[t] # NoApproval /\ approval[t].left > -MaxDelay
    <3>1. approval[t] \in Approvals /\ approval'[t] = [approval[t] EXCEPT !.left = @ - 1]
      BY <1>1, <2>1 DEF Tables
    <3>2. approval'[t] \in Approvals
      BY <3>1 DEF Approvals
    <3>3. /\ approval'[t].plan = approval[t].plan /\ approval'[t].by = approval[t].by
          /\ approval'[t].used = approval[t].used
      BY <3>1 DEF Approvals
    <3> QED
      BY <3>2, <3>3, AdmissionAssumption DEF Approvals
  <2>2. CASE ~(approval[t] # NoApproval /\ approval[t].left > -MaxDelay)
    <3>1. approval'[t] = approval[t]
      BY <1>1, <2>2
    <3> QED
      BY <1>1, <3>1 DEF Tables
  <2> QED
    BY <2>1, <2>2
<1>3. Tables'
  BY <1>1, <1>2 DEF Tables
<1>4. ASSUME NEW j \in Rows, Destroys(j)' PROVE Approved(j)'
  <2>1. Destroys(j)
    BY <1>1, <1>4 DEF Destroys
  <2>2. Approved(j) /\ request[j].token \in Tokens
    BY <1>1, <2>1, DestroyRow, ApprovedRows DEF AdmissionInv
  <2> QED
    BY <1>1, <1>2, <2>2 DEF Approved
<1>5. DestroyIsApproved'
  BY <1>4 DEF DestroyIsApproved, Approved, Destroys, Existing
<1>6. ApprovalIsUsedOnce'
  BY <1>1 DEF AdmissionInv, ApprovalIsUsedOnce, Existing
<1> QED
  BY <1>3, <1>5, <1>6 DEF AdmissionInv

\* Submissions, deliveries, plans, approvals and time keep the invariant; what
\* becomes of a job afterwards does not touch it.
THEOREM AdmissionInvariant == Spec => []AdmissionInv
<1>1. Init => AdmissionInv
  BY DEF Init, AdmissionInv, Tables, DestroyIsApproved, ApprovalIsUsedOnce, Existing
<1>2. AdmissionInv /\ [Next]_admissionVars => AdmissionInv'
  <2> SUFFICES ASSUME AdmissionInv, [Next]_admissionVars PROVE AdmissionInv'
    OBVIOUS
  <2>1. ASSUME NEW j \in Rows, Progress(j) PROVE AdmissionInv'
    BY <2>1 DEF Progress, AdmissionInv, Tables, DestroyIsApproved, ApprovalIsUsedOnce, Existing
  <2>2. CASE UNCHANGED admissionVars
    BY <2>2 DEF admissionVars, AdmissionInv, Tables, DestroyIsApproved, ApprovalIsUsedOnce, Existing
  <2> QED
    BY <2>1, <2>2, CreatePlanStep, IssueApprovalStep, SubmitStep, BatchStep, TickStep DEF Next
<1> QED
  BY <1>1, <1>2, PTL DEF Spec

\* Every destroy job that submit_job ever accepted destroys exactly what its
\* principal planned, and that principal's approval is spent on it.
THEOREM DestroysAreApproved == Spec => []DestroyIsApproved
BY AdmissionInvariant, PTL DEF AdmissionInv

\* An approval admits one destroy job for all time, under whatever idempotency
\* key, by whichever principal and however long the write lock is waited for.
THEOREM ApprovalsAreSingleUse == Spec => []ApprovalIsUsedOnce
BY AdmissionInvariant, PTL DEF AdmissionInv

-----------------------------------------------------------------------------
(* Limits.                                                                 *)

ApprovalRows == [plan : Plans, by : Principals, left : -MaxDelay .. MaxTTL, used : BOOLEAN]

\* Where a job may move to.
LEMMA Moves ==
    ASSUME NEW s, NEW t \in Transitions(s)
    PROVE  s \in Active /\ t \in Active \cup Terminal
<1>1. s \in Active
  BY DEF Transitions, Active
<1>2. CASE s = "QUEUED"
  BY <1>2 DEF Transitions, Active, Terminal
<1>3. CASE s = "RUNNING"
  BY <1>3 DEF Transitions, Active, Terminal
<1>4. CASE s = "CANCEL_REQUESTED"
  BY <1>4 DEF Transitions, Active, Terminal
<1> QED
  BY <1>1, <1>2, <1>3, <1>4 DEF Active

\* Every operation keeps the types of the approvals table.
LEMMA ApprovalTypes ==
    ASSUME TypeOK, [Next]_admissionVars
    PROVE  approval' \in [Tokens -> ApprovalRows \cup {NoApproval}]
<1>1. approval \in [Tokens -> ApprovalRows \cup {NoApproval}] /\ MaxDelay \in Nat /\ MaxTTL \in Nat
  BY AdmissionAssumption DEF TypeOK, ApprovalRows
<1>2. ASSUME NEW t \in Tokens, NEW p \in Plans, NEW u \in Principals, NEW ttl \in 1 .. MaxTTL,
             NEW d \in Delays, IssueApproval(t, p, u, ttl, d)
      PROVE  approval' \in [Tokens -> ApprovalRows \cup {NoApproval}]
  <2>1. ttl - d \in -MaxDelay .. MaxTTL
    BY <1>1, <1>2 DEF Delays
  <2>2. [plan |-> p, by |-> u, left |-> ttl - d, used |-> FALSE] \in ApprovalRows
    BY <2>1 DEF ApprovalRows
  <2> QED
    BY <1>1, <1>2, <2>2 DEF IssueApproval
<1>3. ASSUME NEW r \in Requests, NEW j \in Rows, NEW d \in Delays, SubmitJob(r, j, d)
      PROVE  approval' \in [Tokens -> ApprovalRows \cup {NoApproval}]
  <2>1. CASE r.kind # DestroyKind
    BY <1>1, <1>3, <2>1 DEF SubmitJob
  <2>2. CASE r.kind = DestroyKind
    <3>1. r.token \in Tokens /\ approval[r.token] \in ApprovalRows
      BY <1>1, <1>3, <2>2, AdmissionAssumption DEF SubmitJob, Consumable
    <3>2. [approval[r.token] EXCEPT !.used = TRUE] \in ApprovalRows
      BY <3>1 DEF ApprovalRows
    <3> QED
      BY <1>1, <1>3, <2>2, <3>1, <3>2 DEF SubmitJob
  <2> QED
    BY <2>1, <2>2
<1>4. CASE Tick
  <2>1. ASSUME NEW t \in Tokens, approval[t] # NoApproval, approval[t].left > -MaxDelay
        PROVE  [approval[t] EXCEPT !.left = @ - 1] \in ApprovalRows
    <3>1. approval[t] \in ApprovalRows /\ approval[t].left - 1 \in -MaxDelay .. MaxTTL
      BY <1>1, <2>1 DEF ApprovalRows
    <3> QED
      BY <3>1 DEF ApprovalRows
  <2> QED
    BY <1>1, <1>4, <2>1 DEF Tick
<1>5. CASE UNCHANGED approval
  BY <1>1, <1>5
<1> QED
  BY <1>2, <1>3, <1>4, <1>5 DEF Next, CreatePlan, SubmitJobBatch, Progress, admissionVars

\* What a delivery does to the rows: those it fills were empty, hold a request
\* of the delivery and wait; each pending request has one of them.
LEMMA BatchRows ==
    ASSUME NEW B \in Batches, NEW P \in SUBSET B, NEW f \in [P -> Rows], SubmitJobBatch(B, f)
    PROVE  /\ P = {r \in B : WithKeyOf(r) = {}}
           /\ \A r \in P : request[f[r]] = NoRequest /\ request'[f[r]] = r /\ state'[f[r]] = "QUEUED"
           /\ \A j \in Rows : (\A r \in P : f[r] # j) => request'[j] = request[j] /\ state'[j] = state[j]
<1>1. /\ P = {r \in B : WithKeyOf(r) = {}} /\ \A r \in P : request[f[r]] = NoRequest
      /\ \A r, s \in P : f[r] = f[s] => r = s
      /\ request' = [j \in Rows |-> IF \E r \in P : f[r] = j
                                    THEN CHOOSE r \in P : f[r] = j ELSE request[j]]
      /\ state' = [j \in Rows |-> IF \E r \in P : f[r] = j THEN "QUEUED" ELSE state[j]]
  BY DEF SubmitJobBatch
<1>2. ASSUME NEW r \in P PROVE request'[f[r]] = r /\ state'[f[r]] = "QUEUED"
  <2>1. f[r] \in Rows
    OBVIOUS
  <2>2. (CHOOSE s \in P : f[s] = f[r]) = r
    BY <1>1
  <2> QED
    BY <1>1, <2>1, <2>2
<1> QED
  BY <1>1, <1>2

\* Every operation keeps the types of the jobs table, and a row that exists is
\* never changed into another request.
LEMMA RowTypes ==
    ASSUME TypeOK, [Next]_admissionVars
    PROVE  /\ request' \in [Rows -> Requests \cup {NoRequest}]
           /\ state' \in [Rows -> {"none"} \cup Active \cup Terminal]
           /\ \A j \in Rows : request'[j] = NoRequest <=> state'[j] = "none"
           /\ \A j \in Rows : request[j] # NoRequest => request'[j] = request[j]
<1> DEFINE S == {"none"} \cup Active \cup Terminal
<1>1. /\ request \in [Rows -> Requests \cup {NoRequest}] /\ state \in [Rows -> S]
      /\ \A j \in Rows : request[j] = NoRequest <=> state[j] = "none"
      /\ "QUEUED" \in Active /\ "none" \notin Active \cup Terminal /\ NoRequest \notin Requests
  BY AdmissionAssumption DEF TypeOK, Active, Terminal
<1> HIDE DEF S
<1>2. ASSUME NEW r \in Requests, NEW j \in Rows, request[j] = NoRequest,
             request' = [request EXCEPT ![j] = r], state' = [state EXCEPT ![j] = "QUEUED"]
      PROVE  /\ request' \in [Rows -> Requests \cup {NoRequest}] /\ state' \in [Rows -> S]
             /\ \A i \in Rows : request'[i] = NoRequest <=> state'[i] = "none"
             /\ \A i \in Rows : request[i] # NoRequest => request'[i] = request[i]
  BY <1>1, <1>2 DEF S
<1>3. ASSUME NEW j \in Rows, Progress(j)
      PROVE  /\ request' = request /\ state' \in [Rows -> S]
             /\ \A i \in Rows : request'[i] = NoRequest <=> state'[i] = "none"
  <2>1. PICK t \in Transitions(state[j]) : state' = [state EXCEPT ![j] = t]
    BY <1>3 DEF Progress
  <2>2. state[j] \in Active /\ t \in Active \cup Terminal
    BY Moves
  <2>3. state[j] # "none" /\ t # "none" /\ t \in S
    BY <1>1, <2>2 DEF S
  <2> QED
    BY <1>1, <1>3, <2>1, <2>3 DEF Progress
<1>4. ASSUME NEW B \in Batches, NEW P \in SUBSET B, NEW f \in [P -> Rows], SubmitJobBatch(B, f)
      PROVE  /\ request' \in [Rows -> Requests \cup {NoRequest}] /\ state' \in [Rows -> S]
             /\ \A j \in Rows : request'[j] = NoRequest <=> state'[j] = "none"
             /\ \A j \in Rows : request[j] # NoRequest => request'[j] = request[j]
  <2>1. /\ \A r \in P : request[f[r]] = NoRequest /\ request'[f[r]] = r /\ state'[f[r]] = "QUEUED"
        /\ \A j \in Rows : (\A r \in P : f[r] # j) => request'[j] = request[j] /\ state'[j] = state[j]
    BY <1>4, BatchRows
  <2>2. \A r \in P : r \in Requests
    BY <1>4, AdmissionAssumption
  <2>3. request' = [j \in Rows |-> request'[j]] /\ state' = [j \in Rows |-> state'[j]]
    BY <1>4 DEF SubmitJobBatch
  <2>4. ASSUME NEW j \in Rows
        PROVE  /\ request'[j] \in Requests \cup {NoRequest} /\ state'[j] \in S
               /\ request'[j] = NoRequest <=> state'[j] = "none"
               /\ request[j] # NoRequest => request'[j] = request[j]
    <3>1. CASE \E r \in P : f[r] = j
      BY <1>1, <2>1, <2>2, <3>1 DEF S
    <3>2. CASE \A r \in P : f[r] # j
      BY <1>1, <2>1, <3>2
    <3> QED
      BY <3>1, <3>2
  <2> QED
    BY <2>3, <2>4
<1>5. CASE UNCHANGED <<request, state>>
  BY <1>1, <1>5 DEF S
<1>6. ASSUME NEW r \in Requests, NEW j \in Rows, NEW d \in Delays, SubmitJob(r, j, d)
      PROVE  /\ request[j] = NoRequest /\ request' = [request EXCEPT ![j] = r]
             /\ state' = [state EXCEPT ![j] = "QUEUED"]
  BY <1>6 DEF SubmitJob
<1>7. CASE \E r \in Requests, j \in Rows, d \in Delays : SubmitJob(r, j, d)
  BY <1>2, <1>6, <1>7 DEF S
<1>8. CASE \E j \in Rows : Progress(j)
  BY <1>1, <1>3, <1>8 DEF S
<1>9. CASE \E B \in Batches : \E P \in SUBSET B : \E f \in [P -> Rows] : SubmitJobBatch(B, f)
  BY <1>4, <1>9 DEF S
<1> QED
  BY <1>5, <1>7, <1>8, <1>9 DEF S, Next, CreatePlan, IssueApproval, Tick, admissionVars

\* TypeOK is inductive.
LEMMA AdmissionTypes == TypeOK /\ [Next]_admissionVars => TypeOK'
<1> SUFFICES ASSUME TypeOK, [Next]_admissionVars PROVE TypeOK'
  OBVIOUS
<1>1. plan' \in [Plans -> [by : Principals, spec : Specs] \cup {NoPlan}]
  <2>1. ASSUME NEW p \in Plans, NEW u \in Principals, NEW s \in Specs, CreatePlan(p, u, s)
        PROVE  plan' \in [Plans -> [by : Principals, spec : Specs] \cup {NoPlan}]
    BY <2>1 DEF TypeOK, CreatePlan
  <2>2. CASE UNCHANGED plan
    BY <2>2 DEF TypeOK
  <2> QED
    BY <2>1, <2>2 DEF Next, IssueApproval, SubmitJob, SubmitJobBatch, Progress, Tick, admissionVars
<1> QED
  BY <1>1, ApprovalTypes, RowTypes DEF TypeOK, ApprovalRows

\* The inductive invariant: kinds that share a slot have one active job, the
\* webhook jobs are as many as the limit allows.
LimitInv ==
    /\ TypeOK
    /\ \A K \in SharedKinds : \A i, j \in ActiveOf(K) : i = j
    /\ IsFiniteSet(ActiveOf({HealKind})) /\ Cardinality(ActiveOf({HealKind})) <= MaxHeals

\* Apart from the two ways to submit jobs, nothing makes a job active.
LEMMA ActiveSteps ==
    ASSUME TypeOK, [Next]_admissionVars
    PROVE  \/ \A K : ActiveOf(K)' \subseteq ActiveOf(K)
           \/ \E r \in Requests, j \in Rows, d \in Delays : SubmitJob(r, j, d)
           \/ \E B \in Batches : \E P \in SUBSET B : \E f \in [P -> Rows] : SubmitJobBatch(B, f)
<1>1. ASSUME NEW j \in Rows, Progress(j), NEW K PROVE ActiveOf(K)' \subseteq ActiveOf(K)
  <2>1. PICK t \in Transitions(state[j]) : state' = [state EXCEPT ![j] = t]
    BY <1>1 DEF Progress
  <2>2. state[j] \in Active
    BY Moves
  <2>3. \A i \in Rows : state'[i] \in Active => state[i] \in Active
    BY <2>1, <2>2 DEF TypeOK
  <2> QED
    BY <1>1, <2>3 DEF Progress, ActiveOf, Existing
<1>2. ASSUME UNCHANGED <<request, state>>, NEW K PROVE ActiveOf(K)' \subseteq ActiveOf(K)
  BY <1>2 DEF ActiveOf, Existing
<1> QED
  BY <1>1, <1>2 DEF Next, CreatePlan, IssueApproval, Tick, admissionVars

\* Every operation respects the limits.
LEMMA LimitStep == LimitInv /\ [Next]_admissionVars => LimitInv'
<1> SUFFICES ASSUME LimitInv, [Next]_admissionVars PROVE LimitInv'
  OBVIOUS
<1>1. TypeOK /\ TypeOK'
  BY AdmissionTypes DEF LimitInv
<1> DEFINE H == ActiveOf({HealKind})
<1>2. IsFiniteSet(H) /\ Cardinality(H) \in Nat /\ Cardinality(H) <= MaxHeals /\ MaxHeals \in Nat
  BY FS_CardinalityType, AdmissionAssumption DEF LimitInv
<1>3. ASSUME H' \subseteq H PROVE IsFiniteSet(H') /\ Cardinality(H') <= MaxHeals
  <2>1. IsFiniteSet(H') /\ Cardinality(H') <= Cardinality(H)
    BY <1>2, <1>3, FS_Subset
  <2>2. Cardinality(H') \in Nat
    BY <2>1, FS_CardinalityType
  <2> QED
    BY <1>2, <2>1, <2>2
<1>4. ASSUME NEW K \in SharedKinds, ActiveOf(K)' \subseteq ActiveOf(K)
      PROVE  \A i, j \in ActiveOf(K)' : i = j
  BY <1>4 DEF LimitInv
<1>5. CASE \A K : ActiveOf(K)' \subseteq ActiveOf(K)
  BY <1>1, <1>3, <1>4, <1>5 DEF LimitInv
<1>6. ASSUME NEW r \in Requests, NEW j \in Rows, NEW d \in Delays, SubmitJob(r, j, d) PROVE LimitInv'
  <2>1. \A i \in Rows : i # j => request'[i] = request[i] /\ state'[i] = state[i]
    BY <1>1, <1>6 DEF SubmitJob, TypeOK
  <2>2. request'[j] = r /\ r.kind # HealKind
    BY <1>1, <1>6 DEF SubmitJob, TypeOK
  <2>3. ASSUME NEW K, r.kind \notin K PROVE ActiveOf(K)' \subseteq ActiveOf(K)
    BY <2>1, <2>2, <2>3 DEF ActiveOf, Existing
  <2>4. ASSUME NEW K \in SharedKinds, r.kind \in K PROVE ActiveOf(K)' \subseteq {j}
    <3>1. ActiveOf(K) = {}
      BY <1>6, <2>4 DEF SubmitJob, HasSlot
    <3> QED
      BY <2>1, <3>1 DEF ActiveOf, Existing
  <2>5. H' \subseteq H
    BY <2>2, <2>3
  <2>6. \A K \in SharedKinds : \A i, k \in ActiveOf(K)' : i = k
    BY <1>4, <2>3, <2>4
  <2> QED
    BY <1>1, <1>3, <2>5, <2>6 DEF LimitInv
<1>7. ASSUME NEW B \in Batches, NEW P \in SUBSET B, NEW f \in [P -> Rows], SubmitJobBatch(B, f)
      PROVE  LimitInv'
  <2>1. /\ P = {r \in B : WithKeyOf(r) = {}}
        /\ \A r \in P : request'[f[r]] = r
        /\ \A j \in Rows : (\A r \in P : f[r] # j) => request'[j] = request[j] /\ state'[j] = state[j]
    BY <1>7, BatchRows
  <2>2. \A r \in P : r.kind = HealKind
    BY <1>7, AdmissionAssumption
  <2>3. ASSUME NEW K \in SharedKinds PROVE ActiveOf(K)' \subseteq ActiveOf(K)
    BY <2>1, <2>2, <2>3, AdmissionAssumption DEF ActiveOf, Existing
  <2> DEFINE F == {f[r] : r \in P}
  <2>4. H' \subseteq H \cup F
    BY <2>1 DEF ActiveOf, Existing
  <2>5. IsFiniteSet(P) /\ Cardinality(P) \in Nat /\ Cardinality(H) + Cardinality(P) <= MaxHeals
    <3>1. IsFiniteSet(P)
      BY FS_Subset, DeliveryAssumption
    <3> QED
      BY <1>7, <2>1, <3>1, FS_CardinalityType DEF SubmitJobBatch
  <2>6. IsFiniteSet(F) /\ Cardinality(F) <= Cardinality(P) /\ Cardinality(F) \in Nat
    <3>1. [r \in P |-> f[r]] \in Surjection(P, F)
      BY DEF Surjection
    <3> QED
      BY <2>5, <3>1, FS_Surjection, FS_CardinalityType
  <2>7. /\ IsFiniteSet(H \cup F) /\ Cardinality(H \cup F) \in Nat
        /\ Cardinality(H \cup F) = Cardinality(H) + Cardinality(F) - Cardinality(H \cap F)
        /\ Cardinality(H \cap F) \in Nat
    BY <1>2, <2>6, FS_Union, FS_Intersection, FS_CardinalityType
  <2>8. IsFiniteSet(H') /\ Cardinality(H') <= Cardinality(H \cup F)
    BY <2>4, <2>7, FS_Subset
  <2>9. Cardinality(H') \in Nat
    BY <2>8, FS_CardinalityType
  <2>10. Cardinality(H') <= MaxHeals
    BY <1>2, <2>5, <2>6, <2>7, <2>8, <2>9
  <2>11. \A K \in SharedKinds : \A i, j \in ActiveOf(K)' : i = j
    BY <1>4, <2>3
  <2> QED
    BY <1>1, <2>8, <2>10, <2>11 DEF LimitInv
<1> QED
  BY <1>1, <1>5, <1>6, <1>7, ActiveSteps

\* However submissions, deliveries, cancellations and verdicts interleave, at
\* most one job of the kinds that share a slot and at most _MAX_ACTIVE_HEALS
\* webhook jobs are not settled.
THEOREM LimitsHold == Spec => []ActiveLimits
<1>1. Init => LimitInv
  <2> SUFFICES ASSUME Init PROVE LimitInv
    OBVIOUS
  <2>1. TypeOK
    BY DEF Init, TypeOK
  <2>2. \A K : ActiveOf(K) = {}
    BY DEF Init, ActiveOf, Existing
  <2>3. IsFiniteSet({}) /\ Cardinality({}) <= MaxHeals
    BY FS_EmptySet, AdmissionAssumption
  <2> QED
    BY <2>1, <2>2, <2>3 DEF LimitInv
<1>2. LimitInv => ActiveLimits
  <2> SUFFICES ASSUME LimitInv PROVE ActiveLimits
    OBVIOUS
  <2>1. TypeOK
    BY DEF LimitInv
  <2>2. ASSUME NEW K
        PROVE  {j \in Existing : state[j] \notin Terminal /\ request[j].kind \in K} = ActiveOf(K)
    <3>1. \A j \in Existing : state[j] \notin Terminal <=> state[j] \in Active
      BY <2>1 DEF TypeOK, Existing, Active, Terminal
    <3> QED
      BY <3>1 DEF ActiveOf
  <2>3. ASSUME NEW K \in SharedKinds PROVE Cardinality(ActiveOf(K)) <= 1
    <3>1. CASE ActiveOf(K) = {}
      BY <3>1, FS_EmptySet
    <3>2. CASE ActiveOf(K) # {}
      <4>1. PICK j \in ActiveOf(K) : TRUE
        BY <3>2
      <4>2. ActiveOf(K) = {j}
        BY <4>1 DEF LimitInv
      <4> QED
        BY <4>2, FS_Singleton
    <3> QED
      BY <3>1, <3>2
  <2> QED
    BY <2>1, <2>2, <2>3 DEF LimitInv, ActiveLimits
<1> QED
  BY <1>1, <1>2, LimitStep, PTL DEF Spec

-----------------------------------------------------------------------------
(* Deliveries.                                                             *)

\* Every operation accepts a delivery as a whole or leaves it out as a whole:
\* nobody else writes rows with its keys.
LEMMA DeliveryStep ==
    ASSUME TypeOK, TypeOK', DeliveryIsWhole, [Next]_admissionVars PROVE DeliveryIsWhole'
<1>1. ASSUME NEW r PROVE WithKeyOf(r) \subseteq WithKeyOf(r)'
  BY RowTypes, AdmissionAssumption DEF WithKeyOf, Existing
<1>2. ASSUME NEW B \in Batches, \A r \in B : WithKeyOf(r)' \subseteq WithKeyOf(r)
      PROVE  (\E r \in B : WithKeyOf(r)' # {}) => (\A r \in B : WithKeyOf(r)' # {})
  BY <1>1, <1>2 DEF DeliveryIsWhole
<1>3. ASSUME UNCHANGED request PROVE DeliveryIsWhole'
  BY <1>3 DEF DeliveryIsWhole, WithKeyOf, Existing
<1>4. ASSUME NEW r \in Requests, NEW j \in Rows, NEW d \in Delays, SubmitJob(r, j, d)
      PROVE  DeliveryIsWhole'
  <2>1. /\ \A i \in Rows : i # j => request'[i] = request[i]
        /\ request'[j] = r /\ r.kind # HealKind
    BY <1>4 DEF SubmitJob, TypeOK
  <2>2. ASSUME NEW B \in Batches, NEW s \in B PROVE WithKeyOf(s)' \subseteq WithKeyOf(s)
    <3>1. r.by # s.by
      BY <2>1, <2>2, DeliveryAssumption
    <3> QED
      BY <2>1, <3>1 DEF WithKeyOf, Existing
  <2> QED
    BY <1>2, <2>2 DEF DeliveryIsWhole
<1>5. ASSUME NEW C \in Batches, NEW P \in SUBSET C, NEW f \in [P -> Rows], SubmitJobBatch(C, f)
      PROVE  DeliveryIsWhole'
  <2>1. /\ P = {r \in C : WithKeyOf(r) = {}}
        /\ \A r \in P : request'[f[r]] = r
        /\ \A j \in Rows : (\A r \in P : f[r] # j) => request'[j] = request[j] /\ state'[j] = state[j]
    BY <1>5, BatchRows
  <2>2. ASSUME NEW r \in C PROVE WithKeyOf(r)' # {}
    <3>1. CASE r \in P
      <4>1. f[r] \in Rows /\ request'[f[r]] = r /\ r \in Requests /\ r # NoRequest
        BY <2>1, <2>2, <3>1, AdmissionAssumption
      <4>2. f[r] \in WithKeyOf(r)'
        BY <4>1 DEF WithKeyOf, Existing
      <4> QED
        BY <4>2
    <3>2. CASE r \notin P
      BY <1>1, <2>1, <2>2, <3>2
    <3> QED
      BY <3>1, <3>2
  <2>3. ASSUME NEW B \in Batches, B # C, NEW s \in B PROVE WithKeyOf(s)' \subseteq WithKeyOf(s)
    <3>1. \A r \in P : r.key # s.key
      BY <2>3, DeliveryAssumption
    <3> QED
      BY <2>1, <3>1 DEF WithKeyOf, Existing
  <2> QED
    BY <1>2, <2>2, <2>3 DEF DeliveryIsWhole
<1> QED
  BY <1>3, <1>4, <1>5 DEF Next, CreatePlan, IssueApproval, Progress, Tick, admissionVars

\* The jobs of a webhook delivery are accepted together or not at all, however
\* often it is repeated and whatever was refused for lack of room before.
THEOREM DeliveriesAreWhole == Spec => []DeliveryIsWhole
<1>1. Init => TypeOK /\ DeliveryIsWhole
  BY DEF Init, TypeOK, DeliveryIsWhole, WithKeyOf, Existing
<1>2. TypeOK /\ DeliveryIsWhole /\ [Next]_admissionVars => (TypeOK /\ DeliveryIsWhole)'
  BY AdmissionTypes, DeliveryStep
<1> QED
  BY <1>1, <1>2, PTL DEF Spec
=============================================================================
