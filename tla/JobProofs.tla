----------------------------- MODULE JobProofs -----------------------------
(***************************************************************************)
(* Proofs about jobs.  In three parts: the job store, for any number of    *)
(* jobs and workers, any lease length, clock delay and bound on            *)
(* generations; the event log that the same transactions write, and its    *)
(* followers, for any number of attempts, lines, streams and command line  *)
(* waits, any page size and any number of reconnections; controllers and   *)
(* their children, for any number of jobs, processes, faults and attempts: *)
(* attempts are never shared, and replays of a job never interleave their  *)
(* changes to the deployment.                                              *)
(***************************************************************************)
EXTENDS JobWorker, JobEvents, FiniteSetTheorems, TLAPS

\* Every method of the store keeps the types of the columns.
LEMMA TypeStep == TypeOK /\ [Next]_storeVars => TypeOK'
<1> SUFFICES ASSUME TypeOK, [Next]_storeVars PROVE TypeOK'
  OBVIOUS
<1>1. ASSUME NEW j \in Jobs, NEW A \in SUBSET Jobs, Submit(j, A) PROVE TypeOK'
  BY <1>1, StoreAssumption
    DEF Submit, TypeOK, States, Leased, Terminal, Generations, Delays
<1>2. ASSUME NEW j \in Jobs, NEW w \in WorkerIds, NEW d \in Delays, ClaimNext(w, j, d)
      PROVE  TypeOK'
  <2>1. state' \in [Jobs -> States] /\ owner' \in [Jobs -> WorkerIds \cup {NoWorker}]
    BY <1>2, StoreAssumption
      DEF ClaimNext, TypeOK, States, Leased, Terminal, Generations, Delays
  <2>2. left' \in [Jobs -> -MaxDelay .. LeaseSeconds]
    BY <1>2, StoreAssumption
      DEF ClaimNext, TypeOK, States, Leased, Terminal, Generations, Delays
  <2>3. gen' \in [Jobs -> Generations]
    BY <1>2, StoreAssumption
      DEF ClaimNext, TypeOK, States, Leased, Terminal, Generations, Delays
  <2> QED
    BY <2>1, <2>2, <2>3, <1>2, StoreAssumption
      DEF ClaimNext, TypeOK, States, Leased, Terminal, Generations, Delays
<1>3. ASSUME NEW j \in Jobs, NEW w, NEW g, NEW d \in Delays, RenewLease(j, w, g, d)
      PROVE  TypeOK'
  BY <1>3, StoreAssumption
    DEF RenewLease, TypeOK, States, Leased, Terminal, Generations, Delays
<1>4. ASSUME NEW j \in Jobs, NEW w, NEW g, NEW d \in Delays,
             NEW e \in Leased, NEW t \in Terminal, Transition(j, e, t, w, g, d)
      PROVE  TypeOK'
  BY <1>4, StoreAssumption
    DEF Transition, TypeOK, States, Leased, Terminal, Generations, Delays
<1>5. ASSUME NEW d \in Delays, ClaimNothing(d) PROVE TypeOK'
  BY <1>5, StoreAssumption
    DEF ClaimNothing, TypeOK, States, Leased, Terminal, Generations, Delays
<1>6. ASSUME NEW j \in Jobs, RequestCancel(j) PROVE TypeOK'
  BY <1>6, StoreAssumption
    DEF RequestCancel, TypeOK, States, Leased, Terminal, Generations, Delays
<1>7. CASE Tick
  BY <1>7, StoreAssumption
    DEF Tick, TypeOK, States, Leased, Terminal, Generations, Delays
<1>8. CASE UNCHANGED storeVars
  BY <1>8, StoreAssumption
    DEF storeVars, TypeOK, States, Leased, Terminal, Generations, Delays
<1> QED
  BY <1>1, <1>2, <1>3, <1>4, <1>5, <1>6, <1>7, <1>8 DEF Next, Call

\* The columns have their types in every reachable state (store.py keeps
\* lease_expires_at within one lease length of the present).
THEOREM TypeCorrect == Spec => []TypeOK
<1>1. Init => TypeOK
  BY StoreAssumption DEF Init, TypeOK, States, Generations
<1> QED
  BY <1>1, TypeStep, PTL DEF Spec

-----------------------------------------------------------------------------
\* An accepted cancellation is never lost (request_cancel against claim_next,
\* renew_lease and transition), and a row is leased exactly while it is
\* RUNNING or CANCEL_REQUESTED.
THEOREM StoreSafe == Spec => [](CancelWins /\ LeaseMatchesState)
<1>1. Init => CancelWins /\ LeaseMatchesState
  BY StoreAssumption DEF Init, CancelWins, LeaseMatchesState, Leased
<1>2. TypeOK /\ CancelWins /\ LeaseMatchesState /\ [Next]_storeVars
         => (CancelWins /\ LeaseMatchesState)'
  <2> SUFFICES ASSUME TypeOK, CancelWins, LeaseMatchesState, [Next]_storeVars
               PROVE  (CancelWins /\ LeaseMatchesState)'
    OBVIOUS
  <2>1. ASSUME NEW j \in Jobs, NEW A \in SUBSET Jobs, Submit(j, A)
        PROVE  (CancelWins /\ LeaseMatchesState)'
    BY <2>1, StoreAssumption DEF Submit, TypeOK, CancelWins, LeaseMatchesState, Leased
  <2>2. ASSUME NEW j \in Jobs, NEW w \in WorkerIds, NEW d \in Delays, ClaimNext(w, j, d)
        PROVE  (CancelWins /\ LeaseMatchesState)'
    BY <2>2, StoreAssumption
      DEF ClaimNext, Claimable, Abandoned, TypeOK, CancelWins, LeaseMatchesState, Leased
  <2>3. ASSUME NEW j \in Jobs, NEW w, NEW g, NEW d \in Delays, RenewLease(j, w, g, d)
        PROVE  (CancelWins /\ LeaseMatchesState)'
    BY <2>3, StoreAssumption
      DEF RenewLease, TypeOK, CancelWins, LeaseMatchesState, Leased
  <2>4. ASSUME NEW j \in Jobs, NEW w, NEW g, NEW d \in Delays,
               NEW e \in Leased, NEW t \in Terminal, Transition(j, e, t, w, g, d)
        PROVE  (CancelWins /\ LeaseMatchesState)'
    BY <2>4, StoreAssumption
      DEF Transition, Transitions, Terminal, TypeOK, CancelWins, LeaseMatchesState, Leased
  <2>5. ASSUME NEW d \in Delays, ClaimNothing(d) PROVE (CancelWins /\ LeaseMatchesState)'
    BY <2>5, StoreAssumption
      DEF ClaimNothing, Abandoned, TypeOK, CancelWins, LeaseMatchesState, Leased
  <2>6. ASSUME NEW j \in Jobs, RequestCancel(j) PROVE (CancelWins /\ LeaseMatchesState)'
    BY <2>6, StoreAssumption
      DEF RequestCancel, CanCancel, TypeOK, CancelWins, LeaseMatchesState, Leased
  <2>7. CASE Tick
    BY <2>7, StoreAssumption DEF Tick, TypeOK, CancelWins, LeaseMatchesState, Leased
  <2>8. CASE UNCHANGED storeVars
    BY <2>8, StoreAssumption
      DEF storeVars, TypeOK, CancelWins, LeaseMatchesState, Leased
  <2> QED
    BY <2>1, <2>2, <2>3, <2>4, <2>5, <2>6, <2>7, <2>8 DEF Next, Call
<1> QED
  BY <1>1, <1>2, TypeCorrect, PTL DEF Spec

\* The lease columns are set exactly while a job is RUNNING or
\* CANCEL_REQUESTED: claim_next finds every row a crashed worker left, and no
\* finished row looks leased.
THEOREM LeaseColumnsMatch == Spec => []LeaseMatchesState
BY StoreSafe, PTL

-----------------------------------------------------------------------------
\* A job is never taken from a worker whose lease is not over: claim_next's
\* clock reading can be old, never ahead of the present.
THEOREM LiveLeaseKept == Spec => NoLiveLeaseIsTaken
<1> DEFINE Kept == \A j \in Jobs : owner[j] # NoWorker /\ left[j] > 0 => gen'[j] = gen[j]
<1>1. TypeOK /\ LeaseMatchesState /\ [Next]_storeVars => [Kept]_storeVars
  <2> SUFFICES ASSUME TypeOK, LeaseMatchesState, Next PROVE Kept
    OBVIOUS
  <2>1. ASSUME NEW j \in Jobs, NEW w \in WorkerIds, NEW d \in Delays, ClaimNext(w, j, d)
        PROVE  Kept
    <3>1. ~(owner[j] # NoWorker /\ left[j] > 0)
      BY <2>1, StoreAssumption
      DEF ClaimNext, Claimable, Expired, Delays, LeaseMatchesState, Leased, TypeOK
    <3>2. \A i \in Jobs : i # j => gen'[i] = gen[i]
      BY <2>1 DEF ClaimNext, TypeOK
    <3> QED
      BY <3>1, <3>2
  <2>2. ASSUME gen' = gen PROVE Kept
    BY <2>2
  <2> QED
    BY <2>1, <2>2 DEF Next, Call, Submit, RenewLease, Transition, ClaimNothing, RequestCancel, Tick
<1> QED
  BY <1>1, TypeCorrect, StoreSafe, PTL DEF Spec, NoLiveLeaseIsTaken

-----------------------------------------------------------------------------
\* The phase of each state, the refinement mapping tabulated.
LEMMA PhaseTable ==
    /\ PhaseOf("none") = "absent" /\ PhaseOf("QUEUED") = "waiting"
    /\ PhaseOf("RUNNING") = "active" /\ PhaseOf("CANCEL_REQUESTED") = "cancelling"
    /\ PhaseOf("SUCCEEDED") = "succeeded" /\ PhaseOf("PARTIAL_FAILURE") = "partial"
    /\ PhaseOf("FAILED") = "failed" /\ PhaseOf("CANCELLED") = "cancelled"
BY DEF PhaseOf

\* The job table implements JobLifecycle: every method of the store that
\* changes a row is one of the lifecycle's steps, all others are invisible.
THEOREM StoreImplementsLifecycle == Spec => LifecycleSpec
<1>1. Init => Lifecycle!Init
  BY DEF Init, Lifecycle!Init, PhaseOf
<1>2. TypeOK /\ LeaseMatchesState /\ [Next]_storeVars
         => [Lifecycle!Next]_(Lifecycle!lifecycleVars)
  <2> SUFFICES ASSUME TypeOK, LeaseMatchesState, [Next]_storeVars
               PROVE  [Lifecycle!Next]_(Lifecycle!lifecycleVars)
    OBVIOUS
  <2>1. ASSUME NEW j \in Jobs, NEW A \in SUBSET Jobs, Submit(j, A) PROVE Lifecycle!Accept(j)
    BY PhaseTable, <2>1 DEF Submit, Lifecycle!Accept, Lifecycle!Move, TypeOK
  <2>2. ASSUME NEW j \in Jobs, NEW w \in WorkerIds, NEW d \in Delays, ClaimNext(w, j, d)
        PROVE  Lifecycle!Attempt(j, Abandoned(d))
    BY PhaseTable, <2>2 DEF ClaimNext, Claimable, Abandoned, Lifecycle!Attempt, TypeOK
  <2>3. ASSUME NEW j \in Jobs, NEW w, NEW g, NEW d, NEW e \in Leased, NEW t \in Terminal,
               Transition(j, e, t, w, g, d)
        PROVE  Lifecycle!Conclude(j)
    BY PhaseTable, <2>3 DEF Transition, Transitions, Terminal, Leased, Lifecycle!Conclude, Lifecycle!Move,
                Lifecycle!Verdicts, TypeOK
  <2>4. ASSUME NEW d \in Delays, ClaimNothing(d) PROVE Lifecycle!Settle(Abandoned(d))
    BY PhaseTable, <2>4 DEF ClaimNothing, Abandoned, Lifecycle!Settle, TypeOK
  <2>5. ASSUME NEW j \in Jobs, RequestCancel(j) PROVE Lifecycle!Cancel(j)
    BY PhaseTable, <2>5 DEF RequestCancel, CanCancel, Lifecycle!Cancel, Lifecycle!Move, TypeOK
  <2>6. ASSUME UNCHANGED <<state, gen>> PROVE UNCHANGED Lifecycle!lifecycleVars
    BY <2>6 DEF Lifecycle!lifecycleVars
  <2>7. \A d : Abandoned(d) \in SUBSET Jobs
    BY DEF Abandoned
  <2> QED
    BY <2>1, <2>2, <2>3, <2>4, <2>5, <2>6, <2>7
    DEF Next, Call, RenewLease, Tick, storeVars, Lifecycle!Next
<1> QED
  BY <1>1, <1>2, TypeCorrect, StoreSafe, PTL DEF Spec, LifecycleSpec, Lifecycle!Spec

-----------------------------------------------------------------------------
(* The event log and its followers.                                        *)

\* A leased job has been handed out at least once: generation 0 has no lines.
Issued == \A j \in Jobs : state[j] \in Leased => gen[j] > 0

\* Lines of attempts up to attempt g, in the order of the attempts, and behind
\* them at most the verdict.
Ordered(s, g) ==
    \A n \in 1 .. Len(s) :
        /\ s[n] <= g
        /\ n < Len(s) => s[n] # Verdict /\ (s[n + 1] = Verdict \/ s[n] <= s[n + 1])

\* The log is closed by the verdict.
Closed(s) == Len(s) > 0 /\ s[Len(s)] = Verdict

LogInv ==
    /\ ETypeOK /\ Issued
    /\ \A j \in Jobs : Ordered(log[j], gen[j]) /\ (state[j] \in Terminal <=> Closed(log[j]))

\* Follower r has shown a prefix of the log; while it is connected its cursor
\* is the end of that prefix.
Placed(r) ==
    /\ got[r] = [n \in 1 .. Len(got[r]) |-> n]
    /\ Len(got[r]) <= Len(log[Follows[r]])
    /\ at[r] \in Watching => cursor[r] = Len(got[r])
    /\ at[r] = "lost" => retries[r] < MaxRetries

EventInv == LogInv /\ \A r \in Followers : Placed(r)

-----------------------------------------------------------------------------
(* What the store's transactions do to the rows and to the log.            *)

\* Seen from the jobs table, every step is a method of the store or none.
LEMMA WriterIsStore == ASSUME ETypeOK, [ENext]_eventVars PROVE [Next]_storeVars
<1>1. ASSUME NEW w \in WorkerIds, NEW d \in Delays, ClaimLogged(w, d) PROVE Next
  <2>1. 0 \in Generations
    BY StoreAssumption DEF Generations
  <2> QED
    BY <1>1, <2>1 DEF ClaimLogged, Next, Call
<1>2. ASSUME Writer PROVE [Next]_storeVars
  BY <1>1, <1>2 DEF Writer, TransitionLogged, AppendEvent, CancelLogged, Next, Call
<1>3. ASSUME NEW r \in Followers, StopWaiting(r) PROVE [Next]_storeVars
  BY <1>3, EventsAssumption DEF StopWaiting, CancelLogged, Next
<1> QED
  BY <1>2, <1>3 DEF ENext, Follow, ReadPage, AskState, Reconnect, Disconnect, eventVars

\* The row and the log of job j after a step that adds nothing to the log, ...
Silent(j) ==
    /\ log'[j] = log[j]
    /\ state'[j] \in Terminal <=> state[j] \in Terminal
    /\ gen'[j] >= gen[j] /\ (state'[j] \in Leased => gen'[j] > 0)

\* ... one that ends the job ...
Ended(j) ==
    /\ log'[j] = Append(log[j], Verdict)
    /\ state[j] \notin Terminal /\ state'[j] \in Terminal /\ gen'[j] = gen[j]

\* ... and one that logs a line of the current attempt.
Spoken(j) ==
    /\ log'[j] = Append(log[j], gen[j])
    /\ state[j] \in Leased /\ state'[j] = state[j] /\ gen'[j] = gen[j]

\* Every step does one of the three to every job: a verdict and its event are
\* one transaction, and only the holder of the lease adds a line.
LEMMA LogKinds ==
    ASSUME LogInv, [ENext]_eventVars, NEW j \in Jobs
    PROVE  Silent(j) \/ Ended(j) \/ Spoken(j)
<1> USE StoreAssumption DEF LogInv, ETypeOK, TypeOK, Issued
<1>1. gen[j] \in Nat /\ \A i \in Jobs : gen[i] \in Nat
  BY DEF Generations
<1>2. ASSUME UNCHANGED storeVars, UNCHANGED log PROVE Silent(j)
  BY <1>1, <1>2 DEF storeVars, Silent
<1>3. ASSUME NEW i \in Jobs, CancelLogged(i) PROVE Silent(j) \/ Ended(j)
  <2>1. CASE i = j /\ state[j] = "QUEUED"
    BY <1>3, <2>1 DEF CancelLogged, LogVerdicts, RequestCancel, Ended, Terminal
  <2>2. CASE ~(i = j /\ state[j] = "QUEUED")
    BY <1>1, <1>3, <2>2 DEF CancelLogged, LogVerdicts, RequestCancel, CanCancel, Silent, Terminal, Leased
  <2> QED
    BY <2>1, <2>2
<1>4. ASSUME NEW w \in WorkerIds, NEW d \in Delays, ClaimLogged(w, d) PROVE Silent(j) \/ Ended(j)
  <2>1. log'[j] = IF j \in Abandoned(d) THEN Append(log[j], Verdict) ELSE log[j]
    BY <1>4 DEF ClaimLogged, LogVerdicts
  <2>2. ASSUME NEW i \in Jobs, ClaimNext(w, i, d) PROVE Silent(j) \/ Ended(j)
    <3>1. CASE j = i
      BY <1>1, <2>1, <2>2, <3>1 DEF ClaimNext, Claimable, Abandoned, Silent, Terminal, Leased
    <3>2. CASE j # i /\ j \in Abandoned(d)
      BY <1>1, <2>1, <2>2, <3>2 DEF ClaimNext, Abandoned, Ended, Terminal
    <3>3. CASE j # i /\ j \notin Abandoned(d)
      BY <1>1, <2>1, <2>2, <3>3 DEF ClaimNext, Silent
    <3> QED
      BY <3>1, <3>2, <3>3
  <2>3. ASSUME ClaimNothing(d) PROVE Silent(j) \/ Ended(j)
    <3>1. CASE j \in Abandoned(d)
      BY <1>1, <2>1, <2>3, <3>1 DEF ClaimNothing, Abandoned, Ended, Terminal
    <3>2. CASE j \notin Abandoned(d)
      BY <1>1, <2>1, <2>3, <3>2 DEF ClaimNothing, Silent
    <3> QED
      BY <3>1, <3>2
  <2> QED
    BY <1>4, <2>2, <2>3 DEF ClaimLogged
<1>5. ASSUME NEW i \in Jobs, NEW w \in WorkerIds, NEW g \in Generations, NEW d \in Delays,
             TransitionLogged(i, w, g, d)
      PROVE  Silent(j) \/ Ended(j)
  BY <1>1, <1>5 DEF TransitionLogged, Transition, LogVerdicts, Silent, Ended, Terminal, Leased
<1>6. ASSUME NEW i \in Jobs, NEW w \in WorkerIds, NEW g \in Generations, NEW d \in Delays,
             AppendEvent(i, w, g, d)
      PROVE  Silent(j) \/ Spoken(j)
  <2>1. UNCHANGED <<state, gen>> /\ gen[i] = g /\ state[i] \in Leased
    BY <1>6 DEF AppendEvent, LiveLease, storeVars
  <2> QED
    BY <1>1, <1>6, <2>1 DEF AppendEvent, Silent, Spoken
<1>7. ASSUME Writer PROVE Silent(j) \/ Ended(j) \/ Spoken(j)
  <2>1. ASSUME NEW i \in Jobs, NEW A \in SUBSET Jobs, Submit(i, A), UNCHANGED log PROVE Silent(j)
    BY <1>1, <2>1 DEF Submit, Silent, Terminal, Leased
  <2>2. ASSUME NEW i \in Jobs, NEW w, NEW g, NEW d, RenewLease(i, w, g, d), UNCHANGED log PROVE Silent(j)
    BY <1>1, <2>2 DEF RenewLease, Silent
  <2>3. ASSUME Tick, UNCHANGED log PROVE Silent(j)
    BY <1>1, <2>3 DEF Tick, Silent
  <2> QED
    BY <1>3, <1>4, <1>5, <1>6, <1>7, <2>1, <2>2, <2>3 DEF Writer
<1>8. ASSUME NEW r \in Followers, StopWaiting(r) PROVE Silent(j) \/ Ended(j)
  BY <1>2, <1>3, <1>8, EventsAssumption DEF StopWaiting
<1> QED
  BY <1>2, <1>7, <1>8 DEF ENext, Follow, ReadPage, AskState, Reconnect, Disconnect, eventVars

\* A log stays ordered when the job is handed out again, and when a line of
\* the current attempt or the verdict is appended to a log without a verdict.
LEMMA OrderedGrows ==
    ASSUME NEW g \in Nat, NEW s \in Seq(Generations), Ordered(s, g)
    PROVE  /\ \A h \in Nat : h >= g => Ordered(s, h)
           /\ \A e \in Generations \cap {Verdict, g} : ~Closed(s) =>
                 /\ Append(s, e) \in Seq(Generations) /\ Ordered(Append(s, e), g)
                 /\ Closed(Append(s, e)) <=> e = Verdict
<1> USE DEF Verdict
<1>1. Len(s) \in Nat /\ \A n \in 1 .. Len(s) : s[n] \in Nat
  BY StoreAssumption DEF Generations
<1>2. ASSUME NEW h \in Nat, h >= g PROVE Ordered(s, h)
  BY <1>1, <1>2 DEF Ordered
<1>3. ASSUME NEW e \in Generations, e \in {Verdict, g}, ~Closed(s)
      PROVE  /\ Append(s, e) \in Seq(Generations) /\ Ordered(Append(s, e), g)
             /\ Closed(Append(s, e)) <=> e = Verdict
  <2> DEFINE t == Append(s, e)
  <2>1. t \in Seq(Generations) /\ Len(t) = Len(s) + 1 /\ t[Len(s) + 1] = e
    BY <1>1
  <2>2. \A n \in 1 .. Len(s) : t[n] = s[n]
    BY <1>1
  <2> HIDE DEF t
  <2>3. Closed(t) <=> e = Verdict
    BY <1>1, <2>1 DEF Closed
  <2>4. ASSUME NEW n \in 1 .. Len(t)
        PROVE  /\ t[n] <= g
               /\ n < Len(t) => t[n] # Verdict /\ (t[n + 1] = Verdict \/ t[n] <= t[n + 1])
    <3>1. CASE n = Len(s) + 1
      BY <1>1, <1>3, <2>1, <3>1
    <3>2. CASE n = Len(s)
      BY <1>1, <1>3, <2>1, <2>2, <2>4, <3>2 DEF Ordered, Closed
    <3>3. CASE n < Len(s)
      <4>1. n \in 1 .. Len(s) /\ n + 1 \in 1 .. Len(s)
        BY <1>1, <2>4, <3>3
      <4> QED
        BY <2>2, <3>3, <4>1 DEF Ordered
    <3> QED
      BY <1>1, <2>1, <2>4, <3>1, <3>2, <3>3
  <2>5. Ordered(t, g)
    BY <2>4 DEF Ordered
  <2> QED
    BY <2>1, <2>3, <2>5 DEF t
<1> QED
  BY <1>2, <1>3

\* Every step keeps the log of every job ordered, closed with its verdict.
LEMMA LogStep ==
    ASSUME LogInv, TypeOK', [ENext]_eventVars, NEW j \in Jobs
    PROVE  /\ log'[j] \in Seq(Generations) /\ Ordered(log'[j], gen'[j])
           /\ state'[j] \in Terminal <=> Closed(log'[j])
           /\ state'[j] \in Leased => gen'[j] > 0
<1>1. /\ log[j] \in Seq(Generations) /\ gen[j] \in Generations /\ gen'[j] \in Generations
      /\ Ordered(log[j], gen[j]) /\ (state[j] \in Terminal <=> Closed(log[j]))
      /\ state[j] \in Leased => gen[j] > 0
  BY DEF LogInv, ETypeOK, TypeOK, Issued
<1>2. Terminal \cap Leased = {} /\ Verdict \in Generations /\ Generations \subseteq Nat
  BY StoreAssumption DEF Terminal, Leased, Verdict, Generations
<1>3. CASE Silent(j)
  <2>1. Ordered(log[j], gen'[j])
    BY <1>1, <1>2, <1>3, OrderedGrows DEF Silent
  <2> QED
    BY <1>1, <1>3, <2>1 DEF Silent
<1>4. CASE Ended(j)
  <2>1. ~Closed(log[j])
    BY <1>1, <1>4 DEF Ended
  <2>2. LET t == Append(log[j], Verdict)
        IN  t \in Seq(Generations) /\ Ordered(t, gen[j]) /\ Closed(t)
    BY <1>1, <1>2, <2>1, OrderedGrows
  <2> QED
    BY <1>2, <1>4, <2>2 DEF Ended
<1>5. CASE Spoken(j)
  <2>1. ~Closed(log[j]) /\ gen[j] # Verdict
    BY <1>1, <1>2, <1>5 DEF Spoken, Verdict
  <2> QED
    BY <1>1, <1>2, <1>5, <2>1, OrderedGrows DEF Spoken
<1> QED
  BY <1>3, <1>4, <1>5, LogKinds

-----------------------------------------------------------------------------
(* Followers.                                                              *)

\* Showing the numbers from k + 1 to n after those up to k shows the numbers
\* up to n.
LEMMA ShowMore ==
    ASSUME NEW k \in Nat, NEW n \in Nat, k <= n, NEW s, s = [i \in 1 .. k |-> i]
    PROVE  LET t == s \o [i \in 1 .. n - k |-> k + i]
           IN  t = [i \in 1 .. n |-> i] /\ t \in Seq(Nat) /\ Len(t) = n
<1> DEFINE u == [i \in 1 .. n - k |-> k + i]
           t == s \o u
<1>1. s \in Seq(Nat) /\ Len(s) = k
  OBVIOUS
<1>2. u \in Seq(Nat) /\ Len(u) = n - k
  OBVIOUS
<1>3. t \in Seq(Nat) /\ Len(t) = n /\ DOMAIN t = 1 .. n
  BY <1>1, <1>2
<1>4. ASSUME NEW i \in 1 .. n PROVE t[i] = i
  <2>1. t[i] = IF i <= k THEN s[i] ELSE u[i - k]
    BY <1>1, <1>2, <1>4
  <2> QED
    BY <1>4, <2>1
<1>5. t = [i \in 1 .. n |-> i]
  BY <1>3, <1>4
<1> QED
  BY <1>3, <1>5

\* The log of a job never gets shorter.
LEMMA LogGrows ==
    ASSUME LogInv, [ENext]_eventVars, NEW j \in Jobs
    PROVE  Len(log[j]) \in Nat /\ Len(log'[j]) \in Nat /\ Len(log[j]) <= Len(log'[j])
<1>1. log[j] \in Seq(Generations) /\ gen[j] \in Generations /\ Verdict \in Generations
  BY StoreAssumption DEF LogInv, ETypeOK, TypeOK, Verdict, Generations
<1> QED
  BY <1>1, LogKinds DEF Silent, Ended, Spoken

\* The columns of follower r.
Typed(r) ==
    /\ at[r] \in Watching \cup Over \cup {"lost"} /\ cursor[r] \in Nat
    /\ got[r] \in Seq(Nat) /\ retries[r] \in 0 .. MaxRetries

\* Every step keeps every follower in its place: what it shows continues what
\* it has shown, page after page and connection after connection.
LEMMA PlacedStep ==
    ASSUME EventInv, [ENext]_eventVars, NEW r \in Followers
    PROVE  Typed(r)' /\ Placed(r)'
<1> USE EventsAssumption DEF Watching, Over
<1> DEFINE k == Len(got[r])
           L == Len(log[Follows[r]])
           M == Len(log'[Follows[r]])
<1>1. /\ Follows[r] \in Jobs /\ L \in Nat /\ M \in Nat /\ L <= M
      /\ got[r] \in Seq(Nat) /\ k \in Nat /\ k <= L
  BY LogGrows DEF EventInv, LogInv, ETypeOK, Placed
<1>2. Typed(r) /\ Placed(r)
  BY DEF EventInv, LogInv, ETypeOK, Typed
<1>3. /\ at \in [Followers -> Watching \cup Over \cup {"lost"}] /\ cursor \in [Followers -> Nat]
      /\ got \in [Followers -> Seq(Nat)] /\ retries \in [Followers -> 0 .. MaxRetries]
  BY DEF EventInv, LogInv, ETypeOK
<1> HIDE DEF k, L, M
<1>4. ASSUME at'[r] = at[r], cursor'[r] = cursor[r], got'[r] = got[r], retries'[r] = retries[r]
      PROVE  Typed(r)' /\ Placed(r)'
  BY <1>1, <1>2, <1>4 DEF Typed, Placed, k, L, M
<1>5. ASSUME NEW n \in Nat, k <= n, n <= L, cursor[r] = k, Show(r, n)
      PROVE  got'[r] = [i \in 1 .. n |-> i] /\ got'[r] \in Seq(Nat) /\ Len(got'[r]) = n
  <2>1. got'[r] = got[r] \o [i \in 1 .. n - k |-> k + i]
    BY <1>3, <1>5 DEF Show
  <2>2. got[r] = [i \in 1 .. k |-> i]
    BY <1>2 DEF Placed, k
  <2> QED
    BY <1>1, <1>5, <2>1, <2>2, ShowMore
<1>6. at[r] \in Watching => /\ cursor[r] = k /\ PageEnd(r) \in Nat
                            /\ k <= PageEnd(r) /\ PageEnd(r) <= L
  BY <1>1, <1>2 DEF Placed, PageEnd, k, L
<1>7. CASE ReadPage(r)
  <2>1. /\ at[r] = "page" /\ Show(r, PageEnd(r)) /\ cursor'[r] = PageEnd(r)
        /\ at'[r] \in Watching /\ retries'[r] = retries[r]
    BY <1>3, <1>7 DEF ReadPage, Proceed
  <2>2. got'[r] = [i \in 1 .. PageEnd(r) |-> i] /\ got'[r] \in Seq(Nat) /\ Len(got'[r]) = PageEnd(r)
    BY <1>5, <1>6, <2>1
  <2> QED
    BY <1>1, <1>2, <1>6, <2>1, <2>2 DEF Typed, Placed, M
<1>8. CASE AskState(r)
  <2>1. /\ at[r] = "ask" /\ at'[r] \in {"done", "page"}
        /\ cursor'[r] = cursor[r] /\ got'[r] = got[r] /\ retries'[r] = retries[r]
    BY <1>3, <1>8 DEF AskState, Proceed
  <2> QED
    BY <1>1, <1>2, <2>1 DEF Typed, Placed, k, L, M
<1>9. CASE Reconnect(r)
  <2>1. /\ at[r] = "lost" /\ at'[r] = "page" /\ got'[r] = got[r] /\ retries'[r] = retries[r] + 1
        /\ cursor'[r] = IF got[r] = <<>> THEN 0 ELSE got[r][Len(got[r])]
    BY <1>3, <1>9 DEF Reconnect, Proceed
  <2>2. cursor'[r] = k
    <3>1. CASE got[r] = <<>>
      BY <2>1, <3>1 DEF k
    <3>2. CASE got[r] # <<>>
      <4>1. k \in 1 .. k
        BY <1>1, <3>2 DEF k
      <4> QED
        BY <1>2, <2>1, <3>2, <4>1 DEF Placed, k
    <3> QED
      BY <3>1, <3>2
  <2>3. retries'[r] \in 0 .. MaxRetries
    BY <1>2, <2>1 DEF Typed, Placed
  <2> QED
    BY <1>1, <1>2, <2>1, <2>2, <2>3 DEF Typed, Placed, k, L, M
<1>10. CASE Disconnect(r)
  <2>1. /\ at[r] \in Watching /\ cursor'[r] = cursor[r] /\ retries'[r] = retries[r]
        /\ \/ /\ \E n \in cursor[r] .. PageEnd(r) : Show(r, n)
              /\ at'[r] = IF retries[r] < MaxRetries THEN "lost" ELSE "failed"
           \/ at'[r] = "failed" /\ got'[r] = got[r]
    BY <1>3, <1>10 DEF Disconnect, Proceed
  <2>2. CASE at'[r] = "failed" /\ got'[r] = got[r]
    BY <1>1, <1>2, <2>1, <2>2 DEF Typed, Placed, k, L, M
  <2>3. ASSUME NEW n \in cursor[r] .. PageEnd(r), Show(r, n),
               at'[r] = IF retries[r] < MaxRetries THEN "lost" ELSE "failed"
        PROVE  Typed(r)' /\ Placed(r)'
    <3>1. n \in Nat /\ k <= n /\ n <= L
      BY <1>1, <1>6, <2>1, <2>3
    <3>2. got'[r] = [i \in 1 .. n |-> i] /\ got'[r] \in Seq(Nat) /\ Len(got'[r]) = n
      BY <1>5, <1>6, <2>1, <2>3, <3>1
    <3> QED
      BY <1>1, <1>2, <2>1, <2>3, <3>1, <3>2 DEF Typed, Placed, M
  <2> QED
    BY <2>1, <2>2, <2>3
<1>11. CASE StopWaiting(r)
  <2>1. at'[r] = "gone" /\ cursor'[r] = cursor[r] /\ got'[r] = got[r] /\ retries'[r] = retries[r]
    BY <1>3, <1>11 DEF StopWaiting, Proceed
  <2> QED
    BY <1>1, <1>2, <2>1 DEF Typed, Placed, k, L, M
<1>12. ASSUME NEW q \in Followers, q # r, Follow(q) \/ Disconnect(q) \/ StopWaiting(q)
       PROVE  at'[r] = at[r] /\ cursor'[r] = cursor[r] /\ got'[r] = got[r] /\ retries'[r] = retries[r]
  BY <1>3, <1>12 DEF Follow, ReadPage, AskState, Reconnect, Disconnect, StopWaiting, Proceed, Show
<1>13. CASE Writer \/ UNCHANGED eventVars
  BY <1>4, <1>13 DEF Writer, followVars, eventVars
<1> QED
  BY <1>4, <1>7, <1>8, <1>9, <1>10, <1>11, <1>12, <1>13 DEF ENext, Follow

-----------------------------------------------------------------------------
\* EventInv is inductive.
LEMMA EventStep == EventInv /\ [ENext]_eventVars => EventInv'
<1> SUFFICES ASSUME EventInv, [ENext]_eventVars PROVE EventInv'
  OBVIOUS
<1>1. TypeOK'
  BY TypeStep, WriterIsStore DEF EventInv, LogInv, ETypeOK
<1>2. \A j \in Jobs : /\ log'[j] \in Seq(Generations) /\ Ordered(log'[j], gen'[j])
                      /\ state'[j] \in Terminal <=> Closed(log'[j])
                      /\ state'[j] \in Leased => gen'[j] > 0
  BY <1>1, LogStep DEF EventInv
<1>3. \A r \in Followers : Typed(r)' /\ Placed(r)'
  BY PlacedStep
<1>4. log' = [j \in Jobs |-> log'[j]]
  <2>1. log = [j \in Jobs |-> log[j]]
    BY DEF EventInv, LogInv, ETypeOK
  <2>2. Writer => log' = [j \in Jobs |-> log'[j]]
    BY <2>1 DEF Writer, ClaimLogged, TransitionLogged, AppendEvent, CancelLogged, LogVerdicts
  <2> QED
    BY <2>1, <2>2
    DEF ENext, Follow, ReadPage, AskState, Reconnect, Disconnect, StopWaiting, CancelLogged,
        LogVerdicts, eventVars
<1>5. /\ at' = [r \in Followers |-> at'[r]] /\ cursor' = [r \in Followers |-> cursor'[r]]
      /\ got' = [r \in Followers |-> got'[r]] /\ retries' = [r \in Followers |-> retries'[r]]
  <2>1. /\ at = [r \in Followers |-> at[r]] /\ cursor = [r \in Followers |-> cursor[r]]
        /\ got = [r \in Followers |-> got[r]] /\ retries = [r \in Followers |-> retries[r]]
    BY DEF EventInv, LogInv, ETypeOK
  <2> QED
    BY <2>1
    DEF ENext, Writer, Follow, ReadPage, AskState, Reconnect, Disconnect, StopWaiting, Proceed, Show,
        followVars, eventVars
<1>6. /\ log' \in [Jobs -> Seq(Generations)] /\ at' \in [Followers -> Watching \cup Over \cup {"lost"}]
      /\ cursor' \in [Followers -> Nat] /\ got' \in [Followers -> Seq(Nat)]
      /\ retries' \in [Followers -> 0 .. MaxRetries]
  BY <1>2, <1>3, <1>4, <1>5 DEF Typed
<1> QED
  BY <1>1, <1>2, <1>3, <1>6 DEF EventInv, LogInv, ETypeOK, Issued

\* The invariant holds of every reachable state of the log and its followers.
LEMMA EventInvariant == ESpec => []EventInv
<1>1. EInit => EventInv
  <2> SUFFICES ASSUME EInit PROVE EventInv
    OBVIOUS
  <2>1. TypeOK /\ Issued
    BY StoreAssumption DEF EInit, Init, TypeOK, Issued, States, Leased, Generations
  <2>2. <<>> \in Seq(Generations) /\ <<>> \in Seq(Nat) /\ Len(<<>>) = 0
    OBVIOUS
  <2>3. ETypeOK
    BY <2>1, <2>2, EventsAssumption DEF EInit, ETypeOK, Watching
  <2>4. \A j \in Jobs : log[j] = <<>> /\ state[j] \notin Terminal
    BY DEF EInit, Init, Terminal
  <2>5. \A j \in Jobs : Ordered(log[j], gen[j]) /\ (state[j] \in Terminal <=> Closed(log[j]))
    <3>1. ASSUME NEW g PROVE Ordered(<<>>, g) /\ ~Closed(<<>>)
      BY DEF Ordered, Closed
    <3> QED
      BY <2>4, <3>1
  <2>6. ASSUME NEW r \in Followers PROVE Placed(r)
    <3>1. got[r] = <<>> /\ at[r] = "page" /\ cursor[r] = 0 /\ log[Follows[r]] = <<>>
      BY <2>4, <2>6, EventsAssumption DEF EInit
    <3>2. <<>> = [n \in 1 .. 0 |-> n]
      OBVIOUS
    <3> QED
      BY <2>2, <3>1, <3>2 DEF Placed
  <2> QED
    BY <2>1, <2>3, <2>5, <2>6 DEF EventInv, LogInv
<1> QED
  BY <1>1, EventStep, PTL DEF ESpec

\* append_event's lease check fences the log: the lines of the attempts of a
\* replayed job do not mix, and nothing follows the verdict.
THEOREM LogsAreFenced == ESpec => []LogIsFenced
<1>1. EventInv => LogIsFenced
  <2> SUFFICES ASSUME EventInv, NEW j \in Jobs, NEW n \in 1 .. MaxLines + 1, n < Len(log[j])
               PROVE  /\ log[j][n] # Verdict
                      /\ log[j][n + 1] \in {Verdict} \cup log[j][n] .. MaxGeneration
    BY DEF LogIsFenced, EventInv, LogInv
  <2>1. log[j] \in Seq(Generations) /\ Len(log[j]) \in Nat /\ Ordered(log[j], gen[j])
    BY DEF EventInv, LogInv, ETypeOK
  <2>2. n \in 1 .. Len(log[j]) /\ n + 1 \in 1 .. Len(log[j])
    BY <2>1, EventsAssumption
  <2>3. log[j][n] \in Generations /\ log[j][n + 1] \in Generations
    BY <2>1, <2>2
  <2> QED
    BY <2>1, <2>2, <2>3, StoreAssumption DEF Ordered, Generations
<1> QED
  BY <1>1, EventInvariant, PTL

\* Whoever ends a job (a worker, claim_next for an abandoned one, request_cancel
\* for one that never ran) logs its verdict in the same transaction.
THEOREM VerdictsAreLogged == ESpec => []VerdictIsLogged
<1>1. EventInv => VerdictIsLogged
  <2> SUFFICES ASSUME EventInv, NEW j \in Jobs
               PROVE  state[j] \in Terminal <=> \E n \in 1 .. Len(log[j]) : log[j][n] = Verdict
    BY DEF VerdictIsLogged
  <2>1. /\ log[j] \in Seq(Generations) /\ Len(log[j]) \in Nat /\ Ordered(log[j], gen[j])
        /\ state[j] \in Terminal <=> Closed(log[j])
    BY DEF EventInv, LogInv, ETypeOK
  <2> QED
    BY <2>1 DEF Ordered, Closed
<1> QED
  BY <1>1, EventInvariant, PTL

\* A follower shows the events of its job from the first one on, each once and
\* in order, for any page size and any number of lost connections.
THEOREM ShowsInOrder == ESpec => []ShownInOrder
<1>1. EventInv => ShownInOrder
  BY DEF EventInv, Placed, ShownInOrder
<1> QED
  BY <1>1, EventInvariant, PTL

-----------------------------------------------------------------------------
\* Controllers and their children.

\* A process that is past its claim has a context.
ContextPresent ==
    \A p \in Processes :
        pc[p] \notin {"idle", "polling"} \/ beating[p] => job[p] \in Jobs

\* The generation in a context was handed out by the store.
AttemptIssued ==
    \A p \in Processes : job[p] \in Jobs => att[p] \in 1 .. gen[job[p]]

\* The deployment boundary has one holder, a child that changes anything holds
\* it, and neither a newer attempt of its job nor a playbook left by one has
\* changed anything yet.
BoundaryInv ==
    /\ \A a, b \in holders : a = b
    /\ \A a \in Attempts :
          /\ kid[a] # "none" => a[2] <= gen[a[1]]
          /\ kid[a] \in {"held", "working"} => a \in holders
          /\ kid[a] = "working" =>
                /\ lastEffect[a[1]] <= a[2]
                /\ \A b \in strays : b[1] = a[1] => b[2] <= a[2]
    /\ \A a \in strays : a[2] <= gen[a[1]]
    /\ \A j \in Jobs : lastEffect[j] <= gen[j]

\* The inductive invariant.
WInv == WTypeOK /\ ContextPresent /\ AttemptIssued /\ AttemptsAreDistinct /\ BoundaryInv

-----------------------------------------------------------------------------
\* Whatever the controllers do to the jobs table they do through the methods
\* of the store: what is proved of the store holds for them too.
LEMMA StoreStep ==
    ASSUME WTypeOK, ContextPresent, [WNext]_vars PROVE [Next]_storeVars
<1> USE WorkerAssumption DEF WTypeOK
<1>1. ASSUME NEW p \in Processes, NEW j \in Jobs, NEW d \in Delays, ClaimNext(WorkerId[p], j, d)
      PROVE  Next
  <2>1. 0 \in Generations
    BY StoreAssumption DEF Generations
  <2> QED
    BY <1>1, <2>1 DEF Next, Call
<1>2. ASSUME NEW p \in Processes, pc[p] \notin {"idle", "polling"}, NEW e, NEW t, NEW d \in Delays,
             Transition(job[p], e, t, WorkerId[p], att[p], d)
      PROVE  Next
  BY <1>2 DEF Next, Call, Transition, ContextPresent
<1>3. ASSUME NEW p \in Processes, Progress(p) PROVE [Next]_storeVars
  <2>1. CASE Claim(p)
    BY <1>1, <2>1 DEF Claim, Next
  <2>2. CASE Finish(p)
    BY <1>2, <2>2 DEF Finish, storeVars
  <2>3. CASE Cancelled(p)
    BY <1>2, <2>3 DEF Cancelled, storeVars
  <2>4. CASE RecordFailure(p)
    BY <1>2, <2>4 DEF RecordFailure, storeVars
  <2>5. ASSUME UNCHANGED storeVars PROVE [Next]_storeVars
    BY <2>5
  <2> QED
    BY <1>3, <2>1, <2>2, <2>3, <2>4, <2>5
    DEF Progress, Poll, Begin, Collect, ChildGone, Interrupt, Deadline, FinalCheck, Finalize, Fail
<1>4. ASSUME NEW p \in Processes, Heartbeat(p) PROVE [Next]_storeVars
  BY <1>4 DEF Heartbeat, Next, Call, ContextPresent
<1>5. ASSUME NEW p \in Processes, Environment(p) PROVE UNCHANGED storeVars
  BY <1>5 DEF Environment, Start, Stop, Exit, Crash, HeartbeatFails, StoreFails
<1>6. ASSUME NEW a \in Attempts, Child(a) PROVE UNCHANGED storeVars
  BY <1>6 DEF Child, ChildAcquire, ChildCheck, ChildWork, ChildCheckpoint, ChildReturn,
              ChildReport, ChildDies, StrayWork, StrayEnds, PlaybookLost
<1>7. CASE Operator
  BY <1>7 DEF Operator, Next
<1>8. CASE Pass
  BY <1>8 DEF Pass, Next
<1>9. CASE UNCHANGED vars
  BY <1>9 DEF vars
<1> QED
  BY <1>3, <1>4, <1>5, <1>6, <1>7, <1>8, <1>9 DEF WNext

\* Generations only grow.
LEMMA GenGrows ==
    ASSUME TypeOK, [Next]_storeVars PROVE \A j \in Jobs : gen[j] \in Nat /\ gen'[j] >= gen[j]
<1>1. gen \in [Jobs -> Nat]
  BY StoreAssumption DEF TypeOK, Generations
<1>2. ASSUME NEW w, NEW i \in Jobs, NEW d, ClaimNext(w, i, d)
      PROVE  \A j \in Jobs : gen'[j] >= gen[j]
  BY <1>1, <1>2 DEF ClaimNext
<1>3. ASSUME gen' = gen PROVE \A j \in Jobs : gen'[j] >= gen[j]
  BY <1>1, <1>3
<1> QED
  BY <1>1, <1>2, <1>3
  DEF Next, Call, Submit, RenewLease, Transition, ClaimNothing, RequestCancel, Tick, storeVars

-----------------------------------------------------------------------------
(* Types.                                                                  *)

WorkerTyped ==
    /\ alive \in [Processes -> ProcessStates]
    /\ pc \in [Processes -> Places]
    /\ job \in [Processes -> Jobs \cup {NoJob}]
    /\ att \in [Processes -> Generations]
    /\ lost \in [Processes -> BOOLEAN]
    /\ beating \in [Processes -> BOOLEAN]
    /\ seen \in [Processes -> States]

ChildTyped ==
    /\ kid \in [Attempts -> Phases]
    /\ holders \in SUBSET Attempts
    /\ strays \in SUBSET Attempts
    /\ lastEffect \in [Jobs -> Generations]

\* The three ways in which run_once moves on keep the worker's types.
LEMMA MovesTyped ==
    ASSUME WorkerTyped, NEW p \in Processes, NEW place \in Places,
           Goto(p, place) \/ LeaveRunning(p, place) \/ Return(p)
    PROVE  WorkerTyped'
<1>1. CASE Goto(p, place)
  BY <1>1 DEF WorkerTyped, Goto
<1>2. CASE LeaveRunning(p, place)
  BY <1>2 DEF WorkerTyped, LeaveRunning
<1>3. CASE Return(p)
  BY <1>3, StoreAssumption DEF WorkerTyped, Return, Drop, Places, States, Generations
<1> QED
  BY <1>1, <1>2, <1>3

\* Killing a child and moving it on keep the children's types.
LEMMA ChildTypedStep ==
    ASSUME ChildTyped, NEW a \in Attempts, NEW phase \in Phases,
           \/ Kill(a)
           \/ /\ ChildGoto(a, phase) /\ holders' \in SUBSET Attempts
              /\ strays' \in SUBSET Attempts /\ UNCHANGED lastEffect
    PROVE  ChildTyped'
BY DEF ChildTyped, Kill, LeaveTool, ChildGoto, Phases

\* Every step keeps the types of the controller processes' state: a context
\* is always that of a job and of a generation that claim_next handed out.
LEMMA WorkerTypedStep ==
    ASSUME WTypeOK, ContextPresent, [WNext]_vars, TypeOK' PROVE WorkerTyped'
<1> USE DEF WTypeOK
<1>0. WorkerTyped
  BY DEF WorkerTyped
<1>1. ASSUME NEW p \in Processes, Progress(p) PROVE WorkerTyped'
  <2>1. CASE Claim(p)
    <3>1. CASE Return(p)
      BY <1>0, <3>1, MovesTyped DEF Places
    <3>2. CASE \E j \in Jobs : /\ pc' = [pc EXCEPT ![p] = "claimed"]
                                /\ job' = [job EXCEPT ![p] = j]
                                /\ att' = [att EXCEPT ![p] = gen'[j]]
                                /\ UNCHANGED <<alive, lost, beating, seen>>
      BY <1>0, <3>2 DEF WorkerTyped, Places, TypeOK
    <3> QED
      BY <2>1, <3>1, <3>2 DEF Claim
  <2>2. CASE Begin(p)
    <3>1. CASE Return(p)
      BY <1>0, <3>1, MovesTyped DEF Places
    <3>2. CASE ~Return(p)
      BY <1>0, <2>2, <3>2 DEF Begin, WorkerTyped, Places
    <3> QED
      BY <3>1, <3>2
  <2>3. CASE Fail(p)
    <3>1. CASE Return(p)
      BY <1>0, <3>1, MovesTyped DEF Places
    <3>2. CASE ~Return(p)
      BY <1>0, <2>3, <3>2 DEF Fail, WorkerTyped, Places, TypeOK, LiveLease, Leased, States
    <3> QED
      BY <3>1, <3>2
  <2>4. ASSUME \E place \in Places : Goto(p, place) \/ LeaveRunning(p, place) \/ Return(p)
        PROVE  WorkerTyped'
    BY <1>0, <2>4, MovesTyped
  <2>5. \/ \E place \in Places : Goto(p, place) \/ LeaveRunning(p, place) \/ Return(p)
        \/ Claim(p) \/ Begin(p) \/ Fail(p)
    BY <1>1 DEF Progress, Poll, Collect, ChildGone, Interrupt, Deadline, FinalCheck, Finish,
                Finalize, Cancelled, RecordFailure, Places
  <2> QED
    BY <2>1, <2>2, <2>3, <2>4, <2>5
<1>2. ASSUME NEW p \in Processes, Heartbeat(p) PROVE WorkerTyped'
  <2>1. CASE UNCHANGED workerVars
    BY <1>0, <2>1 DEF workerVars, WorkerTyped
  <2>2. CASE /\ lost' = [lost EXCEPT ![p] = TRUE]
             /\ beating' = [beating EXCEPT ![p] = FALSE]
             /\ UNCHANGED <<alive, pc, job, att, seen>>
    BY <1>0, <2>2 DEF WorkerTyped
  <2> QED
    BY <1>2, <2>1, <2>2 DEF Heartbeat
<1>3. ASSUME NEW p \in Processes, Environment(p) PROVE WorkerTyped'
  <2>1. CASE Start(p) \/ Stop(p) \/ HeartbeatFails(p)
    BY <1>0, <2>1 DEF Start, Stop, HeartbeatFails, WorkerTyped, ProcessStates
  <2>2. CASE Exit(p) \/ Crash(p)
    <3>1. Drop(p) /\ alive' = [alive EXCEPT ![p] = "down"]
      BY <2>2 DEF Exit, Crash
    <3> QED
      BY <1>0, <3>1, StoreAssumption
      DEF Drop, WorkerTyped, ProcessStates, Places, States, Generations
  <2>3. CASE StoreFails(p)
    BY <1>0, <2>3, MovesTyped DEF StoreFails, Places
  <2> QED
    BY <1>3, <2>1, <2>2, <2>3 DEF Environment
<1>4. ASSUME UNCHANGED workerVars PROVE WorkerTyped'
  BY <1>0, <1>4 DEF workerVars, WorkerTyped
<1>5. ASSUME NEW a \in Attempts, Child(a) PROVE UNCHANGED workerVars
  BY <1>5 DEF Child, ChildAcquire, ChildCheck, ChildWork, ChildCheckpoint, ChildReturn,
              ChildReport, ChildDies, StrayWork, StrayEnds, PlaybookLost
<1> QED
  BY <1>1, <1>2, <1>3, <1>4, <1>5 DEF WNext, Operator, Pass, vars

\* Every step keeps the types of the children, the boundary and the effects,
\* and the number of faults within its bound.
LEMMA ChildTypedKept ==
    ASSUME WTypeOK, ContextPresent, AttemptIssued, [WNext]_vars
    PROVE  ChildTyped' /\ faults' \in 0 .. MaxFaults
<1> USE DEF WTypeOK
<1>0. ChildTyped
  BY DEF ChildTyped
<1>1. ASSUME NEW a \in Attempts, Child(a) PROVE ChildTyped'
  <2>1. CASE ChildWork(a) \/ StrayWork(a)
    BY <1>0, <2>1 DEF ChildWork, StrayWork, ChildTyped, Attempts, Generations
  <2>3. CASE StrayEnds(a) \/ PlaybookLost(a)
    BY <1>0, <2>3 DEF StrayEnds, PlaybookLost, ChildTyped
  <2>2. CASE ~(ChildWork(a) \/ StrayWork(a) \/ StrayEnds(a) \/ PlaybookLost(a))
    <3>1. \/ Kill(a)
          \/ \E phase \in Phases : /\ ChildGoto(a, phase)
                                    /\ holders' \in SUBSET Attempts
                                    /\ strays' \in SUBSET Attempts
                                    /\ UNCHANGED lastEffect
      BY <1>1, <2>2
      DEF Child, ChildAcquire, ChildCheck, ChildCheckpoint, ChildReturn, ChildReport, ChildDies,
          LeaveTool, Phases, Messages
    <3> QED
      BY <1>0, <3>1, ChildTypedStep DEF Phases
  <2> QED
    BY <2>1, <2>2, <2>3
<1>2. ASSUME UNCHANGED childVars PROVE ChildTyped'
  BY <1>0, <1>2 DEF childVars, ChildTyped
<1>3. ASSUME NEW p \in Processes, pc[p] = "running", Kill(Mine(p)) PROVE ChildTyped'
  <2>1. Mine(p) \in Attempts
    BY <1>3, StoreAssumption DEF ContextPresent, AttemptIssued, TypeOK, Generations, Mine, Attempts
  <2> QED
    BY <1>0, <1>3, <2>1, ChildTypedStep DEF Phases
<1>4. ASSUME NEW p \in Processes, Begin(p) PROVE ChildTyped'
  BY <1>0, <1>4 DEF Begin, childVars, ChildTyped, Phases
<1>5. ChildTyped'
  BY <1>1, <1>2, <1>3, <1>4
  DEF WNext, Operator, Progress, Poll, Claim, Collect, ChildGone, Interrupt, Deadline, FinalCheck,
      Finish, Finalize, Cancelled, Fail, RecordFailure, Heartbeat, Environment, Start, Stop, Exit,
      Crash, HeartbeatFails, StoreFails, Pass, vars
<1>6. faults' = faults \/ Fault
  BY DEF WNext, Operator, Progress, Poll, Claim, Begin, Collect, ChildGone, Interrupt, Deadline,
      FinalCheck, Finish, Finalize, Cancelled, Fail, RecordFailure, Heartbeat, Environment, Start,
      Stop, Exit, Crash, HeartbeatFails, StoreFails, Pass, vars, Child, ChildAcquire, ChildCheck,
      ChildWork, ChildCheckpoint, ChildReturn, ChildReport, ChildDies, StrayWork, StrayEnds, PlaybookLost
<1> QED
  BY <1>5, <1>6, WorkerAssumption DEF Fault

-----------------------------------------------------------------------------
(* Contexts and attempts.                                                  *)

\* What a step can do to the contexts: leave them, drop one, or claim.
LEMMA ContextMoves ==
    ASSUME WTypeOK, [WNext]_vars
    PROVE  \/ /\ UNCHANGED <<job, att>>
              /\ \A p \in Processes :
                    pc'[p] \notin {"idle", "polling"} \/ beating'[p]
                       => pc[p] \notin {"idle", "polling"} \/ beating[p]
           \/ \E p \in Processes : Drop(p)
           \/ \E p \in Processes : Claim(p)
<1> DEFINE Kept == /\ UNCHANGED <<job, att>>
                   /\ \A p \in Processes :
                         pc'[p] \notin {"idle", "polling"} \/ beating'[p]
                            => pc[p] \notin {"idle", "polling"} \/ beating[p]
<1> USE DEF WTypeOK
<1>1. ASSUME NEW p \in Processes, pc[p] \notin {"idle", "polling"}, NEW place,
             Goto(p, place) \/ LeaveRunning(p, place)
      PROVE  Kept
  BY <1>1 DEF Goto, LeaveRunning
<1>2. ASSUME NEW p \in Processes, Progress(p), ~Drop(p), ~Claim(p) PROVE Kept
  <2>1. CASE Poll(p)
    BY <2>1 DEF Poll, Goto
  <2>2. CASE Begin(p)
    BY <1>2, <2>2 DEF Begin, Return
  <2>3. CASE Fail(p)
    BY <1>2, <2>3 DEF Fail, Return
  <2>4. CASE \E place : Goto(p, place) \/ LeaveRunning(p, place)
    <3>1. CASE pc[p] \notin {"idle", "polling"}
      BY <1>1, <2>4, <3>1
    <3>2. CASE pc[p] \in {"idle", "polling"}
      BY <1>2, <2>1, <3>2
      DEF Progress, Begin, Collect, ChildGone, Interrupt, Deadline, FinalCheck, Finish, Finalize,
          Cancelled, Fail, RecordFailure
    <3> QED
      BY <3>1, <3>2
  <2> QED
    BY <1>2, <2>1, <2>2, <2>3, <2>4
    DEF Progress, Collect, ChildGone, Interrupt, Deadline, FinalCheck, Finish, Finalize,
        Cancelled, RecordFailure, Return
<1>3. ASSUME NEW p \in Processes, Heartbeat(p) PROVE Kept
  BY <1>3 DEF Heartbeat, workerVars
<1>4. ASSUME NEW p \in Processes, Environment(p), ~Drop(p) PROVE Kept
  <2>1. CASE Start(p) \/ Stop(p) \/ HeartbeatFails(p)
    BY <2>1 DEF Start, Stop, HeartbeatFails
  <2>2. CASE StoreFails(p)
    BY <1>1, <1>4, <2>2 DEF StoreFails, Return
  <2> QED
    BY <1>4, <2>1, <2>2 DEF Environment, Exit, Crash
<1>5. ASSUME UNCHANGED workerVars PROVE Kept
  BY <1>5 DEF workerVars
<1>6. ASSUME NEW a \in Attempts, Child(a) PROVE UNCHANGED workerVars
  BY <1>6 DEF Child, ChildAcquire, ChildCheck, ChildWork, ChildCheckpoint, ChildReturn,
              ChildReport, ChildDies, StrayWork, StrayEnds, PlaybookLost
<1> QED
  BY <1>2, <1>3, <1>4, <1>5, <1>6 DEF WNext, Operator, Pass, vars

\* Every step keeps contexts distinct and issued: claim_next hands out a
\* generation that no process has had, and a context is dropped as a whole.
LEMMA ContextStep ==
    ASSUME WTypeOK, ContextPresent, AttemptIssued, AttemptsAreDistinct, [WNext]_vars
    PROVE  (ContextPresent /\ AttemptIssued /\ AttemptsAreDistinct)'
<1> USE DEF WTypeOK, ContextPresent, AttemptIssued, AttemptsAreDistinct
<1>1. \A j \in Jobs : gen[j] \in Nat /\ gen'[j] >= gen[j] /\ gen'[j] \in Nat
  BY StoreStep, GenGrows, TypeStep, StoreAssumption DEF TypeOK, Generations
<1>2. CASE /\ UNCHANGED <<job, att>>
           /\ \A p \in Processes :
                 pc'[p] \notin {"idle", "polling"} \/ beating'[p]
                    => pc[p] \notin {"idle", "polling"} \/ beating[p]
  BY <1>1, <1>2, StoreAssumption DEF Generations
<1>3. ASSUME NEW p \in Processes, Drop(p)
      PROVE  (ContextPresent /\ AttemptIssued /\ AttemptsAreDistinct)'
  BY <1>1, <1>3, WorkerAssumption, StoreAssumption DEF Drop, Generations
<1>4. ASSUME NEW p \in Processes, Claim(p), ~Drop(p)
      PROVE  (ContextPresent /\ AttemptIssued /\ AttemptsAreDistinct)'
  <2>1. PICK j \in Jobs, d \in Delays :
           /\ ClaimNext(WorkerId[p], j, d)
           /\ pc' = [pc EXCEPT ![p] = "claimed"]
           /\ job' = [job EXCEPT ![p] = j]
           /\ att' = [att EXCEPT ![p] = gen'[j]]
           /\ UNCHANGED beating
    BY <1>4 DEF Claim, Return
  <2>2. gen'[j] = gen[j] + 1
    BY <2>1 DEF ClaimNext, TypeOK
  <2>3. ContextPresent'
    BY <2>1
  <2>4. AttemptIssued'
    BY <1>1, <2>1, <2>2, StoreAssumption DEF Generations
  <2>5. AttemptsAreDistinct'
    BY <1>1, <2>1, <2>2, StoreAssumption, WorkerAssumption DEF Generations
  <2> QED
    BY <2>3, <2>4, <2>5
<1> QED
  BY <1>2, <1>3, <1>4, ContextMoves

-----------------------------------------------------------------------------
(* The deployment boundary and the order of effects.                       *)

\* What a step can do to the children: leave them, end one, start one that is
\* backed by an issued attempt, or be a step of the child itself.
LEMMA ChildMoves ==
    ASSUME WTypeOK, ContextPresent, AttemptIssued, [WNext]_vars
    PROVE  \/ UNCHANGED childVars
           \/ \E a \in Attempts : a[2] <= gen[a[1]] /\ Kill(a)
           \/ \E a \in Attempts : /\ a[2] <= gen[a[1]]
                                   /\ kid' = [kid EXCEPT ![a] = "boot"]
                                   /\ UNCHANGED <<holders, strays, lastEffect>>
           \/ \E a \in Attempts : Child(a)
<1>1. ASSUME NEW p \in Processes, pc[p] \in {"claimed", "running"}
      PROVE  Mine(p) \in Attempts /\ Mine(p)[2] <= gen[Mine(p)[1]]
  <2>1. job[p] \in Jobs /\ att[p] \in 1 .. gen[job[p]]
    BY <1>1 DEF ContextPresent, AttemptIssued
  <2>2. gen[job[p]] \in 0 .. MaxGeneration
    BY <2>1 DEF WTypeOK, TypeOK, Generations
  <2> QED
    BY <2>1, <2>2, StoreAssumption DEF Mine, Attempts
<1>2. ASSUME NEW p \in Processes, Begin(p), ~UNCHANGED childVars
      PROVE  \E a \in Attempts : /\ a[2] <= gen[a[1]]
                                 /\ kid' = [kid EXCEPT ![a] = "boot"]
                                 /\ UNCHANGED <<holders, strays, lastEffect>>
  BY <1>1, <1>2 DEF Begin
<1> QED
  BY <1>1, <1>2
  DEF WNext, Operator, Progress, Poll, Claim, Collect, ChildGone, Interrupt, Deadline, FinalCheck,
      Finish, Finalize, Cancelled, Fail, RecordFailure, Heartbeat, Environment, Start, Stop, Exit,
      Crash, HeartbeatFails, StoreFails, Pass, vars

\* Every step keeps the facts about the deployment boundary: a child in the
\* body of its handler holds the boundary alone, and no effect is newer.
LEMMA BoundaryStep ==
    ASSUME WTypeOK, ContextPresent, AttemptIssued, BoundaryInv, [WNext]_vars PROVE BoundaryInv'
<1> USE DEF WTypeOK, BoundaryInv
<1>1. \A j \in Jobs : gen[j] \in Nat /\ gen'[j] >= gen[j] /\ gen'[j] \in Nat
  BY StoreStep, GenGrows, TypeStep, StoreAssumption DEF TypeOK, Generations
<1>2. \A a \in Attempts : a[1] \in Jobs /\ a[2] \in Nat
  BY StoreAssumption DEF Attempts
<1>3. lastEffect \in [Jobs -> Nat]
  BY StoreAssumption DEF Generations
<1>4. CASE UNCHANGED childVars
  BY <1>1, <1>2, <1>3, <1>4 DEF childVars
<1>5. ASSUME NEW a \in Attempts, a[2] <= gen[a[1]], Kill(a) PROVE BoundaryInv'
  BY <1>1, <1>2, <1>3, <1>5 DEF Kill, LeaveTool
<1>6. ASSUME NEW a \in Attempts, a[2] <= gen[a[1]], kid' = [kid EXCEPT ![a] = "boot"],
             UNCHANGED <<holders, strays, lastEffect>>
      PROVE  BoundaryInv'
  BY <1>1, <1>2, <1>3, <1>6
<1>7. ASSUME NEW a \in Attempts, Child(a) PROVE BoundaryInv'
  <2>0. UNCHANGED gen
    BY <1>7 DEF Child, ChildAcquire, ChildCheck, ChildWork, ChildCheckpoint, ChildReturn,
                ChildReport, ChildDies, StrayWork, StrayEnds, PlaybookLost, storeVars
  <2>1. CASE ChildAcquire(a)
    BY <1>1, <1>2, <1>3, <2>0, <2>1 DEF ChildAcquire, ChildGoto
  <2>2. CASE ChildCheck(a)
    <3>1. ASSUME NEW d, ChildLease(a, d) PROVE a[2] = gen[a[1]]
      BY <3>1 DEF ChildLease, LiveLease
    <3>2. CASE ChildGoto(a, "working") /\ a[2] = gen[a[1]] /\ UNCHANGED <<holders, strays, lastEffect>>
      BY <1>1, <1>2, <1>3, <2>0, <2>2, <3>2 DEF ChildGoto, ChildCheck
    <3>3. CASE \E m \in {"cancelled", "lease_lost"} :
                  ChildGoto(a, m) /\ holders' = holders \ {a} /\ UNCHANGED <<strays, lastEffect>>
      BY <1>1, <1>2, <1>3, <2>0, <2>2, <3>3 DEF ChildGoto, ChildCheck
    <3> QED
      BY <2>2, <3>1, <3>2, <3>3 DEF ChildCheck
  <2>3. CASE ChildWork(a)
    <3>1. a \in holders /\ a[2] <= gen[a[1]]
      BY <2>3 DEF ChildWork
    <3>2. \A b \in Attempts : kid[b] = "working" => b = a
      BY <3>1
    <3>3. lastEffect' = [lastEffect EXCEPT ![a[1]] = a[2]] /\ kid' = kid /\ holders' = holders
          /\ strays' = strays
      BY <2>3 DEF ChildWork
    <3> QED
      BY <1>1, <1>2, <1>3, <2>0, <3>1, <3>2, <3>3
  <2>5. CASE ChildCheckpoint(a) \/ ChildReturn(a)
    <3>1. \E m \in Phases \ {"none", "held", "working"} :
             /\ ChildGoto(a, m) /\ holders' = holders \ {a} /\ kid[a] = "working"
             /\ LeaveTool(a) /\ UNCHANGED lastEffect
      BY <2>5 DEF LeaveTool, ChildCheckpoint, ChildReturn, Phases, Messages
    <3> QED
      BY <1>1, <1>2, <1>3, <2>0, <3>1 DEF ChildGoto, LeaveTool
  <2>6. CASE ChildReport(a)
    <3>1. \E m \in Phases \ {"none", "held", "working"} :
             ChildGoto(a, m) /\ holders' = holders /\ kid[a] = "returned" /\ UNCHANGED <<strays, lastEffect>>
      BY <2>6 DEF ChildReport, Phases, Messages
    <3> QED
      BY <1>1, <1>2, <1>3, <2>0, <3>1 DEF ChildGoto
  <2>7. CASE ChildDies(a)
    BY <1>5, <2>7 DEF ChildDies, StrayWork, StrayEnds, PlaybookLost, Live
  <2>8. CASE StrayWork(a)
    <3>1. a \in strays /\ a[2] <= gen[a[1]]
      BY <2>8 DEF StrayWork
    <3>2. /\ lastEffect' = [lastEffect EXCEPT ![a[1]] = a[2]]
          /\ kid' = kid /\ holders' = holders /\ strays' = strays
      BY <2>8 DEF StrayWork
    <3> QED
      BY <1>1, <1>2, <1>3, <2>0, <3>1, <3>2
  <2>9. CASE StrayEnds(a)
    BY <1>1, <1>2, <1>3, <2>0, <2>9 DEF StrayEnds
  <2>10. CASE PlaybookLost(a)
    <3>1. a \in holders /\ a[2] <= gen[a[1]] /\ strays' = strays \cup {a}
          /\ kid' = kid /\ holders' = holders /\ lastEffect' = lastEffect
      BY <2>10 DEF PlaybookLost
    <3>2. \A b \in Attempts : kid[b] = "working" => b = a
      BY <3>1
    <3> QED
      BY <1>1, <1>2, <1>3, <2>0, <3>1, <3>2
  <2> QED
    BY <1>7, <2>1, <2>2, <2>3, <2>5, <2>6, <2>7, <2>8, <2>9, <2>10 DEF Child
<1> QED
  BY <1>4, <1>5, <1>6, <1>7, ChildMoves

-----------------------------------------------------------------------------
\* The invariant holds throughout (worker.py and store.py together).
THEOREM WorkerInvariant == WSpec => []WInv
<1>1. WInit => WInv
  <2> SUFFICES ASSUME WInit PROVE WInv
    OBVIOUS
  <2>1. TypeOK
    BY StoreAssumption DEF WInit, Init, TypeOK, States, Generations
  <2>2. WTypeOK
    BY <2>1, StoreAssumption, WorkerAssumption
    DEF WInit, WTypeOK, ProcessStates, Places, States, Generations, Phases
  <2> QED
    BY <2>2, StoreAssumption, WorkerAssumption
    DEF WInit, Init, WInv, ContextPresent, AttemptIssued, AttemptsAreDistinct, BoundaryInv
<1>2. WInv /\ [WNext]_vars => WInv'
  <2> SUFFICES ASSUME WInv, [WNext]_vars PROVE WInv'
    OBVIOUS
  <2>1. TypeOK'
    BY StoreStep, TypeStep DEF WInv, WTypeOK
  <2>2. WTypeOK'
    BY <2>1, WorkerTypedStep, ChildTypedKept DEF WInv, WTypeOK, WorkerTyped, ChildTyped
  <2> QED
    BY <2>2, ContextStep, BoundaryStep DEF WInv
<1> QED
  BY <1>1, <1>2, PTL DEF WSpec

\* Rows, leases, processes and boundary stay well formed, whatever the
\* controllers and their operation children do and whenever they die.
THEOREM WorkersTyped == WSpec => []WTypeOK
BY WorkerInvariant, PTL DEF WInv

\* No two controllers ever work for the same attempt of a job, although all
\* of them may have the same worker id: claim_next's generation is enough.
THEOREM AttemptsNeverShared == WSpec => []AttemptsAreDistinct
BY WorkerInvariant, PTL DEF WInv

\* Replays of a job interleave only through playbooks that were left behind:
\* once a newer attempt has changed the deployment, no child of an older attempt
\* does, and no playbook it waits for (the lease check made while the
\* deployment boundary is held, _exclusive_operation).
THEOREM ReplaysInOrder == WSpec => EffectsInOrder
<1> DEFINE InOrder == \A j \in Jobs : lastEffect'[j] >= lastEffect[j] \/ <<j, lastEffect'[j]>> \in strays
<1>1. WInv /\ [WNext]_vars => [InOrder]_vars
  <2> SUFFICES ASSUME WInv, [WNext]_vars PROVE InOrder
    OBVIOUS
  <2>0. lastEffect \in [Jobs -> Nat]
    BY StoreAssumption DEF WInv, WTypeOK, Generations
  <2>1. ASSUME UNCHANGED lastEffect PROVE InOrder
    BY <2>0, <2>1
  <2>2. ASSUME NEW a \in Attempts, ChildWork(a) PROVE InOrder
    <3>1. a[1] \in Jobs /\ a[2] \in Nat /\ lastEffect[a[1]] <= a[2]
      BY <2>2, StoreAssumption DEF ChildWork, WInv, BoundaryInv, Attempts
    <3> QED
      BY <2>0, <2>2, <3>1 DEF ChildWork
  <2>3. ASSUME NEW a \in Attempts, StrayWork(a) PROVE InOrder
    <3>1. a[1] \in Jobs /\ a = <<a[1], a[2]>>
      BY DEF Attempts
    <3>2. a \in strays /\ \A j \in Jobs : lastEffect'[j] = IF j = a[1] THEN a[2] ELSE lastEffect[j]
      BY <2>0, <2>3 DEF StrayWork
    <3> QED
      BY <2>0, <3>1, <3>2
  <2>4. UNCHANGED childVars => UNCHANGED lastEffect
    BY DEF childVars
  <2>5. ASSUME NEW a \in Attempts, Child(a) PROVE ChildWork(a) \/ StrayWork(a) \/ UNCHANGED lastEffect
    BY <2>5
    DEF Child, ChildAcquire, ChildCheck, ChildCheckpoint, ChildReturn, ChildReport, ChildDies, Kill,
        StrayEnds, PlaybookLost
  <2>6. UNCHANGED lastEffect \/ \E a \in Attempts : ChildWork(a) \/ StrayWork(a)
    BY <2>4, <2>5, ChildMoves DEF WInv, Kill
  <2> QED
    BY <2>1, <2>2, <2>3, <2>6
<1> QED
  BY <1>1, WorkerInvariant, PTL DEF WSpec, EffectsInOrder

\* The controllers use the job store as it is meant to be used: everything
\* proved of the store (CancelWins, the lifecycle, ...) holds of them.
THEOREM WorkerUsesStore == WSpec => Spec
<1>1. WInit => Init
  BY DEF WInit
<1>2. WInv /\ [WNext]_vars => [Next]_storeVars
  BY StoreStep DEF WInv
<1> QED
  BY <1>1, <1>2, WorkerInvariant, PTL DEF WSpec, Spec

-----------------------------------------------------------------------------
(* Success is final.                                                       *)

\* Neither attempt a nor an older one of its job is changing the deployment.
Quiet(a) == \A b \in Attempts : b[1] = a[1] /\ b[2] <= a[2] => kid[b] # "working"

\* The job is quiet up to an attempt from the moment its handler returns, while
\* the message travels and until the verdict is recorded.
QuietInv ==
    /\ \A a \in Attempts : kid[a] \in {"returned", "succeeded"} => Quiet(a)
    /\ \A p \in Processes :
          pc[p] \in {"collected", "finishing"} => kid[Mine(p)] = "dead" /\ Quiet(Mine(p))

\* No handler works for a job that is reported as (partly) successful.
HandlersOver ==
    \A a \in Attempts : state[a[1]] \in {"SUCCEEDED", "PARTIAL_FAILURE"} => kid[a] # "working"

\* A process past its claim works for an attempt that was issued.
LEMMA MineIssued ==
    ASSUME WInv, NEW p \in Processes, pc[p] \notin {"idle", "polling"}
    PROVE  Mine(p) \in Attempts /\ Mine(p)[1] = job[p] /\ Mine(p)[2] = att[p]
           /\ job[p] \in Jobs /\ att[p] <= gen[job[p]]
<1>1. job[p] \in Jobs /\ att[p] \in 1 .. gen[job[p]]
  BY DEF WInv, ContextPresent, AttemptIssued
<1>2. gen[job[p]] \in 0 .. MaxGeneration
  BY <1>1 DEF WInv, WTypeOK, TypeOK, Generations
<1> QED
  BY <1>1, <1>2, StoreAssumption DEF Mine, Attempts

\* What a step can do to a child: start the body of the handler under a lease,
\* end the body under the boundary, report what has ended, start it anew.
LEMMA ChildSteps ==
    ASSUME WInv, [WNext]_vars, NEW a \in Attempts
    PROVE  /\ kid'[a] = "working" /\ kid[a] # "working" =>
                 /\ kid[a] = "held" /\ a[2] = gen[a[1]] /\ state[a[1]] \in Leased
                 /\ UNCHANGED <<storeVars, pc, job, att>>
                 /\ \A b \in Attempts : b # a => kid'[b] = kid[b]
           /\ kid'[a] = "returned" /\ kid[a] # "returned" =>
                 /\ kid[a] = "working" /\ a \in holders
                 /\ \A b \in Attempts : b # a => kid'[b] = kid[b]
           /\ kid'[a] = "succeeded" /\ kid[a] # "succeeded" => kid[a] = "returned"
           /\ kid[a] = "dead" /\ kid'[a] # "dead" =>
                 \E p \in Processes : pc[p] = "claimed" /\ Mine(p) = a
<1> USE DEF WInv, WTypeOK
<1>1. CASE UNCHANGED childVars
  BY <1>1 DEF childVars
<1>2. ASSUME NEW b \in Attempts, Kill(b)
      PROVE  kid'[a] \in {kid[a], "dead"}
  BY <1>2 DEF Kill
<1>3. ASSUME NEW p \in Processes, Begin(p), ~UNCHANGED childVars
      PROVE  \/ kid'[a] = kid[a]
             \/ kid'[a] = "boot" /\ pc[p] = "claimed" /\ Mine(p) = a
  BY <1>3 DEF Begin
<1>4. ASSUME NEW b \in Attempts, Child(b)
      PROVE  /\ kid'[a] = "working" /\ kid[a] # "working" =>
                   /\ kid[a] = "held" /\ a[2] = gen[a[1]] /\ state[a[1]] \in Leased
                   /\ UNCHANGED <<storeVars, pc, job, att>>
                   /\ \A c \in Attempts : c # a => kid'[c] = kid[c]
             /\ kid'[a] = "returned" /\ kid[a] # "returned" =>
                   /\ kid[a] = "working" /\ a \in holders
                   /\ \A c \in Attempts : c # a => kid'[c] = kid[c]
             /\ kid'[a] = "succeeded" /\ kid[a] # "succeeded" => kid[a] = "returned"
             /\ kid[a] = "dead" => kid'[a] = "dead"
  <2>1. CASE ChildCheck(b)
    BY <2>1 DEF ChildCheck, ChildGoto, ChildLease, LiveLease, workerVars
  <2>2. CASE ChildReturn(b)
    BY <2>2 DEF ChildReturn, ChildGoto, BoundaryInv
  <2>3. CASE ChildReport(b)
    BY <2>3 DEF ChildReport, ChildGoto
  <2>4. CASE ChildAcquire(b) \/ ChildWork(b) \/ ChildCheckpoint(b) \/ ChildDies(b)
             \/ StrayWork(b) \/ StrayEnds(b) \/ PlaybookLost(b)
    BY <2>4 DEF StrayWork, StrayEnds, PlaybookLost, ChildAcquire, ChildWork, ChildCheckpoint, ChildDies, StrayWork, StrayEnds, PlaybookLost, ChildGoto, Kill, Live
  <2> QED
    BY <1>4, <2>1, <2>2, <2>3, <2>4 DEF Child
<1>5. ASSUME NEW p \in Processes, pc[p] = "running" PROVE Mine(p) \in Attempts
  BY <1>5, MineIssued
<1> QED
  BY <1>1, <1>2, <1>3, <1>4, <1>5
  DEF WNext, Operator, Progress, Poll, Claim, Collect, ChildGone, Interrupt, Deadline, FinalCheck,
      Finish, Finalize, Cancelled, Fail, RecordFailure, Heartbeat, Environment, Start, Stop, Exit,
      Crash, HeartbeatFails, StoreFails, Pass, vars

\* A process collects a success from its child, which is then gone, and moves on
\* to the transition with the same context.
LEMMA CollectSteps ==
    ASSUME WInv, [WNext]_vars, NEW p \in Processes, pc'[p] \in {"collected", "finishing"}
    PROVE  /\ pc[p] \notin {"idle", "polling"} /\ Mine(p)' = Mine(p)
           /\ \/ pc[p] \in {"collected", "finishing"}
              \/ /\ pc[p] = "running" /\ kid[Mine(p)] = "succeeded"
                 /\ kid' = [kid EXCEPT ![Mine(p)] = "dead"]
<1> USE DEF WInv, WTypeOK
<1>1. ASSUME NEW q \in Processes, NEW place, Goto(q, place) \/ LeaveRunning(q, place)
      PROVE  Mine(p)' = Mine(p) /\ pc'[p] = IF p = q THEN place ELSE pc[p]
  BY <1>1 DEF Goto, LeaveRunning, Mine
<1>2. ASSUME NEW q \in Processes, Drop(q)
      PROVE  p # q /\ Mine(p)' = Mine(p) /\ pc'[p] = pc[p]
  BY <1>2 DEF Drop, Mine
<1>3. ASSUME NEW q \in Processes, Progress(q)
      PROVE  /\ Mine(p)' = Mine(p)
             /\ \/ pc'[p] = pc[p]
                \/ pc[p] = "collected"
                \/ /\ pc[p] = "running" /\ kid[Mine(p)] = "succeeded"
                   /\ kid' = [kid EXCEPT ![Mine(p)] = "dead"]
  <2>1. CASE Collect(q)
    <3>1. pc[q] = "running" /\ kid' = [kid EXCEPT ![Mine(q)] = "dead"]
      BY <2>1 DEF Collect, Kill
    <3>2. \/ kid[Mine(q)] = "succeeded" /\ LeaveRunning(q, "collected")
          \/ LeaveRunning(q, "cancelling") \/ LeaveRunning(q, "failing")
          \/ Drop(q)
      BY <2>1 DEF Collect, Return
    <3>3. CASE LeaveRunning(q, "collected") /\ kid[Mine(q)] = "succeeded"
      BY <1>1, <3>1, <3>3
    <3>4. CASE LeaveRunning(q, "cancelling") \/ LeaveRunning(q, "failing")
      BY <1>1, <3>4
    <3>5. CASE Drop(q)
      BY <1>2, <3>5
    <3> QED
      BY <3>2, <3>3, <3>4, <3>5
  <2>2. CASE FinalCheck(q)
    BY <1>1, <1>2, <2>2 DEF FinalCheck, Return
  <2>3. CASE Claim(q)
    BY <1>2, <2>3 DEF Claim, Return, Mine
  <2>4. CASE Begin(q)
    BY <1>2, <2>4 DEF Begin, Return, Mine
  <2>5. CASE Fail(q)
    BY <1>2, <2>5 DEF Fail, Return, Mine
  <2>6. CASE Poll(q) \/ ChildGone(q) \/ Interrupt(q) \/ Deadline(q)
    BY <1>1, <1>2, <2>6 DEF Poll, ChildGone, Interrupt, Deadline, Return
  <2>7. CASE Finish(q) \/ Finalize(q) \/ Cancelled(q) \/ RecordFailure(q)
    BY <1>1, <1>2, <2>7 DEF Finish, Finalize, Cancelled, RecordFailure, Return
  <2> QED
    BY <1>3, <2>1, <2>2, <2>3, <2>4, <2>5, <2>6, <2>7 DEF Progress
<1>4. ASSUME NEW q \in Processes, Environment(q) PROVE Mine(p)' = Mine(p) /\ pc'[p] = pc[p]
  <2>1. CASE Exit(q) \/ Crash(q)
    BY <1>2, <2>1 DEF Exit, Crash
  <2>2. CASE StoreFails(q)
    BY <1>1, <1>2, <2>2 DEF StoreFails, Return
  <2>3. CASE Start(q) \/ Stop(q) \/ HeartbeatFails(q)
    BY <2>3 DEF Start, Stop, HeartbeatFails, Mine
  <2> QED
    BY <1>4, <2>1, <2>2, <2>3 DEF Environment
<1>5. ASSUME UNCHANGED workerVars PROVE Mine(p)' = Mine(p) /\ pc'[p] = pc[p]
  BY <1>5 DEF workerVars, Mine
<1>6. ASSUME NEW q \in Processes, Heartbeat(q) PROVE Mine(p)' = Mine(p) /\ pc'[p] = pc[p]
  BY <1>5, <1>6 DEF Heartbeat, Mine
<1>7. ASSUME NEW a \in Attempts, Child(a) PROVE UNCHANGED workerVars
  BY <1>7 DEF Child, ChildAcquire, ChildCheck, ChildWork, ChildCheckpoint, ChildReturn,
              ChildReport, ChildDies, StrayWork, StrayEnds, PlaybookLost
<1> QED
  BY <1>3, <1>4, <1>5, <1>6, <1>7 DEF WNext, Operator, Pass, vars

\* Only Finish records a success, for the attempt that holds the lease.
LEMMA SuccessRecorded ==
    ASSUME WInv, [WNext]_vars, NEW j \in Jobs, state[j] \notin {"SUCCEEDED", "PARTIAL_FAILURE"},
           state'[j] \in {"SUCCEEDED", "PARTIAL_FAILURE"}
    PROVE  /\ \E p \in Processes : pc[p] = "finishing" /\ job[p] = j /\ att[p] = gen[j]
           /\ UNCHANGED kid
<1> USE DEF WInv, WTypeOK, TypeOK
<1>1. UNCHANGED storeVars => FALSE
  BY DEF storeVars
<1>2. ASSUME NEW p \in Processes, Progress(p)
      PROVE  Finish(p) /\ pc[p] = "finishing" /\ job[p] = j /\ att[p] = gen[j]
  <2>1. CASE Finish(p)
    <3>1. PICK d \in Delays : \E target : Transition(job[p], "RUNNING", target, WorkerId[p], att[p], d)
      BY <1>1, <2>1 DEF Finish
    <3> QED
      BY <2>1, <3>1 DEF Finish, Transition, LiveLease
  <2>2. CASE Claim(p)
    BY <2>2 DEF Claim, ClaimNext, ClaimNothing
  <2>3. CASE Cancelled(p)
    BY <1>1, <2>3 DEF Cancelled, Transition
  <2>4. CASE RecordFailure(p)
    BY <1>1, <2>4 DEF RecordFailure, Transition
  <2> QED
    BY <1>1, <1>2, <2>1, <2>2, <2>3, <2>4
    DEF Progress, Poll, Begin, Collect, ChildGone, Interrupt, Deadline, FinalCheck, Finalize, Fail
<1>3. ASSUME NEW p \in Processes, Heartbeat(p) PROVE FALSE
  BY <1>1, <1>3 DEF Heartbeat, RenewLease
<1>4. ASSUME NEW p \in Processes, Environment(p) PROVE FALSE
  BY <1>1, <1>4 DEF Environment, Start, Stop, Exit, Crash, HeartbeatFails, StoreFails
<1>5. ASSUME NEW a \in Attempts, Child(a) PROVE FALSE
  BY <1>1, <1>5 DEF Child, ChildAcquire, ChildCheck, ChildWork, ChildCheckpoint, ChildReturn,
                    ChildReport, ChildDies, StrayWork, StrayEnds, PlaybookLost
<1>6. ~Operator
  BY DEF Operator, Submit, RequestCancel
<1>7. ~Pass
  BY DEF Pass, Tick
<1>8. PICK p \in Processes : Progress(p)
  BY <1>1, <1>3, <1>4, <1>5, <1>6, <1>7 DEF WNext, vars
<1> QED
  BY <1>2, <1>8 DEF Finish, childVars

\* Every step keeps a job quiet from the return of its handler on: an older
\* child has to pass the lease check again, which it no longer can.
LEMMA QuietStep ==
    ASSUME WInv, WInv', QuietInv, HandlersOver, [WNext]_vars PROVE (QuietInv /\ HandlersOver)'
<1>1. \A a \in Attempts : a[1] \in Jobs /\ a[2] \in Nat
  BY StoreAssumption DEF Attempts
<1>2. \A j \in Jobs : gen[j] \in Nat
  BY StoreAssumption DEF WInv, WTypeOK, TypeOK, Generations
<1>3. \A a, b \in Attempts : a[1] = b[1] /\ a[2] = b[2] => a = b
  BY DEF Attempts
<1>4. ASSUME NEW a \in Attempts, Quiet(a), a[2] <= gen[a[1]],
             kid[a] \in {"returned", "succeeded", "dead"}
      PROVE  Quiet(a)'
  <2> SUFFICES ASSUME NEW b \in Attempts, b[1] = a[1], b[2] <= a[2], kid'[b] = "working" PROVE FALSE
    BY DEF Quiet
  <2>1. kid[b] # "working"
    BY <1>4 DEF Quiet
  <2>2. kid[b] = "held" /\ b[2] = gen[b[1]]
    BY <2>1, ChildSteps
  <2>3. b[2] = a[2]
    BY <1>1, <1>2, <1>4, <2>2
  <2> QED
    BY <1>3, <1>4, <2>2, <2>3
<1>5. ASSUME NEW a \in Attempts, kid'[a] \in {"returned", "succeeded"} PROVE Quiet(a)'
  <2>1. CASE kid[a] \in {"returned", "succeeded"}
    <3>1. Quiet(a) /\ a[2] <= gen[a[1]]
      BY <2>1 DEF QuietInv, WInv, BoundaryInv
    <3> QED
      BY <1>4, <2>1, <3>1
  <2>2. CASE kid[a] \notin {"returned", "succeeded"}
    <3>1. /\ kid'[a] = "returned" /\ a \in holders
          /\ \A b \in Attempts : b # a => kid'[b] = kid[b]
      BY <1>5, <2>2, ChildSteps
    <3>2. \A b \in Attempts : kid[b] = "working" => b = a
      BY <3>1 DEF WInv, BoundaryInv
    <3> QED
      BY <3>1, <3>2 DEF Quiet
  <2> QED
    BY <2>1, <2>2
<1>6. ASSUME NEW p \in Processes, pc'[p] \in {"collected", "finishing"}
      PROVE  (kid[Mine(p)] = "dead" /\ Quiet(Mine(p)))'
  <2>1. /\ pc[p] \notin {"idle", "polling"} /\ Mine(p)' = Mine(p)
        /\ Mine(p) \in Attempts /\ Mine(p)[2] <= gen[Mine(p)[1]]
    BY <1>6, CollectSteps, MineIssued
  <2>2. CASE pc[p] \in {"collected", "finishing"}
    <3>1. kid[Mine(p)] = "dead" /\ Quiet(Mine(p))
      BY <2>2 DEF QuietInv
    <3>2. kid'[Mine(p)] = "dead"
      <4>1. SUFFICES ASSUME kid'[Mine(p)] # "dead" PROVE FALSE
        OBVIOUS
      <4>2. PICK q \in Processes : pc[q] = "claimed" /\ Mine(q) = Mine(p)
        BY <2>1, <3>1, <4>1, ChildSteps
      <4>3. job[q] = job[p] /\ att[q] = att[p] /\ job[p] \in Jobs
        BY <2>1, <4>2, MineIssued
      <4>4. q # p
        BY <2>2, <4>2
      <4> QED
        BY <4>3, <4>4, WorkerAssumption DEF WInv, AttemptsAreDistinct
    <3>3. Quiet(Mine(p))'
      <4> DEFINE a == Mine(p)
      <4>1. a \in Attempts /\ Quiet(a) /\ a[2] <= gen[a[1]] /\ kid[a] = "dead"
        BY <2>1, <3>1
      <4>2. a' = a
        BY <2>1
      <4> HIDE DEF a
      <4>3. \A b \in Attempts : b[1] = a[1] /\ b[2] <= a[2] => kid'[b] # "working"
        BY <1>4, <4>1, <4>2 DEF Quiet
      <4> QED
        BY <4>2, <4>3 DEF Quiet, a
    <3> QED
      BY <2>1, <3>2, <3>3
  <2>3. CASE pc[p] = "running" /\ kid[Mine(p)] = "succeeded"
             /\ kid' = [kid EXCEPT ![Mine(p)] = "dead"]
    <3>1. Quiet(Mine(p))
      BY <2>1, <2>3 DEF QuietInv
    <3>2. kid \in [Attempts -> Phases]
      BY DEF WInv, WTypeOK
    <3> QED
      BY <2>1, <2>3, <3>1, <3>2 DEF Quiet
  <2> QED
    BY <1>6, <2>2, <2>3, CollectSteps
<1>7. ASSUME NEW a \in Attempts, state'[a[1]] \in {"SUCCEEDED", "PARTIAL_FAILURE"}
      PROVE  kid'[a] # "working"
  <2>1. CASE state[a[1]] \in {"SUCCEEDED", "PARTIAL_FAILURE"}
    BY <1>1, <1>7, <2>1, ChildSteps DEF HandlersOver, Leased
  <2>2. CASE state[a[1]] \notin {"SUCCEEDED", "PARTIAL_FAILURE"}
    <3>1. PICK p \in Processes : pc[p] = "finishing" /\ job[p] = a[1] /\ att[p] = gen[a[1]]
      BY <1>1, <1>7, <2>2, SuccessRecorded
    <3>2. kid' = kid
      BY <1>1, <1>7, <2>2, SuccessRecorded
    <3>3. Quiet(Mine(p)) /\ Mine(p)[1] = a[1] /\ Mine(p)[2] = gen[a[1]]
      BY <3>1, MineIssued DEF QuietInv
    <3>4. kid[a] # "none" => a[2] <= gen[a[1]]
      BY DEF WInv, BoundaryInv
    <3> QED
      BY <3>2, <3>3, <3>4 DEF Quiet
  <2> QED
    BY <2>1, <2>2
<1> QED
  BY <1>5, <1>6, <1>7 DEF QuietInv, HandlersOver

\* From the return of a handler on, no handler works for its job.
LEMMA HandlersQuiet == WSpec => [](QuietInv /\ HandlersOver)
<1>1. WInit => QuietInv /\ HandlersOver
  BY DEF WInit, Init, QuietInv, HandlersOver
<1>2. WInv /\ WInv' /\ QuietInv /\ HandlersOver /\ [WNext]_vars => (QuietInv /\ HandlersOver)'
  BY QuietStep
<1> QED
  BY <1>1, <1>2, WorkerInvariant, PTL DEF WSpec

-----------------------------------------------------------------------------
(* Attempts are paid for by faults.                                        *)

\* A process that is down is nowhere in run_once, and one that has no context
\* has no heartbeat either.
Asleep ==
    \A p \in Processes :
        /\ alive[p] = "down" => pc[p] = "idle"
        /\ pc[p] \in {"idle", "polling"} => ~lost[p] /\ ~beating[p]

\* Processes that were told to stop and will still claim one more job, which
\* they then give up without another fault.
LastClaims == {p \in Processes : alive[p] = "stopping" /\ pc[p] = "polling"}

\* The process runs normally and has the lease of its job: it will record a
\* verdict, unless there is a fault or the operator cancels.
Tended(p) ==
    /\ alive[p] = "up" /\ ~lost[p]
    /\ job[p] \in Jobs /\ att[p] = gen[job[p]]
    /\ owner[job[p]] = WorkerId[p] /\ left[job[p]] > 0
    /\ pc[p] \in {"claimed", "running", "collected", "finishing", "failing", "recording"}
    /\ pc[p] = "running" => beating[p] /\ kid[Mine(p)] \notin {"cancelled", "lease_lost"}
    /\ pc[p] = "recording" => seen[p] = "RUNNING"

\* Attempts and claims still to come never exceed the faults by more than one;
\* a job that nobody tends may be claimed again, so it has no such one left.
Paid ==
    /\ IsFiniteSet(LastClaims)
    /\ \A j \in Jobs : state[j] \in {"none", "QUEUED"} => gen[j] = 0
    /\ Cardinality(LastClaims) <= faults
    /\ \A j \in Jobs : gen[j] + Cardinality(LastClaims) <= faults + 1
    /\ \A j \in Jobs : state[j] = "RUNNING" =>
          \/ gen[j] + Cardinality(LastClaims) <= faults
          \/ \E p \in Processes : job[p] = j /\ Tended(p)

\* Every step keeps Asleep.
LEMMA AsleepStep ==
    ASSUME WInv, Asleep, [WNext]_vars PROVE Asleep'
<1> USE DEF WInv, WTypeOK, Asleep
<1>1. ASSUME NEW p \in Processes, pc[p] # "idle", NEW place, place \notin {"idle", "polling"},
             Goto(p, place) \/ LeaveRunning(p, place)
      PROVE  Asleep'
  BY <1>1 DEF Goto, LeaveRunning
<1>2. ASSUME NEW p \in Processes, Drop(p), alive' = alive \/ alive' = [alive EXCEPT ![p] = "down"]
      PROVE  Asleep'
  BY <1>2 DEF Drop
<1>3. ASSUME NEW p \in Processes, Progress(p) PROVE Asleep'
  <2>1. CASE Poll(p)
    BY <2>1 DEF Poll, Goto
  <2>2. CASE Claim(p)
    BY <1>2, <2>2 DEF Claim, Return
  <2>3. CASE Begin(p)
    BY <1>2, <2>3 DEF Begin, Return
  <2>4. CASE Fail(p)
    BY <1>2, <2>4 DEF Fail, Return
  <2>5. CASE Collect(p) \/ ChildGone(p) \/ Interrupt(p) \/ Deadline(p)
    BY <1>1, <1>2, <2>5 DEF Collect, ChildGone, Interrupt, Deadline, Return
  <2>6. CASE FinalCheck(p) \/ Finish(p) \/ Finalize(p)
    BY <1>1, <1>2, <2>6 DEF FinalCheck, Finish, Finalize, Return
  <2>7. CASE Cancelled(p) \/ RecordFailure(p)
    BY <1>2, <2>7 DEF Cancelled, RecordFailure, Return
  <2> QED
    BY <1>3, <2>1, <2>2, <2>3, <2>4, <2>5, <2>6, <2>7 DEF Progress
<1>4. ASSUME NEW p \in Processes, Environment(p) PROVE Asleep'
  <2>1. CASE Start(p) \/ Stop(p)
    BY <2>1 DEF Start, Stop
  <2>2. CASE Exit(p) \/ Crash(p)
    BY <1>2, <2>2 DEF Exit, Crash
  <2>3. CASE HeartbeatFails(p)
    BY <2>3 DEF HeartbeatFails
  <2>4. CASE StoreFails(p)
    BY <1>1, <1>2, <2>4 DEF StoreFails, Return
  <2> QED
    BY <1>4, <2>1, <2>2, <2>3, <2>4 DEF Environment
<1>5. ASSUME UNCHANGED workerVars PROVE Asleep'
  BY <1>5 DEF workerVars
<1>6. ASSUME NEW p \in Processes, Heartbeat(p) PROVE Asleep'
  BY <1>5, <1>6 DEF Heartbeat
<1>7. ASSUME NEW a \in Attempts, Child(a) PROVE UNCHANGED workerVars
  BY <1>7 DEF Child, ChildAcquire, ChildCheck, ChildWork, ChildCheckpoint, ChildReturn,
              ChildReport, ChildDies, StrayWork, StrayEnds, PlaybookLost
<1> QED
  BY <1>3, <1>4, <1>5, <1>6, <1>7 DEF WNext, Operator, Pass, vars

\* What a step that is no claim of a job does to faults, generations and states.
Calm ==
    /\ UNCHANGED gen /\ LastClaims' \subseteq LastClaims
    /\ \A j \in Jobs :
          /\ state'[j] \in {"none", "QUEUED"} => state[j] \in {"none", "QUEUED"}
          /\ state'[j] = "RUNNING" => state[j] = "RUNNING"

\* Every step is calm, or a process is told to stop, or a job is claimed.
LEMMA StepKinds ==
    ASSUME WInv, [WNext]_vars
    PROVE  \/ Calm /\ Fault
           \/ Calm /\ UNCHANGED faults
           \/ \E p \in Processes : Stop(p)
           \/ \E p \in Processes, j \in Jobs, d \in Delays :
                 Claim(p) /\ ClaimNext(WorkerId[p], j, d)
<1> USE DEF WInv, WTypeOK, TypeOK, LastClaims
<1> DEFINE StateCalm ==
       /\ UNCHANGED gen
       /\ \A j \in Jobs :
             /\ state'[j] \in {"none", "QUEUED"} => state[j] \in {"none", "QUEUED"}
             /\ state'[j] = "RUNNING" => state[j] = "RUNNING"
<1>1. ASSUME UNCHANGED storeVars PROVE StateCalm
  BY <1>1 DEF storeVars
<1>2. ASSUME NEW j, NEW e, NEW t, NEW w, NEW g, NEW d, Transition(j, e, t, w, g, d)
      PROVE  StateCalm
  BY <1>2 DEF Transition, Terminal
<1>3. ASSUME NEW p \in Processes, NEW place, place # "polling", Goto(p, place) \/ LeaveRunning(p, place)
      PROVE  LastClaims' \subseteq LastClaims
  BY <1>3 DEF Goto, LeaveRunning
<1>4. ASSUME NEW p \in Processes, Drop(p), alive' = alive \/ alive' = [alive EXCEPT ![p] = "down"]
      PROVE  LastClaims' \subseteq LastClaims
  BY <1>4 DEF Drop
<1>5. ASSUME NEW p \in Processes, Progress(p),
             ~\E j \in Jobs, d \in Delays : Claim(p) /\ ClaimNext(WorkerId[p], j, d)
      PROVE  StateCalm /\ LastClaims' \subseteq LastClaims /\ UNCHANGED faults
  <2>1. CASE Poll(p)
    BY <1>1, <2>1 DEF Poll, Goto
  <2>2. CASE Claim(p)
    <3>1. PICK d \in Delays : ClaimNothing(d) /\ Return(p) /\ UNCHANGED faults
      BY <1>5, <2>2 DEF Claim
    <3>2. StateCalm
      BY <3>1 DEF ClaimNothing
    <3> QED
      BY <1>4, <3>1, <3>2 DEF Return
  <2>3. CASE Begin(p)
    BY <1>1, <1>4, <2>3 DEF Begin, Return
  <2>4. CASE Fail(p)
    BY <1>1, <1>4, <2>4 DEF Fail, Return
  <2>5. CASE Collect(p) \/ ChildGone(p) \/ Interrupt(p) \/ Deadline(p)
    BY <1>1, <1>3, <1>4, <2>5 DEF Collect, ChildGone, Interrupt, Deadline, Return
  <2>6. CASE FinalCheck(p) \/ Finalize(p)
    BY <1>1, <1>3, <1>4, <2>6 DEF FinalCheck, Finalize, Return
  <2>7. CASE Finish(p)
    BY <1>1, <1>2, <1>3, <1>4, <2>7 DEF Finish, Return
  <2>8. CASE Cancelled(p) \/ RecordFailure(p)
    BY <1>1, <1>2, <1>4, <2>8 DEF Cancelled, RecordFailure, Return
  <2> QED
    BY <1>5, <2>1, <2>2, <2>3, <2>4, <2>5, <2>6, <2>7, <2>8 DEF Progress
<1>6. ASSUME NEW p \in Processes, Environment(p), ~Stop(p)
      PROVE  StateCalm /\ LastClaims' \subseteq LastClaims /\ (Fault \/ UNCHANGED faults)
  <2>1. CASE Start(p)
    BY <1>1, <2>1 DEF Start
  <2>2. CASE Exit(p) \/ Crash(p)
    BY <1>1, <1>4, <2>2 DEF Exit, Crash
  <2>3. CASE HeartbeatFails(p)
    BY <1>1, <2>3 DEF HeartbeatFails
  <2>4. CASE StoreFails(p)
    BY <1>1, <1>3, <1>4, <2>4 DEF StoreFails, Return
  <2> QED
    BY <1>6, <2>1, <2>2, <2>3, <2>4 DEF Environment
<1>7. ASSUME UNCHANGED workerVars PROVE LastClaims' \subseteq LastClaims
  BY <1>7 DEF workerVars
<1>8. ASSUME NEW p \in Processes, Heartbeat(p)
      PROVE  StateCalm /\ LastClaims' \subseteq LastClaims /\ UNCHANGED faults
  BY <1>1, <1>7, <1>8 DEF Heartbeat, RenewLease
<1>9. ASSUME NEW a \in Attempts, Child(a)
      PROVE  StateCalm /\ LastClaims' \subseteq LastClaims /\ (Fault \/ UNCHANGED faults)
  BY <1>1, <1>7, <1>9 DEF Child, ChildAcquire, ChildCheck, ChildWork, ChildCheckpoint, ChildReturn,
                          ChildReport, ChildDies, StrayWork, StrayEnds, PlaybookLost
<1>10. CASE Operator
  <2>1. StateCalm
    BY <1>10 DEF Operator, Submit, RequestCancel
  <2> QED
    BY <1>7, <1>10, <2>1 DEF Operator, Calm
<1>11. CASE Pass
  <2>1. StateCalm
    BY <1>11 DEF Pass, Tick
  <2> QED
    BY <1>7, <1>11, <2>1 DEF Pass, Calm
<1>12. CASE UNCHANGED vars
  BY <1>1, <1>7, <1>12 DEF vars, Calm
<1> QED
  BY <1>5, <1>6, <1>8, <1>9, <1>10, <1>11, <1>12 DEF WNext, Calm

\* While a job stays with the process that tends it, so does the lease: it does
\* not run out without a fault, and nobody else can take or renew it away.
LEMMA LeaseKept ==
    ASSUME WInv, [WNext]_vars, NEW p \in Processes, Tended(p),
           state[job[p]] = "RUNNING", state'[job[p]] = "RUNNING", gen'[job[p]] = gen[job[p]],
           UNCHANGED faults \/ \E q \in Processes : Stop(q)
    PROVE  owner'[job[p]] = owner[job[p]] /\ left'[job[p]] > 0
<1> USE StoreAssumption DEF WInv, WTypeOK, TypeOK, Tended
<1> DEFINE j == job[p]
<1>1. j \in Jobs /\ left[j] \in Int /\ gen[j] \in Nat
  BY DEF Generations
<1>2. ASSUME UNCHANGED storeVars PROVE owner'[j] = owner[j] /\ left'[j] > 0
  BY <1>2 DEF storeVars
<1>3. ASSUME NEW i, NEW e, NEW t, NEW w, NEW g, NEW d, Transition(i, e, t, w, g, d)
      PROVE  owner'[j] = owner[j] /\ left'[j] > 0
  BY <1>1, <1>3 DEF Transition, Terminal
<1>4. ASSUME NEW q \in Processes, Claim(q) PROVE owner'[j] = owner[j] /\ left'[j] > 0
  BY <1>1, <1>4 DEF Claim, ClaimNext, ClaimNothing, Abandoned
<1>5. ASSUME NEW q \in Processes, Progress(q) PROVE owner'[j] = owner[j] /\ left'[j] > 0
  BY <1>2, <1>3, <1>4, <1>5
  DEF Progress, Poll, Begin, Collect, ChildGone, Interrupt, Deadline, FinalCheck, Finish, Finalize,
      Cancelled, Fail, RecordFailure
<1>6. ASSUME NEW q \in Processes, Heartbeat(q) PROVE owner'[j] = owner[j] /\ left'[j] > 0
  <2>1. CASE UNCHANGED storeVars
    BY <1>2, <2>1
  <2>2. ASSUME NEW d \in Delays, RenewLease(job[q], WorkerId[q], att[q], d)
        PROVE  owner'[j] = owner[j] /\ left'[j] > 0
    <3>1. LeaseSeconds - d > 0
      BY DelayAssumption DEF Delays
    <3> QED
      BY <1>1, <2>2, <3>1 DEF RenewLease
  <2> QED
    BY <1>6, <2>1, <2>2 DEF Heartbeat
<1>7. ASSUME NEW q \in Processes, Environment(q) PROVE UNCHANGED storeVars
  BY <1>7 DEF Environment, Start, Stop, Exit, Crash, HeartbeatFails, StoreFails
<1>8. ASSUME NEW a \in Attempts, Child(a) PROVE UNCHANGED storeVars
  BY <1>8 DEF Child, ChildAcquire, ChildCheck, ChildWork, ChildCheckpoint, ChildReturn,
              ChildReport, ChildDies, StrayWork, StrayEnds, PlaybookLost
<1>9. CASE Operator
  BY <1>1, <1>9 DEF Operator, Submit, RequestCancel
<1>10. CASE Pass
  <2>1. UNCHANGED alive
    BY <1>10 DEF Pass, workerVars
  <2>2. UNCHANGED faults
    BY <2>1 DEF Stop
  <2>3. ~AboutToLapse(p)
    BY <1>10, <2>2, WorkerAssumption DEF Pass, Fault
  <2>4. left[j] # 1
    BY <1>1, <2>3, WorkerAssumption DEF AboutToLapse
  <2> QED
    BY <1>1, <1>10, <2>4 DEF Pass, Tick
<1> QED
  BY <1>2, <1>5, <1>6, <1>7, <1>8, <1>9, <1>10 DEF WNext, vars

\* A job that stays RUNNING without a new claim and without a fault stays with
\* the process that tends it.
LEMMA TendedKept ==
    ASSUME WInv, [WNext]_vars, NEW p \in Processes, Tended(p),
           state[job[p]] = "RUNNING", state'[job[p]] = "RUNNING", gen'[job[p]] = gen[job[p]],
           UNCHANGED faults \/ \E q \in Processes : Stop(q) /\ q # p
    PROVE  Tended(p)' /\ job'[p] = job[p]
<1> USE StoreAssumption DEF WInv, WTypeOK, TypeOK
<1> DEFINE Unmoved == /\ alive'[p] = alive[p] /\ pc'[p] = pc[p] /\ job'[p] = job[p]
                      /\ att'[p] = att[p] /\ lost'[p] = lost[p] /\ beating'[p] = beating[p]
                      /\ seen'[p] = seen[p]
           ChildOK == kid'[Mine(p)] \in {kid[Mine(p)], "dead"}
                      \/ kid'[Mine(p)] \notin {"cancelled", "lease_lost"}
<1>1. owner'[job[p]] = WorkerId[p] /\ left'[job[p]] > 0 /\ job[p] \in Jobs
  BY LeaseKept DEF Tended
<1>2. \A d \in Delays : LiveLease(job[p], WorkerId[p], att[p], d)
  BY DEF Tended, LiveLease, Leased, Expired, Delays
<1>3. ASSUME Unmoved, ChildOK PROVE Tended(p)' /\ job'[p] = job[p]
  BY <1>1, <1>3 DEF Tended, Mine
<1>4. ASSUME NEW q \in Processes, q # p, NEW place,
             Goto(q, place) \/ LeaveRunning(q, place)
      PROVE  Unmoved
  BY <1>4 DEF Goto, LeaveRunning
<1>5. ASSUME NEW q \in Processes, q # p, Drop(q), alive'[p] = alive[p] PROVE Unmoved
  BY <1>5 DEF Drop
<1>6. Mine(p) \in Attempts
  BY MineIssued DEF Tended
<1>7. ASSUME NEW a, Kill(a) \/ UNCHANGED childVars PROVE ChildOK
  BY <1>6, <1>7 DEF Kill, childVars
<1>8. ASSUME NEW q \in Processes, q # p, Progress(q) PROVE Unmoved /\ ChildOK
  <2>1. ChildOK
    <3>1. CASE Begin(q)
      BY <1>6, <1>7, <3>1 DEF Begin
    <3>2. CASE ~Begin(q)
      BY <1>7, <1>8, <3>2
      DEF Progress, Poll, Claim, Collect, ChildGone, Interrupt, Deadline, FinalCheck, Finish,
          Finalize, Cancelled, Fail, RecordFailure
    <3> QED
      BY <3>1, <3>2
  <2>2. CASE Drop(q)
    BY <1>5, <1>8, <2>1, <2>2
    DEF Progress, Poll, Claim, Begin, Collect, ChildGone, Interrupt, Deadline, FinalCheck, Finish,
        Finalize, Cancelled, Fail, RecordFailure, Return, Goto, LeaveRunning
  <2>3. CASE \E place : Goto(q, place) \/ LeaveRunning(q, place)
    BY <1>4, <1>8, <2>1, <2>3
  <2>4. CASE ~Drop(q) /\ (Claim(q) \/ Begin(q) \/ Fail(q))
    <3>1. Unmoved
      BY <1>8, <2>4 DEF Claim, Begin, Fail, Return
    <3> QED
      BY <2>1, <3>1
  <2> QED
    BY <1>8, <2>2, <2>3, <2>4
    DEF Progress, Poll, Collect, ChildGone, Interrupt, Deadline, FinalCheck, Finish, Finalize,
        Cancelled, RecordFailure, Return
<1>9. ASSUME NEW place \in {"collected", "finishing", "failing"},
             Goto(p, place) \/ LeaveRunning(p, place)
      PROVE  Tended(p)' /\ job'[p] = job[p]
  BY <1>1, <1>9 DEF Goto, LeaveRunning, Tended
<1>10. CASE Progress(p)
  <2>1. CASE Begin(p)
    <3>1. /\ kid' = [kid EXCEPT ![Mine(p)] = "boot"] /\ pc'[p] = "running" /\ beating'[p]
          /\ UNCHANGED <<alive, job, att, lost, seen>>
      BY <1>2, <2>1 DEF Begin, Holds, Tended
    <3> QED
      BY <1>1, <1>6, <3>1 DEF Tended, Mine
  <2>2. CASE Collect(p)
    BY <1>9, <2>2 DEF Collect, Tended
  <2>3. CASE ChildGone(p) \/ Deadline(p)
    BY <1>9, <2>3 DEF ChildGone, Deadline
  <2>4. CASE Interrupt(p)
    BY <1>2, <2>4 DEF Interrupt, Tended, Holds
  <2>5. CASE FinalCheck(p)
    BY <1>2, <1>9, <2>5 DEF FinalCheck, Tended, Holds
  <2>6. CASE Finish(p)
    BY <1>1, <1>2, <2>6 DEF Finish, Transition
  <2>7. CASE Fail(p)
    BY <1>1, <1>2, <2>7 DEF Fail, Tended
  <2>8. CASE RecordFailure(p)
    BY <1>1, <1>2, <2>8 DEF RecordFailure, Transition, Tended
  <2> QED
    BY <1>10, <2>1, <2>2, <2>3, <2>4, <2>5, <2>6, <2>7, <2>8
    DEF Progress, Poll, Claim, Finalize, Cancelled, Tended
<1>11. ASSUME NEW q \in Processes, Heartbeat(q) PROVE Unmoved /\ ChildOK
  BY <1>2, <1>7, <1>11 DEF Heartbeat, workerVars
<1>12. ASSUME NEW q \in Processes, Environment(q), UNCHANGED faults PROVE Unmoved /\ ChildOK
  <2>0. faults \in Nat
    BY WorkerAssumption
  <2>1. CASE Start(q)
    BY <1>7, <2>1 DEF Start, Tended
  <2>2. CASE Exit(q)
    BY <1>5, <1>7, <2>2 DEF Exit, Tended
  <2>3. ~Fault
    BY <1>12, <2>0 DEF Fault
  <2> QED
    BY <1>12, <2>1, <2>2, <2>3 DEF Environment, Stop, Crash, HeartbeatFails, StoreFails
<1>13. ASSUME NEW a \in Attempts, Child(a) PROVE Unmoved /\ ChildOK
  <2>1. UNCHANGED workerVars
    BY <1>13 DEF Child, ChildAcquire, ChildCheck, ChildWork, ChildCheckpoint, ChildReturn,
                 ChildReport, ChildDies, StrayWork, StrayEnds, PlaybookLost
  <2>2. ASSUME a = Mine(p), NEW d \in Delays PROVE ChildLease(a, d) /\ state[a[1]] = "RUNNING"
    BY <1>2, <2>2, WorkerAssumption DEF ChildLease, Mine
  <2>3. ChildOK
    <3>1. CASE a # Mine(p)
      BY <1>6, <1>13, <3>1
      DEF Child, ChildAcquire, ChildCheck, ChildWork, ChildCheckpoint, ChildReturn, ChildReport,
          ChildDies, StrayWork, StrayEnds, PlaybookLost, ChildGoto, Kill
    <3>2. CASE a = Mine(p)
      BY <1>7, <1>13, <2>2, <3>2
      DEF Child, ChildAcquire, ChildCheck, ChildWork, ChildCheckpoint, ChildReturn, ChildReport,
          ChildDies, StrayWork, StrayEnds, PlaybookLost, ChildGoto
    <3> QED
      BY <3>1, <3>2
  <2> QED
    BY <2>1, <2>3 DEF workerVars
<1>14. CASE Operator \/ Pass \/ UNCHANGED vars
  <2>1. UNCHANGED workerVars /\ UNCHANGED childVars
    BY <1>14 DEF Operator, Pass, vars
  <2> QED
    BY <1>3, <1>7, <2>1 DEF workerVars
<1>15. ASSUME NEW q \in Processes, q # p, Stop(q) PROVE Unmoved /\ ChildOK
  BY <1>7, <1>15 DEF Stop
<1>16. CASE UNCHANGED faults
  BY <1>3, <1>8, <1>10, <1>11, <1>12, <1>13, <1>14, <1>16 DEF WNext
<1> QED
  BY <1>3, <1>15, <1>16

\* What calm steps and stops leave of the promise, for the jobs that were and
\* stay RUNNING.
LEMMA PaidKept ==
    ASSUME WInv, Paid, [WNext]_vars,
           NEW j \in Jobs, state[j] = "RUNNING", state'[j] = "RUNNING", gen'[j] = gen[j],
           NEW p \in Processes, job[p] = j, Tended(p),
           UNCHANGED faults \/ \E q \in Processes : Stop(q) /\ q # p
    PROVE  \E q \in Processes : job'[q] = j /\ Tended(q)'
BY TendedKept

\* Every step keeps the promise: only a claim raises a generation, and it finds
\* either a new job or one whose previous attempt a fault ended.
LEMMA PaidStep ==
    ASSUME WInv, WInv', Asleep, Paid, [WNext]_vars PROVE Paid'
<1> DEFINE C == Cardinality(LastClaims)
           D == Cardinality(LastClaims')
           Idle == {"none", "QUEUED"}
<1>1. C \in Nat /\ faults \in Nat /\ IsFiniteSet(LastClaims)
  BY FS_CardinalityType, WorkerAssumption DEF Paid, WInv, WTypeOK
<1>2. gen \in [Jobs -> Nat] /\ gen' \in [Jobs -> Nat]
  BY StoreAssumption DEF WInv, WTypeOK, TypeOK, Generations
<1>3. ASSUME LastClaims' \subseteq LastClaims PROVE IsFiniteSet(LastClaims') /\ D \in Nat /\ D <= C
  BY <1>1, <1>3, FS_Subset, FS_CardinalityType
<1>4. ASSUME NEW j \in Jobs
      PROVE  /\ state[j] \in Idle => gen[j] = 0
             /\ C <= faults /\ gen[j] + C <= faults + 1
             /\ state[j] = "RUNNING" => \/ gen[j] + C <= faults
                                        \/ \E p \in Processes : job[p] = j /\ Tended(p)
  BY <1>4 DEF Paid
<1>5. ASSUME D \in Nat, IsFiniteSet(LastClaims'), D <= faults',
             \A j \in Jobs : /\ state'[j] \in Idle => gen'[j] = 0
                             /\ gen'[j] + D <= faults' + 1
                             /\ state'[j] = "RUNNING" =>
                                   \/ gen'[j] + D <= faults'
                                   \/ \E p \in Processes : job'[p] = j /\ Tended(p)'
      PROVE  Paid'
  BY <1>5 DEF Paid
<1>6. CASE Calm /\ Fault
  <2>1. faults' = faults + 1 /\ D \in Nat /\ D <= C /\ IsFiniteSet(LastClaims')
    BY <1>3, <1>6 DEF Calm, Fault
  <2>2. ASSUME NEW j \in Jobs
        PROVE  (state'[j] \in Idle => gen'[j] = 0) /\ gen'[j] + D <= faults'
    BY <1>1, <1>2, <1>4, <1>6, <2>1, <2>2 DEF Calm
  <2>3. D <= faults'
    BY <1>1, <2>1 DEF Paid
  <2> QED
    BY <1>1, <1>2, <1>5, <2>1, <2>2, <2>3
<1>7. CASE Calm /\ UNCHANGED faults
  <2>1. D \in Nat /\ D <= C /\ IsFiniteSet(LastClaims')
    BY <1>3, <1>7 DEF Calm
  <2>2. ASSUME NEW j \in Jobs
        PROVE  /\ state'[j] \in Idle => gen'[j] = 0
               /\ gen'[j] + D <= faults' + 1
               /\ state'[j] = "RUNNING" => \/ gen'[j] + D <= faults'
                                           \/ \E p \in Processes : job'[p] = j /\ Tended(p)'
    <3>1. gen'[j] = gen[j] /\ gen[j] \in Nat
      BY <1>2, <1>7, <2>2 DEF Calm
    <3>2. CASE state'[j] = "RUNNING" /\ \E p \in Processes : job[p] = j /\ Tended(p)
      <4>1. state[j] = "RUNNING"
        BY <1>7, <2>2, <3>2 DEF Calm
      <4> QED
        BY <1>1, <1>4, <1>7, <2>1, <2>2, <3>1, <3>2, <4>1, PaidKept
    <3>3. CASE ~(state'[j] = "RUNNING" /\ \E p \in Processes : job[p] = j /\ Tended(p))
      BY <1>1, <1>4, <1>7, <2>1, <2>2, <3>1, <3>3 DEF Calm
    <3> QED
      BY <3>2, <3>3
  <2>3. D <= faults'
    BY <1>1, <1>7, <2>1 DEF Paid
  <2> QED
    BY <1>5, <2>1, <2>2, <2>3
<1>8. ASSUME NEW p \in Processes, Stop(p) PROVE Paid'
  <2>1. faults' = faults + 1 /\ UNCHANGED storeVars /\ UNCHANGED <<pc, job>>
    BY <1>8 DEF Stop, Fault
  <2>2. LastClaims' \subseteq LastClaims \cup {p} /\ (pc[p] # "polling" => LastClaims' \subseteq LastClaims)
    BY <1>8 DEF Stop, LastClaims, WInv, WTypeOK
  <2>3. IsFiniteSet(LastClaims \cup {p}) /\ Cardinality(LastClaims \cup {p}) <= C + 1
    <3>1. /\ IsFiniteSet(LastClaims \cup {p})
          /\ Cardinality(LastClaims \cup {p}) = IF p \in LastClaims THEN C ELSE C + 1
      BY <1>1, FS_AddElement, Zenon
    <3> QED
      BY <1>1, <3>1
  <2>4. IsFiniteSet(LastClaims') /\ D \in Nat /\ D <= C + 1
    <3>1. IsFiniteSet(LastClaims') /\ D <= Cardinality(LastClaims \cup {p})
      BY <2>2, <2>3, FS_Subset
    <3>2. D \in Nat /\ Cardinality(LastClaims \cup {p}) \in Nat
      BY <2>3, <3>1, FS_CardinalityType
    <3> QED
      BY <1>1, <2>3, <3>1, <3>2
  <2>5. pc[p] # "polling" => D <= C
    BY <1>3, <2>2
  <2>6. ASSUME NEW j \in Jobs
        PROVE  /\ state'[j] \in Idle => gen'[j] = 0
               /\ gen'[j] + D <= faults' + 1
               /\ state'[j] = "RUNNING" => \/ gen'[j] + D <= faults'
                                           \/ \E q \in Processes : job'[q] = j /\ Tended(q)'
    <3>1. gen'[j] = gen[j] /\ gen[j] \in Nat /\ state'[j] = state[j]
      BY <1>2, <2>1, <2>6 DEF storeVars
    <3>2. CASE \E q \in Processes : q # p /\ job[q] = j /\ Tended(q)
      BY <1>1, <1>4, <1>8, <2>1, <2>4, <2>6, <3>1, <3>2, PaidKept
    <3>3. CASE Tended(p)
      BY <1>1, <1>4, <2>1, <2>4, <2>5, <2>6, <3>1, <3>3 DEF Tended
    <3>4. CASE ~Tended(p) /\ ~\E q \in Processes : q # p /\ job[q] = j /\ Tended(q)
      BY <1>1, <1>4, <2>1, <2>4, <2>6, <3>1, <3>4
    <3> QED
      BY <3>2, <3>3, <3>4
  <2>7. D <= faults'
    BY <1>1, <2>1, <2>4 DEF Paid
  <2> QED
    BY <1>5, <2>4, <2>6, <2>7
<1>9. ASSUME NEW p \in Processes, NEW i \in Jobs, NEW d \in Delays,
             Claim(p), ClaimNext(WorkerId[p], i, d)
      PROVE  Paid'
  <2>1. /\ UNCHANGED <<faults, alive, lost>> /\ pc[p] = "polling" /\ gen'[i] = gen[i] + 1
        /\ \A j \in Jobs : j # i => gen'[j] = gen[j]
        /\ \A j \in Jobs : j # i => state'[j] \in {state[j], "CANCELLED"}
        /\ state'[i] = "RUNNING" /\ owner'[i] = WorkerId[p] /\ left'[i] = LeaseSeconds - d
        /\ pc' = [pc EXCEPT ![p] = "claimed"] /\ job'[p] = i /\ att'[p] = gen'[i]
    <3>1. /\ gen'[i] = gen[i] + 1 /\ \A j \in Jobs : j # i => gen'[j] = gen[j]
          /\ \A j \in Jobs : j # i => state'[j] \in {state[j], "CANCELLED"}
          /\ state'[i] = "RUNNING" /\ owner'[i] = WorkerId[p] /\ left'[i] = LeaseSeconds - d
      BY <1>9 DEF ClaimNext, WInv, WTypeOK, TypeOK
    <3>2. gen' # gen
      BY <1>2, <3>1
    <3>3. PICK j \in Jobs : /\ \E e \in Delays : ClaimNext(WorkerId[p], j, e)
                            /\ pc' = [pc EXCEPT ![p] = "claimed"]
                            /\ job' = [job EXCEPT ![p] = j]
                            /\ att' = [att EXCEPT ![p] = gen'[j]]
                            /\ UNCHANGED <<alive, lost>>
      BY <1>9, <3>2 DEF Claim, ClaimNothing
    <3>4. j = i
      BY <1>2, <3>1, <3>3 DEF ClaimNext
    <3> QED
      BY <1>9, <3>1, <3>3, <3>4 DEF Claim, WInv, WTypeOK
  <2>2. LastClaims' = LastClaims \ {p}
    BY <2>1 DEF LastClaims, WInv, WTypeOK
  <2>3. IsFiniteSet(LastClaims') /\ D \in Nat /\ D <= C /\ (alive[p] = "stopping" => D = C - 1)
    <3>1. IsFiniteSet(LastClaims') /\ D = IF p \in LastClaims THEN C - 1 ELSE C
      BY <1>1, <2>2, FS_RemoveElement, Zenon
    <3>2. D \in Nat
      BY <3>1, FS_CardinalityType
    <3> QED
      BY <1>1, <2>1, <3>1, <3>2 DEF LastClaims
  <2>4. alive[p] = "up" => job'[p] = i /\ Tended(p)'
    <3>1. LeaseSeconds - d > 0
      BY StoreAssumption, DelayAssumption DEF Delays
    <3>2. pc'[p] = "claimed" /\ ~lost'[p]
      BY <2>1 DEF Asleep, WInv, WTypeOK
    <3> QED
      BY <2>1, <3>1, <3>2 DEF Tended
  <2>5. alive[p] \in {"up", "stopping"}
    BY <2>1 DEF Asleep, WInv, WTypeOK, ProcessStates
  <2>6. gen[i] + C <= faults
    <3>1. CASE state[i] = "QUEUED"
      BY <1>1, <1>4, <3>1
    <3>2. CASE state[i] # "QUEUED"
      <4>1. state[i] = "RUNNING" /\ left[i] + d <= 0 /\ left[i] \in Int /\ d \in Nat
        BY <1>9, <3>2, StoreAssumption DEF ClaimNext, Claimable, Expired, Delays, WInv, WTypeOK, TypeOK
      <4>2. ~\E q \in Processes : job[q] = i /\ Tended(q)
        BY <4>1 DEF Tended
      <4> QED
        BY <1>4, <4>1, <4>2
    <3> QED
      BY <3>1, <3>2
  <2>7. /\ gen'[i] + D <= faults' + 1
        /\ gen'[i] + D <= faults' \/ \E q \in Processes : job'[q] = i /\ Tended(q)'
    BY <1>1, <1>2, <2>1, <2>3, <2>4, <2>5, <2>6
  <2>8. ASSUME NEW j \in Jobs, j # i
        PROVE  /\ state'[j] \in Idle => gen'[j] = 0
               /\ gen'[j] + D <= faults' + 1
               /\ state'[j] = "RUNNING" => \/ gen'[j] + D <= faults'
                                           \/ \E q \in Processes : job'[q] = j /\ Tended(q)'
    <3>1. gen'[j] = gen[j] /\ gen[j] \in Nat /\ state'[j] \in {state[j], "CANCELLED"}
      BY <1>2, <2>1, <2>8
    <3>2. CASE state'[j] = "RUNNING" /\ \E q \in Processes : job[q] = j /\ Tended(q)
      BY <1>1, <1>4, <2>1, <2>3, <2>8, <3>1, <3>2, PaidKept
    <3>3. CASE ~(state'[j] = "RUNNING" /\ \E q \in Processes : job[q] = j /\ Tended(q))
      BY <1>1, <1>4, <2>1, <2>3, <2>8, <3>1, <3>3
    <3> QED
      BY <3>2, <3>3
  <2>9. D <= faults'
    BY <1>1, <2>1, <2>3 DEF Paid
  <2> QED
    BY <1>5, <2>1, <2>3, <2>7, <2>8, <2>9
<1> QED
  BY <1>6, <1>7, <1>8, <1>9, StepKinds

\* A job is handed out again only because something went wrong, however many
\* controllers, jobs and faults there are: the heartbeat keeps a lease that
\* nothing disturbs, and a worker that keeps its lease records a verdict.
THEOREM RetriesArePaid == WSpec => []RetriesNeedFaults
<1>1. WInit => Asleep /\ Paid
  <2> SUFFICES ASSUME WInit PROVE Asleep /\ Paid
    OBVIOUS
  <2>1. LastClaims = {}
    BY DEF WInit, LastClaims
  <2> QED
    BY <2>1, FS_EmptySet DEF WInit, Init, Asleep, Paid
<1>2. WInv /\ WInv' /\ Asleep /\ Paid /\ [WNext]_vars => (Asleep /\ Paid)'
  BY AsleepStep, PaidStep
<1>3. WInv /\ Paid => RetriesNeedFaults
  <2> SUFFICES ASSUME WInv, Paid, NEW j \in Jobs PROVE gen[j] <= faults + 1
    BY DEF RetriesNeedFaults
  <2>1. Cardinality(LastClaims) \in Nat /\ gen[j] + Cardinality(LastClaims) <= faults + 1
    BY FS_CardinalityType DEF Paid
  <2>2. gen[j] \in Nat /\ faults \in Nat
    BY StoreAssumption, WorkerAssumption DEF WInv, WTypeOK, TypeOK, Generations
  <2> QED
    BY <2>1, <2>2
<1> QED
  BY <1>1, <1>2, <1>3, WorkerInvariant, PTL DEF WSpec

-----------------------------------------------------------------------------
(* Without faults, a success leaves no playbook behind.                    *)

\* How a child ends that may have left its playbook.
Left == {"dead", "cancelled", "lease_lost", "error"}

\* An attempt is new when it is claimed.  As long as there was no fault, only
\* attempts that were cut short have left a playbook, none that is on its way to
\* a success and none of a job that is successful.
StrayInv ==
    /\ \A p \in Processes : pc[p] = "claimed" => kid[Mine(p)] = "none"
    /\ faults = 0 =>
          /\ \A a \in strays : kid[a] \in Left
          /\ \A p \in Processes : pc[p] \in {"collected", "finishing"} => Mine(p) \notin strays
          /\ \A a \in strays : state[a[1]] \notin {"SUCCEEDED", "PARTIAL_FAILURE"}

\* What a step can do to the playbook and to the end of an attempt: a handler
\* that is at work leaves its playbook when it is cut short, and only the process
\* that claimed the attempt starts or kills its child.
LEMMA StraySteps ==
    ASSUME WInv, [WNext]_vars, NEW a \in Attempts
    PROVE  /\ a \in strays' /\ a \notin strays => kid[a] = "working" /\ (kid'[a] \in Left \/ Fault)
           /\ kid[a] \in Left /\ kid'[a] \notin Left =>
                 \E p \in Processes : pc[p] = "claimed" /\ Mine(p) = a
           /\ kid[a] = "none" /\ kid'[a] # "none" =>
                 \E p \in Processes : pc[p] \in {"claimed", "running"} /\ pc'[p] # "claimed" /\ Mine(p) = a
<1> USE DEF WInv, WTypeOK, Left
<1>1. CASE UNCHANGED childVars
  BY <1>1 DEF childVars
<1>2. ASSUME NEW p \in Processes, pc[p] = "running", pc'[p] # "claimed", Kill(Mine(p))
      PROVE  /\ a \in strays' /\ a \notin strays => kid[a] = "working" /\ kid'[a] \in Left
             /\ kid[a] \in Left => kid'[a] \in Left
             /\ kid[a] = "none" /\ kid'[a] # "none" => Mine(p) = a
  BY <1>2, MineIssued DEF Kill, LeaveTool
<1>3. ASSUME NEW p \in Processes, Begin(p), ~UNCHANGED childVars
      PROVE  /\ strays' = strays /\ pc[p] = "claimed" /\ pc'[p] # "claimed"
             /\ kid'[a] = kid[a] \/ Mine(p) = a
  BY <1>3 DEF Begin
<1>4. ASSUME NEW b \in Attempts, Child(b)
      PROVE  /\ a \in strays' /\ a \notin strays => kid[a] = "working" /\ (kid'[a] \in Left \/ Fault)
             /\ kid[a] \in Left => kid'[a] \in Left
             /\ kid[a] = "none" => kid'[a] = "none"
  <2>1. CASE ChildAcquire(b) \/ ChildCheck(b) \/ ChildWork(b) \/ ChildReport(b)
    BY <2>1 DEF ChildAcquire, ChildCheck, ChildWork, ChildReport, ChildGoto
  <2>2. CASE ChildCheckpoint(b) \/ ChildReturn(b)
    BY <2>2 DEF ChildCheckpoint, ChildReturn, ChildGoto, LeaveTool
  <2>3. CASE ChildDies(b)
    BY <2>3 DEF ChildDies, Kill, Live, LeaveTool
  <2>4. CASE StrayWork(b) \/ StrayEnds(b) \/ PlaybookLost(b)
    BY <2>4 DEF StrayWork, StrayEnds, PlaybookLost
  <2> QED
    BY <1>4, <2>1, <2>2, <2>3, <2>4 DEF Child
<1>5. ASSUME NEW p \in Processes, Progress(p), ~UNCHANGED childVars
      PROVE  Begin(p) \/ (pc[p] = "running" /\ pc'[p] # "claimed" /\ Kill(Mine(p)))
  BY <1>5 DEF Progress, Poll, Claim, Collect, ChildGone, Interrupt, Deadline, FinalCheck, Finish,
      Finalize, Cancelled, Fail, RecordFailure, LeaveRunning, Return, Drop
<1>6. ASSUME NEW p \in Processes, Environment(p), ~UNCHANGED childVars
      PROVE  pc[p] = "running" /\ pc'[p] # "claimed" /\ Kill(Mine(p))
  BY <1>6 DEF Environment, Start, Stop, Exit, Crash, HeartbeatFails, StoreFails, LeaveRunning, Drop
<1>7. ASSUME NEW p \in Processes, Heartbeat(p) PROVE UNCHANGED childVars
  BY <1>7 DEF Heartbeat
<1>8. Operator \/ Pass \/ UNCHANGED vars => UNCHANGED childVars
  BY DEF Operator, Pass, vars
<1> QED
  BY <1>1, <1>2, <1>3, <1>4, <1>5, <1>6, <1>7, <1>8 DEF WNext

\* A claimed attempt is one that claim_next has just handed out, or the process
\* has not moved since.
LEMMA ClaimedSteps ==
    ASSUME WInv, [WNext]_vars, NEW p \in Processes, pc'[p] = "claimed"
    PROVE  \/ pc[p] = "claimed" /\ Mine(p)' = Mine(p)
           \/ /\ UNCHANGED childVars
              /\ \E j \in Jobs : Mine(p)' = <<j, gen[j] + 1>>
<1> USE DEF WInv, WTypeOK
<1>1. ASSUME NEW q \in Processes, NEW place, place # "claimed", Goto(q, place) \/ LeaveRunning(q, place)
      PROVE  pc[p] = "claimed" /\ Mine(p)' = Mine(p)
  BY <1>1 DEF Goto, LeaveRunning, Mine
<1>2. ASSUME NEW q \in Processes, Drop(q) PROVE pc[p] = "claimed" /\ Mine(p)' = Mine(p)
  BY <1>2 DEF Drop, Mine
<1>3. ASSUME NEW q \in Processes, Progress(q), ~Claim(q) PROVE pc[p] = "claimed" /\ Mine(p)' = Mine(p)
  <2>1. CASE Begin(q)
    BY <1>2, <2>1 DEF Begin, Return, Mine
  <2>2. CASE Fail(q)
    BY <1>2, <2>2 DEF Fail, Return, Mine
  <2>3. CASE Poll(q) \/ Collect(q) \/ ChildGone(q) \/ Interrupt(q) \/ Deadline(q)
    BY <1>1, <1>2, <2>3 DEF Poll, Collect, ChildGone, Interrupt, Deadline, Return
  <2>4. CASE FinalCheck(q) \/ Finish(q) \/ Finalize(q) \/ Cancelled(q) \/ RecordFailure(q)
    BY <1>1, <1>2, <2>4 DEF FinalCheck, Finish, Finalize, Cancelled, RecordFailure, Return
  <2> QED
    BY <1>3, <2>1, <2>2, <2>3, <2>4 DEF Progress
<1>4. ASSUME NEW q \in Processes, Environment(q) PROVE pc[p] = "claimed" /\ Mine(p)' = Mine(p)
  <2>1. CASE Exit(q) \/ Crash(q)
    BY <1>2, <2>1 DEF Exit, Crash
  <2>2. CASE StoreFails(q)
    BY <1>1, <1>2, <2>2 DEF StoreFails, Return
  <2>3. CASE Start(q) \/ Stop(q) \/ HeartbeatFails(q)
    BY <2>3 DEF Start, Stop, HeartbeatFails, Mine
  <2> QED
    BY <1>4, <2>1, <2>2, <2>3 DEF Environment
<1>5. ASSUME UNCHANGED workerVars PROVE pc[p] = "claimed" /\ Mine(p)' = Mine(p)
  BY <1>5 DEF workerVars, Mine
<1>6. ASSUME NEW q \in Processes, Heartbeat(q) PROVE pc[p] = "claimed" /\ Mine(p)' = Mine(p)
  BY <1>5, <1>6 DEF Heartbeat, Mine
<1>7. ASSUME NEW a \in Attempts, Child(a) PROVE UNCHANGED workerVars
  BY <1>7 DEF Child, ChildAcquire, ChildCheck, ChildWork, ChildCheckpoint, ChildReturn,
              ChildReport, ChildDies, StrayWork, StrayEnds, PlaybookLost
<1>8. ASSUME NEW q \in Processes, Claim(q), ~Drop(q)
      PROVE  \/ pc[p] = "claimed" /\ Mine(p)' = Mine(p)
             \/ /\ UNCHANGED childVars
                /\ \E j \in Jobs : Mine(p)' = <<j, gen[j] + 1>>
  <2>1. PICK j \in Jobs, d \in Delays :
           /\ ClaimNext(WorkerId[q], j, d)
           /\ pc' = [pc EXCEPT ![q] = "claimed"]
           /\ job' = [job EXCEPT ![q] = j]
           /\ att' = [att EXCEPT ![q] = gen'[j]]
    BY <1>8 DEF Claim, Return
  <2>2. gen'[j] = gen[j] + 1 /\ UNCHANGED childVars
    BY <1>8, <2>1 DEF ClaimNext, TypeOK, Claim
  <2>3. CASE p = q
    BY <2>1, <2>2, <2>3 DEF Mine
  <2>4. CASE p # q
    BY <2>1, <2>4 DEF Mine
  <2> QED
    BY <2>3, <2>4
<1> QED
  BY <1>2, <1>3, <1>4, <1>5, <1>6, <1>7, <1>8 DEF WNext, Operator, Pass, vars

\* Every step keeps playbooks away from successes while there is no fault.
LEMMA StrayStep ==
    ASSUME WInv, WInv', QuietInv, HandlersOver, RetriesNeedFaults, StrayInv, [WNext]_vars
    PROVE  StrayInv'
<1>1. \A a \in Attempts : a[1] \in Jobs /\ a[2] \in Nat /\ a[2] >= 1 /\ a = <<a[1], a[2]>>
  BY StoreAssumption DEF Attempts
<1>2. /\ \A j \in Jobs : gen[j] \in Nat
      /\ faults \in Nat /\ strays \subseteq Attempts /\ strays' \subseteq Attempts
      /\ kid \in [Attempts -> Phases]
  BY StoreAssumption, WorkerAssumption DEF WInv, WTypeOK, TypeOK, Generations
<1>3. faults' \in {faults, faults + 1}
  BY StepKinds, <1>2 DEF Fault, Claim, Stop
<1>4. ASSUME NEW p \in Processes, pc'[p] = "claimed" PROVE kid'[Mine(p)'] = "none"
  <2>1. CASE pc[p] = "claimed" /\ Mine(p)' = Mine(p)
    <3>1. /\ Mine(p) \in Attempts /\ kid[Mine(p)] = "none" /\ job[p] \in Jobs
          /\ Mine(p)[1] = job[p] /\ Mine(p)[2] = att[p]
      BY <2>1, MineIssued DEF StrayInv
    <3>2. ASSUME NEW q \in Processes, pc[q] \in {"claimed", "running"}, q # p, Mine(q) = Mine(p) PROVE FALSE
      <4>1. job[q] = job[p] /\ att[q] = att[p]
        BY <3>1, <3>2, MineIssued
      <4> QED
        BY <3>1, <3>2, <4>1, WorkerAssumption DEF WInv, AttemptsAreDistinct
    <3> QED
      BY <1>4, <2>1, <3>1, <3>2, StraySteps
  <2>2. ASSUME UNCHANGED childVars, NEW j \in Jobs, Mine(p)' = <<j, gen[j] + 1>> PROVE kid'[Mine(p)'] = "none"
    <3>1. Mine(p)' \in Attempts
      <4>1. job'[p] \in Jobs /\ att'[p] \in 1 .. gen'[job'[p]]
        BY <1>4 DEF WInv, ContextPresent, AttemptIssued
      <4>2. gen'[job'[p]] \in 0 .. MaxGeneration
        BY <4>1 DEF WInv, WTypeOK, TypeOK, Generations
      <4> QED
        BY <4>1, <4>2, StoreAssumption DEF Mine, Attempts
    <3>2. kid' = kid
      BY <2>2 DEF childVars
    <3>3. <<j, gen[j] + 1>> \in Attempts /\ ~(gen[j] + 1 <= gen[j])
      BY <1>2, <2>2, <3>1
    <3> QED
      BY <2>2, <3>2, <3>3 DEF WInv, BoundaryInv
  <2> QED
    BY <1>4, <2>1, <2>2, ClaimedSteps
<1>5. ASSUME faults' = 0
      PROVE  /\ \A a \in strays' : kid'[a] \in Left
             /\ \A p \in Processes : pc'[p] \in {"collected", "finishing"} => Mine(p)' \notin strays'
             /\ \A a \in strays' : state'[a[1]] \notin {"SUCCEEDED", "PARTIAL_FAILURE"}
  <2>1. faults = 0 /\ ~Fault
    BY <1>2, <1>3, <1>5 DEF Fault
  <2>2. ASSUME NEW a \in strays' PROVE kid'[a] \in Left
    <3>1. CASE a \notin strays
      BY <1>2, <2>1, <2>2, <3>1, StraySteps
    <3>2. CASE a \in strays
      <4>1. a \in Attempts /\ kid[a] \in Left /\ kid[a] # "none"
        BY <1>2, <2>1, <3>2 DEF StrayInv, Left
      <4>2. ~\E p \in Processes : pc[p] = "claimed" /\ Mine(p) = a
        BY <4>1 DEF StrayInv
      <4> QED
        BY <4>1, <4>2, StraySteps
    <3> QED
      BY <3>1, <3>2
  <2>3. ASSUME NEW p \in Processes, pc'[p] \in {"collected", "finishing"} PROVE Mine(p)' \notin strays'
    <3>1. pc[p] \notin {"idle", "polling"} /\ Mine(p)' = Mine(p) /\ Mine(p) \in Attempts
      BY <2>3, CollectSteps, MineIssued
    <3>2. Mine(p) \notin strays /\ kid[Mine(p)] # "working"
      <4>1. CASE pc[p] \in {"collected", "finishing"}
        BY <2>1, <4>1 DEF StrayInv, QuietInv
      <4>2. CASE kid[Mine(p)] = "succeeded"
        BY <2>1, <4>2 DEF StrayInv, Left
      <4> QED
        BY <2>3, <4>1, <4>2, CollectSteps
    <3> QED
      BY <3>1, <3>2, StraySteps
  <2>4. ASSUME NEW a \in strays', state'[a[1]] \in {"SUCCEEDED", "PARTIAL_FAILURE"} PROVE FALSE
    <3>1. a \in Attempts /\ a[1] \in Jobs
      BY <1>1, <1>2, <2>4
    <3>2. CASE state[a[1]] \in {"SUCCEEDED", "PARTIAL_FAILURE"}
      BY <2>1, <2>4, <3>1, <3>2, StraySteps DEF StrayInv, HandlersOver
    <3>3. CASE state[a[1]] \notin {"SUCCEEDED", "PARTIAL_FAILURE"}
      <4>1. PICK p \in Processes : pc[p] = "finishing" /\ job[p] = a[1] /\ att[p] = gen[a[1]]
        BY <2>4, <3>1, <3>3, SuccessRecorded
      <4>2. /\ Mine(p) = <<a[1], gen[a[1]]>> /\ Mine(p) \in Attempts
            /\ Mine(p) \notin strays /\ kid[Mine(p)] = "dead" /\ Quiet(Mine(p))
        BY <2>1, <4>1, MineIssued DEF StrayInv, QuietInv, Mine
      <4>3. gen[a[1]] <= 1
        BY <2>1, <3>1 DEF RetriesNeedFaults
      <4>4. a[2] <= gen[a[1]]
        <5>1. CASE a \in strays
          BY <5>1 DEF WInv, BoundaryInv
        <5>2. CASE a \notin strays
          BY <2>4, <3>1, <5>2, StraySteps DEF WInv, BoundaryInv
        <5> QED
          BY <5>1, <5>2
      <4>5. a[2] = gen[a[1]]
        BY <1>1, <1>2, <3>1, <4>3, <4>4
      <4>6. a = Mine(p)
        BY <1>1, <3>1, <4>2, <4>5
      <4> QED
        BY <2>4, <3>1, <4>2, <4>6, StraySteps
    <3> QED
      BY <3>2, <3>3
  <2> QED
    BY <2>2, <2>3, <2>4
<1> QED
  BY <1>4, <1>5 DEF StrayInv

\* Whatever controllers crash and children they leave behind: once a job is
\* reported as (partly) successful, no handler changes the deployment for it,
\* and no playbook does unless a fault came before.
THEOREM SuccessesAreFinal == WSpec => []SuccessIsFinal
<1>1. WInit => StrayInv
  BY DEF WInit, StrayInv
<1>2. WInv /\ WInv' /\ QuietInv /\ HandlersOver /\ RetriesNeedFaults /\ StrayInv /\ [WNext]_vars
         => StrayInv'
  BY StrayStep
<1>3. WInv /\ HandlersOver /\ StrayInv => SuccessIsFinal
  <2> SUFFICES ASSUME WInv, HandlersOver, StrayInv, NEW a \in Attempts,
                      state[a[1]] \in {"SUCCEEDED", "PARTIAL_FAILURE"}
               PROVE  kid[a] # "working" /\ (a \in strays => faults > 0)
    BY DEF SuccessIsFinal
  <2>1. faults \in Nat
    BY WorkerAssumption DEF WInv, WTypeOK
  <2> QED
    BY <2>1 DEF HandlersOver, StrayInv
<1> QED
  BY <1>1, <1>2, <1>3, WorkerInvariant, HandlersQuiet, RetriesArePaid, PTL DEF WSpec
=============================================================================
