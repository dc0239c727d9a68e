------------------------ MODULE StaggeredStartProofs ------------------------
(***************************************************************************)
(* Proofs about StaggeredStart, for any number of waves, any plugins that  *)
(* retry, any timeouts, and any number of launches, polls and faults.      *)
(*                                                                         *)
(* What a start may hide is a matter of counting: Fit relates the failures *)
(* a runner has counted to the waves that failed, wave by wave.  Alone     *)
(* says which inode each runner has locked, step by step of the launch     *)
(* script, Stands that the unit of a start that succeeded is there as long *)
(* as somebody waits for it.                                               *)
(***************************************************************************)
EXTENDS StaggeredStart, FiniteSetTheorems, TLAPS

\* A process that has not begun with the waves.
Early == {"off", "lock", "prepare"}
PCs == Early \cup {"wave", "pull", "health", "hook"}

Loose == [pc : PCs, inode : 0 .. MaxLaunches, wave : 0 .. NWaves + 1, count : Nat,
          bad : SUBSET Waves, waited : 0 .. WaveTimeout, seen : BOOLEAN, late : BOOLEAN]
Tight == [pc : {"off", "lock", "prepare", "wave", "pull", "health", "hook"},
          inode : 0 .. MaxLaunches, wave : 0 .. NWaves + 1,
          count : 0 .. (MaxHookFailures + 1) * NWaves + 1,
          bad : SUBSET Waves, waited : 0 .. WaveTimeout, seen : BOOLEAN, late : BOOLEAN]

\* The most that can be counted before wave w begins, besides a remote
\* dependency; and the failures that can be taken off the count by then.
Most(w) == (MaxHookFailures + 1) * (w - 1)
Forgiven(w) == Cardinality(Retrying \cap (1 .. w - 1))

Placed(m) ==
    /\ m.pc \in Early => m.wave = 0 /\ m.count = 0 /\ m.bad = {}
    /\ m.pc \notin Early => m.wave \in 1 .. NWaves + 1
    /\ m.pc \in {"pull", "health", "hook"} => m.wave \in Waves
    /\ m.pc # "health" => m.waited = 0

Counted(m) ==
    m.pc \notin Early =>
        /\ m.count <= 1 + Most(m.wave) + (IF m.pc = "hook" THEN 1 ELSE 0)
        /\ Cardinality(m.bad) <= m.count + Forgiven(m.wave)

Fit(m) == m \in Loose /\ Placed(m) /\ Counted(m)

Rest ==
    /\ marker \in {"none", "running", "ok", "failed"}
    /\ age \in 0 .. StaleLog + 1 /\ quiet \in 0 .. StaleLog + 1
    /\ unit \in {"off", "on", "failed"} /\ lockFile \in 0 .. MaxLaunches
    /\ launcher \in {"idle", "stop", "kill", "reset", "start"}
    /\ launcher \in {"stop", "kill", "reset"} => lockFile < MaxLaunches
    /\ waiter \in [on : BOOLEAN, hits : 0 .. 1, polls : 0 .. MaxPolls, checking : BOOLEAN]
    /\ answer \in {"none", "ok", "failed", "dead", "stale", "timeout"}
    /\ earned \in [tried : 0 .. NWaves, bad : SUBSET Waves, unit : BOOLEAN]
    /\ faults \in 0 .. MaxFaults

Fitting == runner \in [Runners -> Loose] /\ \A r \in Runners : Fit(runner[r])

\* The unit has locked the file that is there; so has a start by hand that the
\* launcher recognises, or it would have been killed when the file was
\* deleted, unless it began too late for that.
Alone ==
    /\ Alive("unit") => unit = "on" /\ launcher \in {"idle", "stop"}
    /\ Locked("unit") => runner["unit"].inode = lockFile
    /\ Locked("hand") => /\ runner["hand"].inode <= lockFile
                         /\ runner["hand"].seen /\ ~runner["hand"].late => runner["hand"].inode = lockFile
    /\ launcher = "reset" /\ Alive("hand") /\ runner["hand"].seen => runner["hand"].late
    /\ Locked("unit") /\ Locked("hand") => runner["hand"].inode # runner["unit"].inode

\* The unit of a start that succeeded stays while it is waited for.
Stands ==
    /\ launcher # "idle" => ~waiter.on /\ answer = "none"
    /\ marker = "ok" /\ earned.unit =>
          ~Alive("unit") /\ launcher # "start" /\ (waiter.on => unit = "on")

Earned ==
    marker = "ok" \/ answer = "ok" =>
        earned.tried = NWaves /\ Cardinality(earned.bad) <= Cardinality(Retrying)

StartInv == Rest /\ Fitting /\ Alone /\ Stands /\ Earned

-----------------------------------------------------------------------------
(* Counting.                                                               *)

\* One wave adds at most MaxHookFailures + 1 to the count.
LEMMA MostFacts ==
    /\ Most(1) = 0
    /\ \A w \in Waves : Most(w) \in Nat /\ Most(w + 1) = Most(w) + MaxHookFailures + 1
    /\ \A w \in 1 .. NWaves + 1 : Most(w) \in Nat /\ Most(w) <= (MaxHookFailures + 1) * NWaves
<1> DEFINE k == MaxHookFailures + 1
<1>1. k \in Nat /\ k >= 2 /\ NWaves \in Nat
  BY StaggeredAssumption
<1>2. \A a, b, c \in Nat : a <= b => c * a \in Nat /\ c * a <= c * b
  OBVIOUS
<1>3. \A a, c \in Nat : c * (a + 1) = c * a + c
  OBVIOUS
<1>4. Most(1) = 0
  BY <1>1 DEF Most
<1>5. ASSUME NEW w \in Waves
      PROVE  Most(w) \in Nat /\ Most(w + 1) = Most(w) + MaxHookFailures + 1
  <2>1. w - 1 \in Nat /\ (w + 1) - 1 = (w - 1) + 1
    BY <1>1 DEF Waves
  <2>2. k * (w - 1) \in Nat /\ k * ((w - 1) + 1) = k * (w - 1) + k
    BY <1>1, <1>2, <1>3, <2>1
  <2>3. Most(w) \in Nat /\ Most(w + 1) = Most(w) + k
    BY <2>1, <2>2 DEF Most
  <2> QED
    BY <2>3, StaggeredAssumption
<1>6. ASSUME NEW w \in 1 .. NWaves + 1
      PROVE  Most(w) \in Nat /\ Most(w) <= k * NWaves
  <2>1. w - 1 \in Nat /\ w - 1 <= NWaves
    BY <1>1
  <2> QED
    BY <1>1, <1>2, <2>1 DEF Most
<1> QED
  BY <1>4, <1>5, <1>6

\* Going past a wave forgives one failure more if its plugin retries.
LEMMA ForgivenFacts ==
    /\ IsFiniteSet(Retrying) /\ Cardinality(Retrying) \in Nat
    /\ Forgiven(NWaves + 1) = Cardinality(Retrying)
    /\ \A w \in 1 .. NWaves + 1 : Forgiven(w) \in Nat
    /\ \A w \in Waves : /\ Forgiven(w) <= Forgiven(w + 1)
                        /\ w \in Retrying => Forgiven(w + 1) = Forgiven(w) + 1
<1>1. \A n \in Int : IsFiniteSet(1 .. n)
  BY FS_Interval
<1>2. IsFiniteSet(Retrying) /\ Cardinality(Retrying) \in Nat
  <2>1. IsFiniteSet(1 .. NWaves)
    BY <1>1, StaggeredAssumption
  <2> QED
    BY <2>1, FS_Subset, FS_CardinalityType, StaggeredAssumption
<1>3. \A S \in SUBSET Retrying : IsFiniteSet(S) /\ Cardinality(S) \in Nat
  BY <1>2, FS_Subset, FS_CardinalityType
<1>4. Retrying \cap (1 .. (NWaves + 1) - 1) = Retrying
  <2>1. (NWaves + 1) - 1 = NWaves
    BY StaggeredAssumption
  <2> QED
    BY <2>1, StaggeredAssumption
<1>5. ASSUME NEW w \in Waves
      PROVE  /\ Forgiven(w) <= Forgiven(w + 1)
             /\ w \in Retrying => Forgiven(w + 1) = Forgiven(w) + 1
  <2> DEFINE S == Retrying \cap (1 .. w - 1)
             T == Retrying \cap (1 .. (w + 1) - 1)
  <2>1. S \subseteq T /\ IsFiniteSet(S) /\ IsFiniteSet(T)
    <3>1. S \subseteq T
      BY StaggeredAssumption DEF Waves
    <3> QED
      BY <1>3, <3>1
  <2>2. Cardinality(S) <= Cardinality(T)
    BY <2>1, FS_Subset
  <2>3. CASE w \in Retrying
    <3>1. T = S \cup {w} /\ w \notin S
      BY <2>3, StaggeredAssumption DEF Waves
    <3>2. Cardinality(T) = Cardinality(S) + 1
      BY <2>1, <3>1, FS_AddElement
    <3> QED
      BY <2>2, <3>2 DEF Forgiven
  <2> QED
    BY <2>2, <2>3 DEF Forgiven
<1> QED
  BY <1>2, <1>3, <1>4, <1>5 DEF Forgiven

\* A set of failed waves gains or loses at most the current one.
LEMMA BadFacts ==
    ASSUME NEW B \in SUBSET Waves, NEW w \in Waves
    PROVE  /\ Cardinality(B) \in Nat /\ Cardinality({}) = 0
           /\ Cardinality(B \cup {w}) \in Nat /\ Cardinality(B \cup {w}) <= Cardinality(B) + 1
           /\ Cardinality(B \ {w}) \in Nat /\ Cardinality(B \ {w}) <= Cardinality(B)
<1>1. IsFiniteSet(Waves)
  BY FS_Interval, StaggeredAssumption DEF Waves
<1>2. IsFiniteSet(B) /\ IsFiniteSet(B \cup {w}) /\ IsFiniteSet(B \ {w})
  BY <1>1, FS_Subset
<1>3. Cardinality(B) \in Nat /\ Cardinality(B \cup {w}) \in Nat /\ Cardinality(B \ {w}) \in Nat
  BY <1>2, FS_CardinalityType
<1>4. Cardinality(B \cup {w}) <= Cardinality(B) + 1
  <2>1. CASE w \in B
    BY <1>3, <2>1, B \cup {w} = B
  <2>2. CASE w \notin B
    BY <1>2, <1>3, <2>2, FS_AddElement
  <2> QED
    BY <2>1, <2>2
<1>5. Cardinality(B \ {w}) <= Cardinality(B)
  BY <1>2, FS_Subset
<1> QED
  BY <1>3, <1>4, <1>5, FS_EmptySet

\* What Fit says of a runner gives the bounds of TypeOK.
LEMMA FitIsTight == ASSUME NEW m, Fit(m) PROVE m \in Tight
<1>1. /\ m \in Loose /\ m.count \in Nat
  BY DEF Fit, Loose
<1>2. CASE m.pc \in Early
  <2>1. m.count = 0 /\ (MaxHookFailures + 1) * NWaves + 1 \in Nat
    BY <1>2, StaggeredAssumption DEF Fit, Placed
  <2> QED
    BY <1>1, <2>1 DEF Loose, Tight, PCs, Early
<1>3. CASE m.pc \notin Early
  <2> DEFINE most == (MaxHookFailures + 1) * NWaves
  <2>1. m.count <= most + 1
    <3>1. CASE m.pc = "hook"
      <4>1. m.wave \in Waves /\ m.count <= 1 + Most(m.wave) + 1
        BY <1>3, <3>1 DEF Fit, Placed, Counted
      <4>2. m.wave + 1 \in 1 .. NWaves + 1
        BY <4>1, StaggeredAssumption DEF Waves
      <4>3. Most(m.wave + 1) = Most(m.wave) + MaxHookFailures + 1 /\ Most(m.wave + 1) <= most
            /\ Most(m.wave) \in Nat
        BY <4>1, <4>2, MostFacts
      <4> HIDE DEF most
      <4>4. most \in Nat
        BY StaggeredAssumption DEF most
      <4> QED
        BY <1>1, <4>1, <4>3, <4>4, StaggeredAssumption
    <3>2. CASE m.pc # "hook"
      <4>1. m.wave \in 1 .. NWaves + 1 /\ m.count <= 1 + Most(m.wave) + 0
        BY <1>3, <3>2 DEF Fit, Placed, Counted
      <4>2. Most(m.wave) \in Nat /\ Most(m.wave) <= most
        BY <4>1, MostFacts
      <4> HIDE DEF most
      <4>4. most \in Nat
        BY StaggeredAssumption DEF most
      <4> QED
        BY <1>1, <4>1, <4>2, <4>4
    <3> QED
      BY <3>1, <3>2
  <2>2. most \in Nat
    BY StaggeredAssumption
  <2> HIDE DEF most
  <2>3. m.count \in 0 .. most + 1
    BY <1>1, <2>1, <2>2
  <2> QED
    BY <1>1, <2>3 DEF Loose, Tight, PCs, Early, most
<1> QED
  BY <1>2, <1>3

-----------------------------------------------------------------------------
(* What steps have in common.                                              *)

\* The types of the fields of a runner, as the leaves below need them.
LEMMA RunnerFacts ==
    ASSUME StartInv, NEW r \in Runners
    PROVE  /\ runner[r] \in Loose /\ Fit(runner[r]) /\ runner \in [Runners -> Loose]
           /\ runner[r].pc \in PCs /\ runner[r].inode \in 0 .. MaxLaunches
           /\ runner[r].wave \in 0 .. NWaves + 1 /\ runner[r].count \in Nat
           /\ runner[r].bad \in SUBSET Waves /\ runner[r].waited \in 0 .. WaveTimeout
           /\ runner[r].seen \in BOOLEAN /\ runner[r].late \in BOOLEAN
BY DEF StartInv, Fitting, Loose

\* A process that has not begun with the waves has counted nothing.
LEMMA OffFits ==
    ASSUME NEW p \in Early, NEW b \in BOOLEAN, NEW l \in BOOLEAN
    PROVE  Fit([Off EXCEPT !.pc = p, !.seen = b, !.late = l]) /\ Fit([Off EXCEPT !.pc = p]) /\ Fit(Off)
<1>1. ASSUME NEW m, m.pc \in Early, m \in Loose, m.wave = 0, m.count = 0, m.bad = {}, m.waited = 0
      PROVE  Fit(m)
  BY <1>1 DEF Fit, Placed, Counted, Early
<1>2. 0 \in 0 .. MaxLaunches /\ 0 \in 0 .. NWaves + 1 /\ 0 \in 0 .. WaveTimeout
  BY StaggeredAssumption
<1>3. Fit([Off EXCEPT !.pc = p, !.seen = b, !.late = l])
  <2> DEFINE m == [Off EXCEPT !.pc = p, !.seen = b, !.late = l]
  <2>1. m \in Loose /\ m.pc = p /\ m.wave = 0 /\ m.count = 0 /\ m.bad = {} /\ m.waited = 0
    BY <1>2 DEF Off, Loose, PCs
  <2> QED
    BY <1>1, <2>1
<1>4. Fit([Off EXCEPT !.pc = p])
  <2> DEFINE m == [Off EXCEPT !.pc = p]
  <2>1. m \in Loose /\ m.pc = p /\ m.wave = 0 /\ m.count = 0 /\ m.bad = {} /\ m.waited = 0
    BY <1>2 DEF Off, Loose, PCs
  <2> QED
    BY <1>1, <2>1
<1>5. Fit(Off)
  <2>1. Off \in Loose /\ Off.pc = "off" /\ Off.wave = 0 /\ Off.count = 0 /\ Off.bad = {}
        /\ Off.waited = 0
    BY <1>2 DEF Off, Loose, PCs, Early
  <2>2. "off" \in Early
    BY DEF Early
  <2> QED
    BY <1>1, <2>1, <2>2
<1> QED
  BY <1>3, <1>4, <1>5

\* A step that gives one runner a fitting record keeps Fitting.
LEMMA FittingStep ==
    ASSUME Fitting, NEW r \in Runners, NEW m, Fit(m), runner' = [runner EXCEPT ![r] = m]
    PROVE  Fitting'
<1>1. m \in Loose
  BY DEF Fit
<1> QED
  BY <1>1 DEF Fitting

\* Nobody locks a file, nobody starts, and the file stays.
LEMMA AloneKept ==
    ASSUME Alone, UNCHANGED <<lockFile, launcher>>, unit' = unit \/ ~Alive("unit")',
           \A q \in Runners : /\ Locked(q)' => Locked(q) /\ runner'[q].inode = runner[q].inode
                              /\ Alive(q)' => /\ Alive(q)
                                              /\ runner'[q].seen = runner[q].seen
                                              /\ runner'[q].late = runner[q].late
    PROVE  Alone'
<1>1. \A q \in Runners : Locked(q)' => Alive(q)'
  BY DEF Locked, Alive
<1> QED
  BY <1>1 DEF Alone, Runners

\* The marker says something else, or the unit of the success is left alone.
LEMMA StandsKept ==
    ASSUME StartInv, UNCHANGED <<launcher, waiter, answer>>,
           \/ marker' # "ok"
           \/ ~earned'.unit
           \/ /\ UNCHANGED <<marker, earned>> /\ (Alive("unit")' => Alive("unit"))
              /\ unit' = unit \/ Alive("unit")
    PROVE  Stands'
BY DEF StartInv, Stands

\* A process that is gone holds nothing.
LEMMA ExitStep ==
    ASSUME StartInv, NEW r \in Runners, NEW clean, Exit(r, clean), Alive(r),
           quiet' \in {0, quiet}, UNCHANGED <<lockFile, launcher>>
    PROVE  /\ Fitting' /\ Alone'
           /\ (Alive("unit")' => Alive("unit")) /\ (unit' = unit \/ Alive("unit"))
           /\ unit' \in {"off", "on", "failed"} /\ quiet' \in 0 .. StaleLog + 1
<1>1. runner' = [runner EXCEPT ![r] = Off] /\ unit' \in {unit, "failed"}
  BY DEF Exit
<1>2. Fitting'
  BY <1>1, OffFits, FittingStep DEF StartInv, Early
<1>3. \A q \in Runners : Alive(q)' => q # r /\ Alive(q) /\ runner'[q] = runner[q]
  BY <1>1 DEF StartInv, Fitting, Alive, Off
<1>4. \A q \in Runners : Locked(q)' => Locked(q) /\ runner'[q] = runner[q]
  BY <1>1 DEF StartInv, Fitting, Locked, Off
<1>5. unit' = unit \/ (r = "unit" /\ ~Alive("unit")')
  BY <1>3 DEF Exit, Runners
<1>6. Alone'
  BY <1>3, <1>4, <1>5, AloneKept DEF StartInv
<1>7. quiet' \in 0 .. StaleLog + 1
  BY StaggeredAssumption DEF StartInv, Rest
<1> QED
  BY <1>1, <1>2, <1>3, <1>5, <1>6, <1>7 DEF StartInv, Rest, Runners

\* A process that goes on under its lock, and says so.
LEMMA MoveStep ==
    ASSUME StartInv, NEW r \in Runners, NEW m, Fit(m), runner' = [runner EXCEPT ![r] = m],
           Locked(r), m.inode = runner[r].inode, m.seen = runner[r].seen, m.late = runner[r].late,
           Log(r), UNCHANGED <<lockFile, launcher, unit>>
    PROVE  /\ Fitting' /\ Alone' /\ quiet' \in 0 .. StaleLog + 1
           /\ (Alive("unit")' => Alive("unit"))
<1>1. Fitting'
  BY FittingStep DEF StartInv
<1>2. runner'[r] = m /\ \A q \in Runners \ {r} : runner'[q] = runner[q]
  BY DEF StartInv, Fitting
<1>3. /\ \A q \in Runners : Locked(q)' => Locked(q) /\ runner'[q].inode = runner[q].inode
      /\ \A q \in Runners : Alive(q)' => /\ Alive(q)
                                          /\ runner'[q].seen = runner[q].seen
                                          /\ runner'[q].late = runner[q].late
  BY <1>2 DEF Locked, Alive
<1>4. Alone'
  BY <1>3, AloneKept DEF StartInv
<1>5. quiet' \in 0 .. StaleLog + 1
  BY StaggeredAssumption DEF Log, StartInv, Rest
<1> QED
  BY <1>1, <1>3, <1>4, <1>5 DEF Runners

\* Faults stay within their bound.
LEMMA FaultFacts == StartInv /\ Fault => faults' \in 0 .. MaxFaults
BY StaggeredAssumption DEF StartInv, Rest, Fault

\* An exception: the marker says so.
LEMMA RaiseStep ==
    ASSUME StartInv, NEW r \in Runners, Alive(r), Raise(r), Log(r), Fault,
           UNCHANGED <<lockFile, launcher, waiter, answer>>
    PROVE  StartInv'
<1>1. /\ Exit(r, FALSE) /\ marker' = "failed" /\ age' = 0 /\ earned' = earned
      /\ quiet' \in {0, quiet}
  BY DEF Raise, Write, Log
<1>2. /\ Fitting' /\ Alone'
      /\ unit' \in {"off", "on", "failed"} /\ quiet' \in 0 .. StaleLog + 1
  BY <1>1, ExitStep
<1>3. faults' \in 0 .. MaxFaults
  BY FaultFacts
<1>4. Rest'
  BY <1>1, <1>2, <1>3, StaggeredAssumption DEF StartInv, Rest
<1>5. Earned' /\ Stands'
  BY <1>1, StandsKept DEF StartInv, Earned
<1> QED
  BY <1>2, <1>4, <1>5 DEF StartInv

\* A process goes on, and only its own record and the log change.
LEMMA GoOn ==
    ASSUME StartInv, NEW r \in Runners, NEW m, Fit(m), runner' = [runner EXCEPT ![r] = m],
           Locked(r), m.inode = runner[r].inode, m.seen = runner[r].seen, m.late = runner[r].late,
           Log(r), faults' = faults \/ Fault,
           UNCHANGED <<marker, age, unit, lockFile, launcher, waiter, answer, earned>>
    PROVE  StartInv'
<1>1. /\ Fitting' /\ Alone' /\ quiet' \in 0 .. StaleLog + 1
      /\ (Alive("unit")' => Alive("unit"))
  BY MoveStep
<1>2. faults' \in 0 .. MaxFaults
  BY FaultFacts DEF StartInv, Rest
<1>3. Rest'
  BY <1>1, <1>2 DEF StartInv, Rest
<1>4. Earned' /\ Stands'
  BY <1>1, StandsKept DEF StartInv, Earned
<1> QED
  BY <1>1, <1>3, <1>4 DEF StartInv

-----------------------------------------------------------------------------
(* The runner.                                                             *)

\* A runner takes the lock of the file that is there, if nobody holds it.
LEMMA AcquireStep == ASSUME StartInv, NEW r \in Runners, Acquire(r) PROVE StartInv'
<1>1. CASE /\ \A s \in Runners : ~(Locked(s) /\ runner[s].inode = lockFile)
           /\ runner' = [runner EXCEPT ![r].pc = "prepare", ![r].inode = lockFile]
           /\ Write("running") /\ UNCHANGED unit
  <2> DEFINE m == [runner[r] EXCEPT !.pc = "prepare", !.inode = lockFile]
  <2>1. /\ runner' = [runner EXCEPT ![r] = m] /\ m.pc = "prepare" /\ m.inode = lockFile
        /\ m.seen = runner[r].seen /\ m.late = runner[r].late
        /\ m.wave = runner[r].wave /\ m.count = runner[r].count
        /\ m.bad = runner[r].bad /\ m.waited = runner[r].waited /\ m \in Loose
    BY <1>1, RunnerFacts DEF Loose, PCs, Early, StartInv, Rest
  <2>2. runner[r].pc = "lock" /\ Fit(runner[r]) /\ Alive(r)
    BY RunnerFacts DEF Acquire, Alive
  <2> HIDE DEF m
  <2>3. Fit(m)
    BY <2>1, <2>2 DEF Fit, Placed, Counted, Early
  <2>4. Fitting'
    BY <2>1, <2>3, FittingStep DEF StartInv
  <2>5. runner'[r] = m /\ \A q \in Runners \ {r} : runner'[q] = runner[q]
    BY <2>1 DEF StartInv, Fitting
  <2>6. /\ UNCHANGED <<lockFile, launcher, waiter, answer, earned, faults, unit>> /\ marker' = "running"
        /\ age' = 0 /\ quiet' \in {0, quiet}
    BY <1>1 DEF Acquire, Write, Log
  <2>7. lockFile \in Int
    BY StaggeredAssumption DEF StartInv, Rest
  <2>8. Alone'
    <3>1. /\ \A q \in Runners : ~(Locked(q) /\ runner[q].inode = lockFile)
          /\ runner'[r].inode = lockFile /\ runner'[r].seen = runner[r].seen /\ lockFile' = lockFile
          /\ runner'[r].late = runner[r].late /\ Alive(r) /\ UNCHANGED <<unit, launcher>>
          /\ \A q \in Runners \ {r} : /\ (Locked(q)' <=> Locked(q)) /\ runner'[q] = runner[q]
                                       /\ (Alive(q)' <=> Alive(q))
      BY <1>1, <2>1, <2>2, <2>5, <2>6 DEF Locked, Alive
    <3>2. CASE r = "unit"
      <4>1. /\ runner'["unit"].inode = lockFile /\ (Locked("hand")' <=> Locked("hand"))
            /\ (Alive("hand")' <=> Alive("hand")) /\ Alive("unit")
            /\ runner'["hand"] = runner["hand"] /\ ~(Locked("hand") /\ runner["hand"].inode = lockFile)
        BY <3>1, <3>2 DEF Runners
      <4> QED
        BY <3>1, <4>1 DEF StartInv, Alone
    <3>3. CASE r = "hand"
      <4>1. /\ runner'["hand"].inode = lockFile /\ (Locked("unit")' <=> Locked("unit"))
            /\ runner'["hand"].seen = runner["hand"].seen /\ runner'["hand"].late = runner["hand"].late
            /\ (Alive("unit")' <=> Alive("unit")) /\ Alive("hand")
            /\ runner'["unit"] = runner["unit"] /\ ~(Locked("unit") /\ runner["unit"].inode = lockFile)
        BY <3>1, <3>3 DEF Runners
      <4> QED
        BY <2>7, <3>1, <4>1 DEF StartInv, Alone
    <3> QED
      BY <3>2, <3>3 DEF Runners
  <2>9. Stands'
    BY <2>6, StandsKept
  <2>10. Rest'
    BY <2>6, StaggeredAssumption DEF StartInv, Rest
  <2>11. Earned'
    BY <2>6 DEF StartInv, Earned
  <2> QED
    BY <2>4, <2>8, <2>9, <2>10, <2>11 DEF StartInv
<1>2. CASE Exit(r, FALSE) /\ UNCHANGED <<marker, age>>
  <2>1. UNCHANGED <<lockFile, launcher, waiter, answer, earned, faults>> /\ quiet' \in {0, quiet} /\ Alive(r)
    BY DEF Acquire, Log, Alive
  <2>2. /\ Fitting' /\ Alone'
        /\ (Alive("unit")' => Alive("unit")) /\ (unit' = unit \/ Alive("unit"))
        /\ unit' \in {"off", "on", "failed"} /\ quiet' \in 0 .. StaleLog + 1
    BY <1>2, <2>1, ExitStep
  <2>3. Rest' /\ Earned' /\ Stands'
    BY <1>2, <2>1, <2>2, StandsKept DEF StartInv, Rest, Earned
  <2> QED
    BY <2>2, <2>3 DEF StartInv
<1> QED
  BY <1>1, <1>2 DEF Acquire

\* Nothing has failed before the first wave but, perhaps, a remote dependency.
LEMMA PrepareStep == ASSUME StartInv, NEW r \in Runners, Prepare(r) PROVE StartInv'
<1>1. CASE Raise(r) /\ Fault
  BY <1>1, RaiseStep DEF Prepare, Alive
<1>2. ASSUME NEW c \in 0 .. 1, NEW m \in Loose, runner' = [runner EXCEPT ![r] = m],
             m.pc = "wave", m.wave = 1, m.count = c, m.bad = runner[r].bad,
             m.waited = runner[r].waited, m.inode = runner[r].inode, m.seen = runner[r].seen,
             m.late = runner[r].late, UNCHANGED <<marker, age, unit, earned>>, faults' = faults \/ Fault
      PROVE  StartInv'
  <2>1. 1 \in 1 .. NWaves + 1 /\ c \in Nat /\ c <= 1
    BY StaggeredAssumption
  <2>3. runner[r].pc = "prepare" /\ runner[r].bad = {} /\ runner[r].waited = 0 /\ Locked(r)
    BY RunnerFacts DEF Prepare, Fit, Placed, Early, Locked
  <2>4. Counted(m)
    <3>1. Most(1) = 0 /\ Cardinality({}) = 0 /\ Forgiven(1) \in Nat
      BY <2>1, MostFacts, ForgivenFacts, FS_EmptySet
    <3> QED
      BY <1>2, <2>1, <2>3, <3>1 DEF Counted
  <2>5. Fit(m)
    BY <1>2, <2>1, <2>3, <2>4 DEF Fit, Placed, Early
  <2> QED
    BY <1>2, <2>3, <2>5, GoOn DEF Prepare
<1>3. CASE /\ runner' = [runner EXCEPT ![r].pc = "wave", ![r].wave = 1]
           /\ UNCHANGED <<marker, age, unit, earned, faults>>
  <2> DEFINE m == [runner[r] EXCEPT !.pc = "wave", !.wave = 1]
  <2>1. runner[r].count = 0 /\ 0 \in 0 .. 1 /\ 1 \in 0 .. NWaves + 1
    BY RunnerFacts, StaggeredAssumption DEF Prepare, Fit, Placed, Early
  <2>2. /\ runner' = [runner EXCEPT ![r] = m] /\ m \in Loose
        /\ m.pc = "wave" /\ m.wave = 1 /\ m.count = 0 /\ m.bad = runner[r].bad
        /\ m.waited = runner[r].waited /\ m.inode = runner[r].inode /\ m.seen = runner[r].seen /\ m.late = runner[r].late
    BY <1>3, <2>1, RunnerFacts DEF Loose, PCs
  <2> HIDE DEF m
  <2> QED
    BY <1>2, <1>3, <2>1, <2>2
<1>4. CASE /\ runner' = [runner EXCEPT ![r].pc = "wave", ![r].wave = 1, ![r].count = 1]
           /\ Fault /\ UNCHANGED <<marker, age, unit, earned>>
  <2> DEFINE m == [runner[r] EXCEPT !.pc = "wave", !.wave = 1, !.count = 1]
  <2>1. 1 \in 0 .. 1 /\ 1 \in 0 .. NWaves + 1
    BY StaggeredAssumption
  <2>2. /\ runner' = [runner EXCEPT ![r] = m] /\ m \in Loose
        /\ m.pc = "wave" /\ m.wave = 1 /\ m.count = 1 /\ m.bad = runner[r].bad
        /\ m.waited = runner[r].waited /\ m.inode = runner[r].inode /\ m.seen = runner[r].seen /\ m.late = runner[r].late
    BY <1>4, <2>1, RunnerFacts DEF Loose, PCs
  <2> HIDE DEF m
  <2> QED
    BY <1>2, <1>4, <2>1, <2>2
<1> QED
  BY <1>1, <1>3, <1>4 DEF Prepare

\* A wave that is over: what it added to the count, and what its plugin may
\* have taken off.
LEMMA WaveOver ==
    ASSUME StartInv, NEW r \in Runners, runner[r].wave \in Waves, runner[r].pc \notin Early,
           NEW m \in Loose, runner' = [runner EXCEPT ![r] = m],
           m.pc = "wave", m.wave = runner[r].wave + 1, m.waited = 0,
           m.inode = runner[r].inode, m.seen = runner[r].seen, m.late = runner[r].late,
           m.count <= 1 + Most(m.wave), Cardinality(m.bad) <= m.count + Forgiven(m.wave),
           Log(r), faults' = faults \/ Fault,
           UNCHANGED <<marker, age, unit, lockFile, launcher, waiter, answer, earned>>
    PROVE  StartInv'
<1>1. m.wave \in 1 .. NWaves + 1
  BY StaggeredAssumption DEF Waves
<1>2. Most(m.wave) \in Nat
  BY <1>1, MostFacts
<1>3. Fit(m)
  BY <1>1, <1>2 DEF Fit, Placed, Counted, Early
<1>4. Locked(r)
  BY DEF Locked, Early
<1> QED
  BY <1>3, <1>4, GoOn

\* What Fit says of a runner at work on a wave, and what the wave can change.
Ledger(m) ==
    /\ m.count \in Nat /\ m.bad \cup {m.wave} \in SUBSET Waves /\ m.bad \ {m.wave} \in SUBSET Waves
    /\ m.count <= 1 + Most(m.wave) + (IF m.pc = "hook" THEN 1 ELSE 0)
    /\ Cardinality(m.bad) <= m.count + Forgiven(m.wave)
    /\ Most(m.wave) \in Nat /\ Most(m.wave + 1) = Most(m.wave) + MaxHookFailures + 1
    /\ Forgiven(m.wave) \in Nat /\ Forgiven(m.wave + 1) \in Nat
    /\ Forgiven(m.wave) <= Forgiven(m.wave + 1)
    /\ m.wave \in Retrying => Forgiven(m.wave + 1) = Forgiven(m.wave) + 1
    /\ Cardinality(m.bad) \in Nat
    /\ Cardinality(m.bad \cup {m.wave}) \in Nat
    /\ Cardinality(m.bad \cup {m.wave}) <= Cardinality(m.bad) + 1
    /\ Cardinality(m.bad \ {m.wave}) \in Nat
    /\ Cardinality(m.bad \ {m.wave}) <= Cardinality(m.bad)
    /\ m.wave + 1 \in 0 .. NWaves + 1 /\ 0 \in 0 .. WaveTimeout
    /\ MaxHookFailures \in Nat /\ MaxHookFailures > 0

\* At a wave, the counts of the runner satisfy the bounds of the step ahead.
LEMMA AtWave ==
    ASSUME StartInv, NEW r \in Runners, runner[r].pc \notin Early, runner[r].wave \in Waves
    PROVE  Ledger(runner[r])
<1>1. runner[r].bad \in SUBSET Waves /\ Fit(runner[r]) /\ runner[r].count \in Nat
  BY RunnerFacts
<1>2. /\ runner[r].wave \in 1 .. NWaves + 1 /\ runner[r].wave + 1 \in 1 .. NWaves + 1
      /\ runner[r].wave + 1 \in 0 .. NWaves + 1 /\ 0 \in 0 .. WaveTimeout
  BY StaggeredAssumption DEF Waves
<1>3. /\ runner[r].count <= 1 + Most(runner[r].wave) + (IF runner[r].pc = "hook" THEN 1 ELSE 0)
      /\ Cardinality(runner[r].bad) <= runner[r].count + Forgiven(runner[r].wave)
  BY <1>1 DEF Fit, Counted
<1> DEFINE w == runner[r].wave
           B == runner[r].bad
<1>4. Most(w) \in Nat /\ Most(w + 1) = Most(w) + MaxHookFailures + 1
  BY MostFacts
<1>5. /\ Forgiven(w) \in Nat /\ Forgiven(w + 1) \in Nat /\ Forgiven(w) <= Forgiven(w + 1)
      /\ w \in Retrying => Forgiven(w + 1) = Forgiven(w) + 1
  BY <1>2, ForgivenFacts
<1>6. /\ Cardinality(B) \in Nat
      /\ Cardinality(B \cup {w}) \in Nat /\ Cardinality(B \cup {w}) <= Cardinality(B) + 1
      /\ Cardinality(B \ {w}) \in Nat /\ Cardinality(B \ {w}) <= Cardinality(B)
  BY <1>1, BadFacts
<1>7. MaxHookFailures \in Nat /\ MaxHookFailures > 0
  BY StaggeredAssumption
<1>8. B \cup {w} \in SUBSET Waves /\ B \ {w} \in SUBSET Waves
  BY <1>1
<1> QED
  BY <1>1, <1>2, <1>3, <1>4, <1>5, <1>6, <1>7, <1>8 DEF Ledger

\* A runner begins with a wave.
LEMMA NextWaveStep == ASSUME StartInv, NEW r \in Runners, NextWave(r) PROVE StartInv'
<1>1. /\ runner[r].pc = "wave" /\ runner[r].wave \in Waves /\ runner[r].pc \notin Early /\ Locked(r)
      /\ runner[r].waited = 0
  BY RunnerFacts, StaggeredAssumption DEF NextWave, Fit, Placed, Early, Waves, Locked
<1>5. Ledger(runner[r])
  BY <1>1, AtWave
<1>2. CASE /\ runner' = [runner EXCEPT ![r].pc = "pull"]
           /\ UNCHANGED <<marker, age, unit, earned, faults>>
  <2> DEFINE m == [runner[r] EXCEPT !.pc = "pull"]
  <2>1. /\ runner' = [runner EXCEPT ![r] = m] /\ m \in Loose
        /\ m.pc = "pull" /\ m.wave = runner[r].wave /\ m.count = runner[r].count
        /\ m.bad = runner[r].bad /\ m.waited = runner[r].waited
        /\ m.inode = runner[r].inode /\ m.seen = runner[r].seen /\ m.late = runner[r].late
    BY <1>2, RunnerFacts DEF Loose, PCs
  <2> HIDE DEF m
  <2>2. Fit(m)
    BY <1>1, <2>1, RunnerFacts DEF Fit, Placed, Counted, Early
  <2> QED
    BY <1>1, <1>2, <2>1, <2>2, GoOn DEF NextWave
<1>3. CASE /\ runner' = [runner EXCEPT ![r].wave = @ + 1]
           /\ UNCHANGED <<marker, age, unit, earned, faults>>
  <2> DEFINE m == [runner[r] EXCEPT !.wave = @ + 1]
  <2>1. runner[r].wave + 1 \in 0 .. NWaves + 1
    BY <1>5 DEF Ledger
  <2>2. /\ runner' = [runner EXCEPT ![r] = m] /\ m \in Loose
        /\ m.pc = "wave" /\ m.wave = runner[r].wave + 1 /\ m.count = runner[r].count
        /\ m.bad = runner[r].bad /\ m.waited = 0
        /\ m.inode = runner[r].inode /\ m.seen = runner[r].seen /\ m.late = runner[r].late
    BY <1>1, <1>3, <2>1, RunnerFacts DEF Loose
  <2> HIDE DEF m
  <2>3. m.count <= 1 + Most(m.wave) /\ Cardinality(m.bad) <= m.count + Forgiven(m.wave)
    BY <1>1, <1>5, <2>2 DEF Ledger
  <2> QED
    BY <1>1, <1>3, <2>2, <2>3, WaveOver DEF NextWave
<1>4. CASE Raise(r) /\ Fault
  BY <1>4, RaiseStep DEF NextWave, Alive
<1> QED
  BY <1>2, <1>3, <1>4 DEF NextWave

\* docker compose up of a wave, which may fail and is counted.
LEMMA UpStep == ASSUME StartInv, NEW r \in Runners, Up(r) PROVE StartInv'
<1>1. /\ runner[r].pc = "pull" /\ runner[r].wave \in Waves /\ runner[r].pc \notin Early /\ Locked(r)
      /\ runner[r].waited = 0
  BY RunnerFacts DEF Up, Fit, Placed, Early, Locked
<1>5. Ledger(runner[r])
  BY <1>1, AtWave
<1>2. CASE runner' = [runner EXCEPT ![r].pc = "health"] /\ UNCHANGED faults
  <2> DEFINE m == [runner[r] EXCEPT !.pc = "health"]
  <2>1. /\ runner' = [runner EXCEPT ![r] = m] /\ m \in Loose
        /\ m.pc = "health" /\ m.wave = runner[r].wave /\ m.count = runner[r].count
        /\ m.bad = runner[r].bad /\ m.waited = runner[r].waited
        /\ m.inode = runner[r].inode /\ m.seen = runner[r].seen /\ m.late = runner[r].late
    BY <1>2, RunnerFacts DEF Loose, PCs
  <2> HIDE DEF m
  <2>2. Fit(m)
    BY <1>1, <2>1, RunnerFacts DEF Fit, Placed, Counted, Early
  <2> QED
    BY <1>1, <1>2, <2>1, <2>2, GoOn DEF Up
<1>3. CASE UpFails(r) /\ Fault
  <2> DEFINE m == [runner[r] EXCEPT !.pc = "wave", !.wave = @ + 1, !.count = @ + 1,
                                    !.bad = @ \cup {runner[r].wave}]
  <2>1. /\ runner[r].wave + 1 \in 0 .. NWaves + 1 /\ runner[r].count + 1 \in Nat
        /\ runner[r].bad \cup {runner[r].wave} \in SUBSET Waves
    BY <1>5 DEF Ledger
  <2>2. /\ runner' = [runner EXCEPT ![r] = m] /\ m \in Loose
        /\ m.pc = "wave" /\ m.wave = runner[r].wave + 1 /\ m.count = runner[r].count + 1
        /\ m.bad = runner[r].bad \cup {runner[r].wave} /\ m.waited = 0
        /\ m.inode = runner[r].inode /\ m.seen = runner[r].seen /\ m.late = runner[r].late
    BY <1>1, <1>3, <2>1, RunnerFacts DEF Loose, PCs, UpFails
  <2> HIDE DEF m
  <2>3. m.count <= 1 + Most(m.wave) /\ Cardinality(m.bad) <= m.count + Forgiven(m.wave)
    BY <1>1, <1>5, <2>2 DEF Ledger
  <2> QED
    BY <1>1, <1>3, <2>2, <2>3, WaveOver DEF Up
<1> QED
  BY <1>2, <1>3 DEF Up

\* A health wait ends, in time or at WaveTimeout.
LEMMA HealthStep == ASSUME StartInv, NEW r \in Runners, Health(r) PROVE StartInv'
<1>1. /\ runner[r].pc = "health" /\ runner[r].wave \in Waves /\ runner[r].pc \notin Early /\ Locked(r)
  BY RunnerFacts DEF Health, Fit, Placed, Early, Locked
<1>5. Ledger(runner[r])
  BY <1>1, AtWave
<1>2. CASE runner' = [runner EXCEPT ![r].pc = "hook", ![r].waited = 0]
  <2> DEFINE m == [runner[r] EXCEPT !.pc = "hook", !.waited = 0]
  <2>1. 0 \in 0 .. WaveTimeout
    BY StaggeredAssumption
  <2>2. /\ runner' = [runner EXCEPT ![r] = m] /\ m \in Loose
        /\ m.pc = "hook" /\ m.wave = runner[r].wave /\ m.count = runner[r].count
        /\ m.bad = runner[r].bad /\ m.waited = 0
        /\ m.inode = runner[r].inode /\ m.seen = runner[r].seen /\ m.late = runner[r].late
    BY <1>2, <2>1, RunnerFacts DEF Loose, PCs
  <2> HIDE DEF m
  <2>3. m.count <= 1 + Most(m.wave) + 1 /\ Cardinality(m.bad) <= m.count + Forgiven(m.wave)
    BY <1>1, <1>5, <2>2 DEF Ledger
  <2>4. Fit(m)
    BY <1>1, <2>2, <2>3, RunnerFacts DEF Fit, Placed, Counted, Early
  <2> QED
    BY <1>1, <2>2, <2>4, GoOn DEF Health
<1>3. CASE runner' = [runner EXCEPT ![r].pc = "hook", ![r].waited = 0, ![r].count = @ + 1,
                                    ![r].bad = @ \cup {runner[r].wave}]
  <2> DEFINE m == [runner[r] EXCEPT !.pc = "hook", !.waited = 0, !.count = @ + 1,
                                    !.bad = @ \cup {runner[r].wave}]
  <2>1. 0 \in 0 .. WaveTimeout /\ runner[r].count + 1 \in Nat
        /\ runner[r].bad \cup {runner[r].wave} \in SUBSET Waves
    BY <1>5 DEF Ledger
  <2>2. /\ runner' = [runner EXCEPT ![r] = m] /\ m \in Loose
        /\ m.pc = "hook" /\ m.wave = runner[r].wave /\ m.count = runner[r].count + 1
        /\ m.bad = runner[r].bad \cup {runner[r].wave} /\ m.waited = 0
        /\ m.inode = runner[r].inode /\ m.seen = runner[r].seen /\ m.late = runner[r].late
    BY <1>3, <2>1, RunnerFacts DEF Loose, PCs
  <2> HIDE DEF m
  <2>3. m.count <= 1 + Most(m.wave) + 1 /\ Cardinality(m.bad) <= m.count + Forgiven(m.wave)
    BY <1>1, <1>5, <2>2 DEF Ledger
  <2>4. Fit(m)
    BY <1>1, <2>2, <2>3, RunnerFacts DEF Fit, Placed, Counted, Early
  <2> QED
    BY <1>1, <2>2, <2>4, GoOn DEF Health
<1> QED
  BY <1>2, <1>3 DEF Health

\* The hook of a wave is over: c and B are the count and the failed waves now.
LEMMA HookedStep ==
    ASSUME StartInv, NEW r \in Runners, NEW c \in Nat, NEW B \in SUBSET Waves, Hooked(r, c, B),
           faults' = faults \/ Fault,
           c <= 1 + Most(runner[r].wave + 1),
           Cardinality(B) <= c + Forgiven(runner[r].wave + 1)
    PROVE  StartInv'
<1>1. /\ runner[r].pc = "hook" /\ runner[r].wave \in Waves /\ runner[r].pc \notin Early
      /\ runner[r].waited = 0
  BY RunnerFacts DEF Hooked, Fit, Placed, Early
<1>2. runner[r].wave + 1 \in 0 .. NWaves + 1
  BY <1>1, AtWave DEF Ledger
<1> DEFINE m == [runner[r] EXCEPT !.pc = "wave", !.wave = @ + 1, !.count = c, !.bad = B]
<1>3. /\ runner' = [runner EXCEPT ![r] = m] /\ m \in Loose
      /\ m.pc = "wave" /\ m.wave = runner[r].wave + 1 /\ m.count = c
      /\ m.bad = B /\ m.waited = 0 /\ m.inode = runner[r].inode /\ m.seen = runner[r].seen /\ m.late = runner[r].late
  BY <1>1, <1>2, RunnerFacts DEF Hooked, Loose, PCs
<1> HIDE DEF m
<1>4. m.count <= 1 + Most(m.wave) /\ Cardinality(m.bad) <= m.count + Forgiven(m.wave)
  BY <1>3
<1> QED
  BY <1>1, <1>3, <1>4, WaveOver DEF Hooked

\* The three ways a hook can end.  A retry that helps takes one off the count,
\* whoever added it: that is where a failure may go missing.
LEMMA HookStep ==
    ASSUME StartInv, NEW r \in Runners, NoHook(r) \/ RetryHook(r) \/ RecordHook(r)
    PROVE  StartInv'
<1> DEFINE m == runner[r]
<1>1. m.pc = "hook" /\ m.wave \in Waves /\ m.pc \notin Early
  BY RunnerFacts DEF NoHook, RetryHook, RecordHook, Hooked, Fit, Placed, Early
<1>2. Ledger(m)
  BY <1>1, AtWave
<1>3. m.bad \in SUBSET Waves
  BY RunnerFacts
<1>4. CASE NoHook(r)
  <2>1. m.count <= 1 + Most(m.wave + 1) /\ Cardinality(m.bad) <= m.count + Forgiven(m.wave + 1)
    BY <1>1, <1>2 DEF Ledger
  <2>2. m.count \in Nat
    BY <1>2 DEF Ledger
  <2> QED
    BY <1>3, <1>4, <2>1, <2>2, HookedStep DEF NoHook
<1>5. CASE RetryHook(r)
  <2> DEFINE c == IF m.count > 0 THEN m.count - 1 ELSE 0
  <2>1. m.wave \in Retrying /\ Fault
    BY <1>5 DEF RetryHook
  <2>2. CASE Hooked(r, m.count, m.bad \cup {m.wave})
    <3>1. /\ m.count <= 1 + Most(m.wave + 1) /\ m.count \in Nat /\ m.bad \cup {m.wave} \in SUBSET Waves
          /\ Cardinality(m.bad \cup {m.wave}) <= m.count + Forgiven(m.wave + 1)
      BY <1>1, <1>2, <2>1 DEF Ledger
    <3> QED
      BY <2>1, <2>2, <3>1, HookedStep
  <2>3. CASE Hooked(r, c, m.bad \ {m.wave})
    <3>1. /\ c <= 1 + Most(m.wave + 1) /\ c \in Nat /\ m.bad \ {m.wave} \in SUBSET Waves
          /\ Cardinality(m.bad \ {m.wave}) <= c + Forgiven(m.wave + 1)
      BY <1>1, <1>2, <2>1 DEF Ledger
    <3> HIDE DEF c
    <3> QED
      BY <2>1, <2>3, <3>1, HookedStep
  <2> QED
    BY <1>5, <2>2, <2>3 DEF RetryHook
<1>6. CASE RecordHook(r)
  <2>1. PICK k \in 1 .. MaxHookFailures : Hooked(r, m.count + k, m.bad \cup {m.wave})
    BY <1>6 DEF RecordHook
  <2>2. /\ m.count + k <= 1 + Most(m.wave + 1) /\ m.count + k \in Nat
        /\ m.bad \cup {m.wave} \in SUBSET Waves
        /\ Cardinality(m.bad \cup {m.wave}) <= (m.count + k) + Forgiven(m.wave + 1)
    BY <1>1, <1>2 DEF Ledger
  <2>3. Fault
    BY <1>6 DEF RecordHook
  <2> QED
    BY <2>1, <2>2, <2>3, HookedStep
<1> QED
  BY <1>4, <1>5, <1>6

\* A start that counts no failure hides no more than the retrying plugins.
LEMMA FinishStep == ASSUME StartInv, NEW r \in Runners, Finish(r) PROVE StartInv'
<1>1. /\ runner[r].pc = "wave" /\ runner[r].wave = NWaves + 1 /\ runner[r].count \in Nat
      /\ runner[r].bad \in SUBSET Waves /\ Fit(runner[r]) /\ quiet' \in {0, quiet}
      /\ UNCHANGED <<lockFile, launcher, waiter, answer, faults>> /\ age' = 0 /\ Alive(r)
      /\ marker' = IF runner[r].count > 0 THEN "failed" ELSE "ok"
      /\ earned' = IF runner[r].count > 0 THEN earned
                   ELSE [tried |-> NWaves, bad |-> runner[r].bad, unit |-> r = "unit"]
  BY RunnerFacts DEF Finish, Write, Log, Alive
<1>2. /\ Fitting' /\ Alone'
      /\ unit' \in {"off", "on", "failed"} /\ quiet' \in 0 .. StaleLog + 1
  BY <1>1, ExitStep DEF Finish
<1>3. earned' \in [tried : 0 .. NWaves, bad : SUBSET Waves, unit : BOOLEAN]
  <2>1. NWaves \in 0 .. NWaves
    BY StaggeredAssumption
  <2> QED
    BY <1>1, <2>1 DEF StartInv, Rest
<1>4. Rest'
  BY <1>1, <1>2, <1>3, StaggeredAssumption DEF StartInv, Rest
<1>5. Earned'
  <2>1. CASE runner[r].count > 0
    BY <1>1, <2>1 DEF StartInv, Earned
  <2>2. CASE ~(runner[r].count > 0)
    <3>1. runner[r].count = 0
      BY <1>1, <2>2
    <3>2. Cardinality(runner[r].bad) <= 0 + Cardinality(Retrying)
      BY <1>1, <3>1, ForgivenFacts DEF Fit, Counted, Early
    <3>3. earned'.tried = NWaves /\ earned'.bad = runner[r].bad
      BY <1>1, <2>2
    <3>4. Cardinality(runner[r].bad) <= Cardinality(Retrying)
      BY <3>2, ForgivenFacts
    <3> QED
      BY <3>3, <3>4 DEF Earned
  <2> QED
    BY <2>1, <2>2
<1>6. Stands'
  <2>1. CASE runner[r].count > 0
    BY <1>1, <2>1, StandsKept
  <2>2. CASE ~(runner[r].count > 0) /\ r # "unit"
    <3>1. ~earned'.unit
      BY <1>1, <2>2
    <3> QED
      BY <1>1, <3>1, StandsKept
  <2>3. CASE ~(runner[r].count > 0) /\ r = "unit"
    <3>1. runner'["unit"] = Off /\ unit' = unit
      BY <1>1, <2>3 DEF Finish, Exit, StartInv, Fitting
    <3>2. unit' = "on" /\ ~Alive("unit")' /\ launcher' # "start"
      BY <1>1, <2>3, <3>1 DEF Alive, Off, StartInv, Alone
    <3> QED
      BY <1>1, <3>2 DEF Stands, StartInv
  <2> QED
    BY <2>1, <2>2, <2>3
<1> QED
  BY <1>2, <1>4, <1>5, <1>6 DEF StartInv

\* A runner is killed: its lock goes with it, the marker stays.
LEMMA KilledStep ==
    ASSUME StartInv, NEW r \in Runners, NEW clean \in BOOLEAN, Killed(r, clean) PROVE StartInv'
<1>1. /\ Exit(r, clean) /\ UNCHANGED <<marker, age, quiet, lockFile, launcher, waiter, answer, earned>>
      /\ faults' \in 0 .. MaxFaults /\ Alive(r)
  BY FaultFacts DEF Killed
<1>2. /\ Fitting' /\ Alone'
      /\ (Alive("unit")' => Alive("unit")) /\ (unit' = unit \/ Alive("unit"))
      /\ unit' \in {"off", "on", "failed"} /\ quiet' \in 0 .. StaleLog + 1
  BY <1>1, ExitStep
<1>3. Rest' /\ Earned' /\ Stands'
  BY <1>1, <1>2, StandsKept DEF StartInv, Rest, Earned
<1> QED
  BY <1>2, <1>3 DEF StartInv

\* A reboot takes every runner along; the files stay.
LEMMA RebootStep == ASSUME StartInv, Reboot PROVE StartInv'
<1>1. /\ runner' = [q \in Runners |-> Off] /\ unit' = "off" /\ faults' \in 0 .. MaxFaults
      /\ launcher' = "idle" /\ earned' = [earned EXCEPT !.unit = FALSE]
      /\ UNCHANGED <<marker, age, quiet, lockFile, waiter, answer>>
  BY FaultFacts DEF Reboot
<1>2. Fit(Off) /\ Off \in Loose
  BY OffFits DEF Early, Fit
<1>3. Fitting'
  BY <1>1, <1>2 DEF Fitting
<1>4. Alone'
  BY <1>1 DEF Alone, Locked, Alive, Off, Runners
<1>5. earned'.tried = earned.tried /\ earned'.bad = earned.bad /\ earned'.unit = FALSE
  BY <1>1 DEF StartInv, Rest
<1>6. Rest' /\ Earned' /\ Stands'
  BY <1>1, <1>5 DEF StartInv, Rest, Earned, Stands
<1> QED
  BY <1>3, <1>4, <1>6 DEF StartInv

-----------------------------------------------------------------------------
(* The launcher and the waiter.                                            *)

\* The waiter, once it begins.
LEMMA WaitFacts ==
    Wait => waiter' \in [on : BOOLEAN, hits : 0 .. 1, polls : 0 .. MaxPolls, checking : BOOLEAN]
<1>1. 0 \in 0 .. MaxPolls /\ 0 \in 0 .. 1
  BY StaggeredAssumption
<1> QED
  BY <1>1 DEF Wait, NotWaiting

\* The script attaches to a start, or begins; nothing changes on the node.
LEMMA LaunchStep == ASSUME StartInv, Launch PROVE StartInv'
<1>1. /\ answer' = "none" /\ launcher = "idle" /\ ~waiter.on
      /\ UNCHANGED <<marker, age, quiet, unit, lockFile, runner, faults>>
  BY DEF Launch
<1>2. Fitting'
  BY <1>1 DEF StartInv, Fitting
<1>3. CASE AlreadyRunning /\ Wait /\ earned' = Unearned /\ UNCHANGED launcher
  <2>1. marker' = "running" /\ marker' # "ok"
    BY <1>1, <1>3 DEF AlreadyRunning
  <2>2. earned' \in [tried : 0 .. NWaves, bad : SUBSET Waves, unit : BOOLEAN]
    BY <1>3, StaggeredAssumption DEF Unearned
  <2>3. Rest'
    BY <1>1, <1>3, <2>1, <2>2, WaitFacts DEF StartInv, Rest
  <2>4. Earned' /\ Stands'
    BY <1>1, <1>3, <2>1 DEF Earned, Stands
  <2>5. Alone'
    BY <1>1, <1>3 DEF StartInv, Alone, Locked, Alive
  <2> QED
    BY <1>2, <2>3, <2>4, <2>5 DEF StartInv
<1>4. CASE launcher' = "stop" /\ lockFile < MaxLaunches /\ UNCHANGED <<waiter, earned>>
  <2>1. Rest' /\ Earned'
    BY <1>1, <1>4 DEF StartInv, Rest, Earned
  <2>2. Alone' /\ Stands'
    BY <1>1, <1>4 DEF StartInv, Alone, Stands, Locked, Alive
  <2> QED
    BY <1>2, <2>1, <2>2 DEF StartInv
<1> QED
  BY <1>3, <1>4 DEF Launch

\* What the script has stopped holds nothing: the unit first, then what it
\* recognises.
LEMMA StopSteps == ASSUME StartInv, StopUnit \/ KillStrays PROVE StartInv'
<1>1. PICK r \in Runners :
         /\ runner' = [runner EXCEPT ![r] = Off] \/ (r = "hand" /\ runner' = runner /\ ~runner["hand"].seen)
         /\ r = "unit" => /\ launcher = "stop" /\ launcher' = "kill"
                          /\ unit' = IF unit = "failed" THEN unit ELSE "off"
         /\ r = "hand" => launcher = "kill" /\ launcher' = "reset" /\ unit' = unit
         /\ UNCHANGED <<marker, age, quiet, lockFile, waiter, answer, earned, faults>>
  <2>1. CASE StopUnit
    BY <2>1 DEF StopUnit, Runners
  <2>2. CASE KillStrays /\ runner["hand"].seen
    BY <2>2 DEF KillStrays, Runners
  <2>3. CASE KillStrays /\ ~runner["hand"].seen
    <3>1. runner' = runner
      BY <2>3 DEF KillStrays, StartInv, Fitting, Runners
    <3> QED
      BY <2>3, <3>1 DEF KillStrays, Runners
  <2> QED
    BY <2>1, <2>2, <2>3
<1>2. Fitting'
  <2>1. Fit(Off)
    BY OffFits DEF Early
  <2>2. CASE runner' = runner
    BY <2>2 DEF StartInv, Fitting
  <2> QED
    BY <1>1, <2>1, <2>2, FittingStep DEF StartInv
<1>3. \A q \in Runners : /\ Alive(q)' => Alive(q) /\ runner'[q] = runner[q] /\ (q = r => ~runner[q].seen)
                         /\ Locked(q)' => Locked(q) /\ runner'[q] = runner[q]
                         /\ q = "unit" /\ r = "unit" => ~Alive(q)' /\ ~Locked(q)'
  BY <1>1 DEF StartInv, Fitting, Alive, Locked, Off
<1>4. /\ unit' \in {"off", "on", "failed"} /\ launcher' \in {"kill", "reset"}
      /\ launcher \in {"stop", "kill"} /\ ~waiter.on
  BY <1>1 DEF StartInv, Rest, Stands, Runners
<1>5. Rest' /\ Earned'
  BY <1>1, <1>4 DEF StartInv, Rest, Earned
<1>6. Stands'
  <2>1. Alive("unit")' => Alive("unit")
    BY <1>3 DEF Runners
  <2> QED
    BY <1>1, <1>4, <2>1 DEF StartInv, Stands
<1>7. ~Alive("unit")' /\ ~Locked("unit")'
  <2>1. r = "hand" => ~Alive("unit")
    BY <1>1 DEF StartInv, Alone
  <2>2. ~Alive("unit")'
    BY <1>3, <2>1 DEF Runners
  <2> QED
    BY <2>2 DEF Alive, Locked
<1>8. Alone'
  <2>1. /\ Locked("hand")' => Locked("hand") /\ runner'["hand"] = runner["hand"]
        /\ r = "hand" /\ Alive("hand")' => ~runner'["hand"].seen
    BY <1>3 DEF Runners
  <2>2. launcher' = "reset" => r = "hand"
    BY <1>1 DEF Runners
  <2> QED
    BY <1>1, <1>7, <2>1, <2>2 DEF StartInv, Alone
<1> QED
  BY <1>2, <1>5, <1>6, <1>8 DEF StartInv

\* A new lock file: whoever the launcher recognised is gone or came late.
LEMMA ResetStep == ASSUME StartInv, Reset PROVE StartInv'
<1>1. /\ launcher = "reset" /\ launcher' = "start" /\ marker' = "running" /\ age' = 0 /\ quiet' = 0
      /\ lockFile' = lockFile + 1 /\ earned' = Unearned
      /\ UNCHANGED <<unit, runner, waiter, answer, faults>>
  BY DEF Reset, Write
<1>2. /\ lockFile \in Int /\ runner["hand"].inode \in Int /\ lockFile + 1 \in 0 .. MaxLaunches
  BY <1>1, RunnerFacts, StaggeredAssumption DEF Runners, StartInv, Rest
<1>3. earned' \in [tried : 0 .. NWaves, bad : SUBSET Waves, unit : BOOLEAN]
  BY <1>1, StaggeredAssumption DEF Unearned
<1>4. ~Alive("unit")' /\ ~Locked("unit")'
  BY <1>1 DEF StartInv, Alone, Alive, Locked
<1>5. Alone'
  <2>1. Locked("hand")' => Locked("hand") /\ Alive("hand")
    BY <1>1 DEF Locked, Alive
  <2> QED
    BY <1>1, <1>2, <1>4, <2>1 DEF StartInv, Alone
<1>6. Fitting'
  BY <1>1 DEF StartInv, Fitting
<1>7. Rest'
  BY <1>1, <1>2, <1>3, StaggeredAssumption DEF StartInv, Rest
<1>8. Earned' /\ Stands'
  BY <1>1 DEF StartInv, Earned, Stands
<1> QED
  BY <1>5, <1>6, <1>7, <1>8 DEF StartInv

\* The unit's process begins, with no lock yet.
LEMMA StartUnitStep == ASSUME StartInv, StartUnit PROVE StartInv'
<1> DEFINE u == [Off EXCEPT !.pc = "lock"]
<1>1. /\ launcher = "start" /\ launcher' = "idle" /\ unit' = "on" /\ Wait
      /\ runner' = [runner EXCEPT !["unit"] = u]
      /\ UNCHANGED <<marker, age, quiet, lockFile, answer, earned, faults>>
  BY DEF StartUnit
<1>2. Fit(u) /\ u.pc = "lock"
  BY OffFits DEF Early, Off
<1> HIDE DEF u
<1>3. Fitting'
  BY <1>1, <1>2, FittingStep DEF StartInv, Runners
<1>4. runner'["unit"] = u /\ runner'["hand"] = runner["hand"]
  BY <1>1 DEF StartInv, Fitting, Runners
<1>5. /\ ~Locked("unit")' /\ (Locked("hand")' <=> Locked("hand"))
  BY <1>2, <1>4 DEF Locked
<1>6. Alone'
  BY <1>1, <1>4, <1>5 DEF StartInv, Alone
<1>7. Rest' /\ Earned'
  BY <1>1, WaitFacts DEF StartInv, Rest, Earned
<1>8. Stands'
  BY <1>1 DEF StartInv, Stands
<1> QED
  BY <1>3, <1>6, <1>7, <1>8 DEF StartInv

\* A start outside the unit, which takes no lock yet.
LEMMA StartByHandStep == ASSUME StartInv, NEW seen \in BOOLEAN, StartByHand(seen) PROVE StartInv'
<1> DEFINE m == [Off EXCEPT !.pc = "lock", !.seen = seen, !.late = launcher = "reset"]
<1>1. /\ runner' = [runner EXCEPT !["hand"] = m]
      /\ UNCHANGED <<marker, age, quiet, unit, lockFile, launcher, waiter, answer, earned, faults>>
  BY DEF StartByHand
<1>2. Fit(m) /\ m.pc = "lock" /\ (m.late <=> launcher = "reset")
  <2>1. (launcher = "reset") \in BOOLEAN /\ "lock" \in Early
    BY DEF Early
  <2> QED
    BY <2>1, OffFits DEF Off
<1> HIDE DEF m
<1>3. Fitting'
  BY <1>1, <1>2, FittingStep DEF StartInv, Runners
<1>4. runner'["hand"] = m /\ runner'["unit"] = runner["unit"]
  BY <1>1 DEF StartInv, Fitting, Runners
<1>5. Alone' /\ Stands'
  BY <1>1, <1>2, <1>4 DEF StartInv, Alone, Stands, Locked, Alive
<1>6. Rest' /\ Earned'
  BY <1>1 DEF StartInv, Rest, Earned
<1> QED
  BY <1>3, <1>5, <1>6 DEF StartInv

\* An interval passes for marker, log and health waits alike.
LEMMA PassesStep ==
    ASSUME StartInv, Passes, UNCHANGED <<marker, unit, lockFile, launcher, earned>>,
           waiter.on, waiter' \in [on : BOOLEAN, hits : 0 .. 1, polls : 0 .. MaxPolls, checking : BOOLEAN],
           answer' \in {answer, "timeout"}, faults' \in 0 .. MaxFaults
    PROVE  StartInv'
<1> DEFINE W(q) == IF runner[q].pc = "health" /\ runner[q].waited < WaveTimeout
                   THEN runner[q].waited + 1 ELSE runner[q].waited
<1>1. ASSUME NEW q \in Runners
      PROVE  /\ W(q) \in 0 .. WaveTimeout /\ runner'[q] = [runner[q] EXCEPT !.waited = W(q)]
             /\ runner'[q] \in Loose
             /\ runner'[q].pc = runner[q].pc /\ runner'[q].wave = runner[q].wave
             /\ runner'[q].count = runner[q].count /\ runner'[q].bad = runner[q].bad
             /\ runner'[q].inode = runner[q].inode /\ runner'[q].seen = runner[q].seen
             /\ runner'[q].waited = W(q) /\ runner'[q].late = runner[q].late
  <2>1. W(q) \in 0 .. WaveTimeout
    BY RunnerFacts, StaggeredAssumption
  <2>2. runner'[q] = [runner[q] EXCEPT !.waited = W(q)]
    BY RunnerFacts DEF Passes, Loose
  <2> QED
    BY <2>1, <2>2, RunnerFacts DEF Loose
<1>2. Fitting'
  <2>1. ASSUME NEW q \in Runners PROVE Fit(runner'[q])
    <3>1. Fit(runner[q]) /\ (runner[q].pc # "health" => runner'[q].waited = runner[q].waited)
      BY <1>1, RunnerFacts
    <3>2. Placed(runner'[q]) /\ runner'[q] \in Loose
      BY <1>1, <3>1 DEF Fit, Placed
    <3>3. Counted(runner'[q])
      BY <1>1, <3>1 DEF Fit, Counted
    <3> QED
      BY <3>2, <3>3 DEF Fit
  <2>2. runner' \in [Runners -> Loose]
    BY <1>1 DEF Passes
  <2> QED
    BY <2>1, <2>2 DEF Fitting
<1>3. age' \in 0 .. StaleLog + 1 /\ quiet' \in 0 .. StaleLog + 1
  BY StaggeredAssumption DEF Passes, Older, StartInv, Rest
<1>4. Stands'
  <2>1. Alive("unit")' <=> Alive("unit")
    BY <1>1 DEF Alive, Runners
  <2> QED
    BY <2>1 DEF StartInv, Stands
<1>5. Alone'
  BY <1>1, AloneKept DEF StartInv, Locked, Alive
<1>6. Rest'
  BY <1>3 DEF StartInv, Rest
<1>7. Earned'
  BY DEF StartInv, Earned
<1> QED
  BY <1>2, <1>4, <1>5, <1>6, <1>7 DEF StartInv

\* What the waiter becomes when it polls on, or runs out of polls.
LEMMA AgainFacts ==
    ASSUME StartInv, NEW h \in 0 .. 1, Again(h)
    PROVE  /\ waiter' \in [on : BOOLEAN, hits : 0 .. 1, polls : 0 .. MaxPolls, checking : BOOLEAN]
           /\ answer' \in {answer, "timeout"}
<1> DEFINE W == [on : BOOLEAN, hits : 0 .. 1, polls : 0 .. MaxPolls, checking : BOOLEAN]
<1>1. waiter.polls \in 0 .. MaxPolls /\ 0 \in 0 .. MaxPolls /\ 0 \in 0 .. 1
  BY StaggeredAssumption DEF StartInv, Rest
<1>2. CASE waiter.polls = MaxPolls
  <2>1. NotWaiting \in W
    BY <1>1 DEF NotWaiting
  <2>2. waiter' = NotWaiting /\ answer' = "timeout"
    BY <1>2 DEF Again, Answer
  <2> QED
    BY <2>1, <2>2
<1>3. CASE waiter.polls # MaxPolls
  <2>1. waiter.polls + 1 \in 0 .. MaxPolls
    BY <1>1, <1>3, StaggeredAssumption
  <2>2. /\ waiter' = [on |-> TRUE, hits |-> h, polls |-> waiter.polls + 1, checking |-> FALSE]
        /\ answer' = answer
    BY <1>3 DEF Again
  <2> QED
    BY <2>1, <2>2
<1> QED
  BY <1>2, <1>3

\* The waiter answers, gives up, or looks closer: the node is as it was.
LEMMA WaiterStep ==
    ASSUME StartInv, UNCHANGED <<marker, age, quiet, unit, lockFile, runner, earned>>,
           waiter.on \/ launcher' = "idle",
           \/ waiter' = NotWaiting /\ launcher' \in {launcher, "idle"}
           \/ waiter' = [waiter EXCEPT !.checking = TRUE] /\ launcher' = launcher,
           answer' \in {"none", "ok", "failed", "dead", "stale", "timeout"},
           answer' = "ok" => answer = "ok" \/ marker = "ok", faults' \in 0 .. MaxFaults
    PROVE  StartInv'
<1>1. waiter' \in [on : BOOLEAN, hits : 0 .. 1, polls : 0 .. MaxPolls, checking : BOOLEAN]
  <2>1. 0 \in 0 .. MaxPolls /\ 0 \in 0 .. 1
    BY StaggeredAssumption
  <2>2. NotWaiting \in [on : BOOLEAN, hits : 0 .. 1, polls : 0 .. MaxPolls, checking : BOOLEAN]
    BY <2>1 DEF NotWaiting
  <2> QED
    BY <2>2 DEF StartInv, Rest
<1>2. Rest' /\ Earned'
  BY <1>1 DEF StartInv, Rest, Earned
<1>3. Fitting' /\ Alone'
  BY DEF StartInv, Fitting, Alone, Locked, Alive
<1>4. waiter'.on => waiter.on /\ launcher' = launcher
  BY DEF NotWaiting, StartInv, Rest
<1>5. Stands'
  BY <1>4 DEF StartInv, Stands, Alive
<1> QED
  BY <1>2, <1>3, <1>5 DEF StartInv

\* The waiter reads the marker: an "ok" that it reports was earned.
LEMMA PollStep == ASSUME StartInv, Poll PROVE StartInv'
<1>1. UNCHANGED <<marker, unit, lockFile, launcher, earned>> /\ faults \in 0 .. MaxFaults
      /\ answer \in {"none", "ok", "failed", "dead", "stale", "timeout"} /\ 0 \in 0 .. 1 /\ 1 \in 0 .. 1
      /\ waiter.on
  BY DEF Poll, StartInv, Rest
<1>2. CASE marker = "ok" /\ Answer("ok") /\ UNCHANGED <<age, quiet, runner, faults>>
  BY <1>1, <1>2, WaiterStep DEF Answer
<1>3. CASE marker = "failed" /\ Answer("failed") /\ UNCHANGED <<age, quiet, runner, faults>>
  BY <1>1, <1>3, WaiterStep DEF Answer
<1>4. CASE Passes /\ Again(1) /\ UNCHANGED faults
  BY <1>1, <1>4, AgainFacts, PassesStep
<1>5. CASE waiter' = [waiter EXCEPT !.checking = TRUE] /\ UNCHANGED <<age, quiet, runner, answer, faults>>
  BY <1>1, <1>5, WaiterStep
<1>6. CASE Fault /\ Passes /\ Again(0)
  BY <1>1, <1>6, AgainFacts, PassesStep, FaultFacts
<1> QED
  BY <1>2, <1>3, <1>4, <1>5, <1>6 DEF Poll

\* The waiter looks at processes, unit and ages.
LEMMA LookStep == ASSUME StartInv, Look PROVE StartInv'
<1>1. UNCHANGED <<marker, unit, lockFile, launcher, earned>> /\ faults \in 0 .. MaxFaults /\ 0 \in 0 .. 1
      /\ waiter.on
  BY DEF Look, StartInv, Rest
<1>2. CASE Answer("dead") /\ UNCHANGED <<age, quiet, runner, faults>>
  BY <1>1, <1>2, WaiterStep DEF Answer
<1>3. CASE Answer("stale") /\ UNCHANGED <<age, quiet, runner>> /\ UNCHANGED faults
  BY <1>1, <1>3, WaiterStep DEF Answer
<1>4. CASE Passes /\ Again(0) /\ (UNCHANGED faults \/ Fault)
  BY <1>1, <1>4, AgainFacts, PassesStep, FaultFacts
<1> QED
  BY <1>2, <1>3, <1>4 DEF Look

\* The waiter gives up.
LEMMA GiveUpStep == ASSUME StartInv, GiveUp PROVE StartInv'
<1>1. /\ answer' = answer /\ answer \in {"none", "ok", "failed", "dead", "stale", "timeout"}
      /\ waiter' = NotWaiting /\ launcher' = "idle" /\ faults' \in 0 .. MaxFaults
      /\ UNCHANGED <<marker, age, quiet, unit, lockFile, runner, earned>>
  BY FaultFacts DEF GiveUp, StartInv, Rest
<1> QED
  BY <1>1, WaiterStep

-----------------------------------------------------------------------------
\* Before the first launch nothing is locked, counted or reported.
LEMMA InvInit == Init => StartInv
<1> SUFFICES ASSUME Init PROVE StartInv
  OBVIOUS
<1>1. Fit(Off) /\ Off \in Loose /\ Off.pc = "off"
  BY OffFits DEF Early, Fit, Off
<1>2. Fitting
  BY <1>1 DEF Init, Fitting
<1>3. Alone /\ Stands /\ Earned
  BY <1>1 DEF Init, Alone, Stands, Earned, Locked, Alive, Runners, NotWaiting
<1>4. /\ 0 \in 0 .. MaxPolls /\ 0 \in 0 .. NWaves /\ 0 \in 0 .. 1 /\ 0 \in 0 .. StaleLog + 1
      /\ 0 \in 0 .. MaxLaunches /\ 0 \in 0 .. MaxFaults
  BY StaggeredAssumption
<1>5. Rest
  BY <1>4 DEF Init, Rest, NotWaiting, Unearned
<1> QED
  BY <1>2, <1>3, <1>5 DEF StartInv

\* Every step of launcher, runners, waiter and time keeps the invariant.
LEMMA InvNext == StartInv /\ [Next]_staggeredVars => StartInv'
<1> SUFFICES ASSUME StartInv, [Next]_staggeredVars PROVE StartInv'
  OBVIOUS
<1>1. CASE \/ Launch \/ StopUnit \/ KillStrays \/ Reset \/ StartUnit
           \/ Poll \/ Look \/ GiveUp \/ Reboot
  BY <1>1, LaunchStep, StopSteps, ResetStep, StartUnitStep, PollStep, LookStep, GiveUpStep, RebootStep
<1>2. CASE \E seen \in BOOLEAN : StartByHand(seen)
  BY <1>2, StartByHandStep
<1>3. ASSUME NEW r \in Runners, Run(r) PROVE StartInv'
  BY <1>3, AcquireStep, PrepareStep, NextWaveStep, UpStep, HealthStep, HookStep, FinishStep DEF Run
<1>4. ASSUME NEW r \in Runners, NEW clean \in BOOLEAN, Killed(r, clean) PROVE StartInv'
  BY <1>4, KilledStep
<1>5. CASE UNCHANGED staggeredVars
  BY <1>5 DEF staggeredVars, StartInv, Rest, Fitting, Alone, Stands, Earned, Locked, Alive
<1> QED
  BY <1>1, <1>2, <1>3, <1>4, <1>5 DEF Next

\* The invariant bounds what is counted, so it implies the types.
LEMMA InvTypes == StartInv => TypeOK
<1> SUFFICES ASSUME StartInv PROVE TypeOK
  OBVIOUS
<1>1. runner \in [Runners -> Tight]
  BY FitIsTight DEF StartInv, Fitting
<1> QED
  BY <1>1 DEF StartInv, Rest, TypeOK, Tight

\* The invariant holds in every state.
LEMMA StartInvHolds == Spec => []StartInv
BY InvInit, InvNext, PTL DEF Spec

\* compose_wait reports success only for a start that ended after the launch
\* and went through every wave, and what that start hides is at most one failed wave for
\* each plugin that resolves failures.
THEOREM SuccessIsEarned == Spec => []OkIsEarned
<1>1. StartInv => OkIsEarned
  BY InvTypes DEF StartInv, Earned, OkIsEarned
<1> QED
  BY <1>1, StartInvHolds, PTL

\* Two starts work side by side only if the launcher has deleted the lock file
\* of the one, and could not recognise it or looked before it began.
THEOREM LocksAreSole == Spec => []StartsAreAlone
<1>1. StartInv => StartsAreAlone
  <2> SUFFICES ASSUME StartInv PROVE StartsAreAlone
    OBVIOUS
  <2>1. runner["hand"].inode \in Int /\ lockFile \in Int
    BY RunnerFacts, StaggeredAssumption DEF Runners, StartInv, Rest
  <2> QED
    BY <2>1 DEF StartInv, Alone, StartsAreAlone
<1> QED
  BY <1>1, StartInvHolds, PTL

\* A start of the unit that succeeds is not called dead by the waiter, however
\* its steps fall between those of the start: the unit stays.
THEOREM UnitOutlivesSuccess == Spec => SuccessIsNotDeath
<1>1. ASSUME StartInv, [Next]_staggeredVars, answer' = "dead", answer # "dead", marker = "ok"
      PROVE  ~earned.unit
  <2>1. Look /\ waiter.on /\ unit # "on"
    <3>1. \A h : Again(h) => answer' # "dead"
      BY <1>1 DEF Again, Answer
    <3>2. ~Poll
      BY <1>1, <3>1 DEF Poll, Answer
    <3>3. Look => unit # "on"
      BY <1>1, <3>1 DEF Look, Answer
    <3>4. /\ ~Launch /\ ~StopUnit /\ ~KillStrays /\ ~Reset /\ ~StartUnit /\ ~GiveUp /\ ~Reboot
          /\ ~(UNCHANGED staggeredVars)
      BY <1>1 DEF Launch, StopUnit, KillStrays, Reset, StartUnit, GiveUp, Reboot, staggeredVars
    <3>5. \A seen \in BOOLEAN : ~StartByHand(seen)
      BY <1>1 DEF StartByHand
    <3>6. \A r \in Runners : ~Run(r) /\ \A clean \in BOOLEAN : ~Killed(r, clean)
      BY <1>1 DEF Run, Acquire, Prepare, NextWave, Up, Health, NoHook, RetryHook, RecordHook,
                  Hooked, Finish, Killed
    <3>7. Look => waiter.on
      BY DEF Look
    <3> QED
      BY <1>1, <3>2, <3>3, <3>4, <3>5, <3>6, <3>7 DEF Next
  <2> QED
    BY <1>1, <2>1 DEF StartInv, Stands
<1>2. StartInv /\ [Next]_staggeredVars =>
        [answer' = "dead" /\ answer # "dead" /\ marker = "ok" => ~earned.unit]_staggeredVars
  BY <1>1
<1> QED
  BY <1>2, StartInvHolds, PTL DEF Spec, SuccessIsNotDeath
=============================================================================
