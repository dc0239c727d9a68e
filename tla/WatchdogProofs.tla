--------------------------- MODULE WatchdogProofs ---------------------------
(***************************************************************************)
(* Proofs about Watchdog, for any services, dependencies, thresholds,      *)
(* backoff and cooldowns, for one or two runs of `watchdog heal'.          *)
(*                                                                         *)
(* The three properties compare what really happened (restarts, recovery,  *)
(* alerts) with what the state file and the copies of the runs say of it.  *)
(* A copy may miss what other runs do after it was loaded, and a save puts *)
(* that copy in the place of the file.  Counting bounds how far each may   *)
(* be behind: a run restarts a service at most once, so a copy misses at   *)
(* most the restarts that other runs still have to make.  The webhook job  *)
(* owns the boundary that its own healing waits for, so it never gets to   *)
(* the statements that write the file (Places).                            *)
(***************************************************************************)
EXTENDS Watchdog, TLAPS

Labels == {"idle", "check", "gate", "heal", "save", "recover", "reset", "tell", "sent", "release"}
Reports == [Services -> Messages \cup {NoIssue}]
Alarms == [age : Ages, about : Messages \cup {NoIssue}, by : Healers \cup {"file", "lost"}]

Types ==
    /\ TypeOK
    /\ report \in [Dogs -> Reports]
    /\ returned \in [Services -> Nat] /\ slips \in Nat /\ overlaps \in Nat
    /\ ran \in [age : Ages, known : BOOLEAN] /\ told \in [Services -> Alarms]

\* The webhook job never heals; the loop looks at safe services only; a run that
\* still has to save an alert is at the end of notify; two runs that are under
\* way together have been counted.
Places ==
    /\ pc["webhook"] \in {"idle", "check", "gate", "release"}
    /\ \A d \in Healers : pc[d] \in {"heal", "save"} => todo[d] \subseteq Safe
    /\ \A s \in Services : told[s].by \in Healers => pc[told[s].by] = "sent"
    /\ \A d \in Healers : \A e \in Healers \ {d} : pc[d] # "idle" /\ pc[e] # "idle" => overlaps >= 1

\* Run d may still restart s; how many restarts of s that is.
Pending(d, s) ==
    d \in Healers /\ \/ pc[d] \in {"check", "gate"}
                     \/ pc[d] \in {"heal", "save"} /\ s \in todo[d]
Due(d, s) == IF Pending(d, s) THEN 1 ELSE 0
Other(d) == IF d = "timer" THEN "hand" ELSE "timer"
Saving == \E d \in Healers : pc[d] = "save"

\* The copy of d may miss what is lost, and what the other run still does.  The
\* file may in addition miss the restart of one run that has yet to save.
CopyCounts(d, s) == returned[s] + Due(Other(d), s) <= slips + overlaps + mem[d].count[s]
Ahead(s) == IF Pending("timer", s) \/ Pending("hand", s) \/ Saving THEN 1 ELSE 0
FileCounts(s) ==
    returned[s] + Due("timer", s) + Due("hand", s) <= slips + overlaps + file.count[s] + Ahead(s)
Counting ==
    \A s \in Services : FileCounts(s) /\ \A d \in Healers : pc[d] # "idle" => CopyCounts(d, s)

\* A recovery whose stamp is known is in the file and in every copy.
Stamping ==
    ran.known => /\ file.recovered <= ran.age
                 /\ \A d \in Healers : pc[d] # "idle" => mem[d].recovered <= ran.age

\* An alert that the file remembers is in the file and in every copy, one that
\* its run still has to save is in the copy of that run.
Key(s) == <<s, told[s].about>>
Alerted(s) ==
    /\ told[s].by = "file" => file.paged[Key(s)] <= told[s].age
    /\ \A d \in Healers : pc[d] # "idle" /\ told[s].by \in {"file", d} =>
                             mem[d].paged[Key(s)] <= told[s].age
Alerting == \A s \in Services : told[s].about \in Messages => Alerted(s)

WatchInv == Types /\ Places /\ Counting /\ Stamping /\ Alerting

-----------------------------------------------------------------------------
(* Ages and records.                                                       *)

\* Ages grow together, up to MaxAge, and are never 0 afterwards.
LEMMA OlderFacts ==
    /\ \A a \in Ages : Older(a) \in Ages /\ Older(a) # 0
    /\ \A a, b \in Ages : a <= b => Older(a) <= Older(b)
BY WatchdogAssumption DEF Ages, Older

\* The types of the fields of a state record.
LEMMA RecordFacts ==
    ASSUME NEW m \in Records
    PROVE  /\ m.count \in [Services -> 0 .. MaxRestarts] /\ m.restarted \in [Services -> Ages]
           /\ m.paged \in [Services \X Messages -> Ages] /\ m.recovered \in Ages
BY DEF Records

\* The state of a fresh installation.
LEMMA BlankFacts == Blank \in Records
<1>1. 0 \in 0 .. MaxRestarts /\ MaxAge \in Ages
  BY WatchdogAssumption DEF Ages
<1> QED
  BY <1>1 DEF Blank, Records

\* Loading drops the counters whose restart entry has expired, and nothing else.
LEMMA LoadedFacts ==
    ASSUME NEW m \in Records
    PROVE  /\ Loaded(m) \in Records /\ Loaded(m).paged = m.paged /\ Loaded(m).recovered = m.recovered
           /\ \A s \in Services : Loaded(m).count[s] = IF m.restarted[s] = MaxAge THEN 0 ELSE m.count[s]
<1>1. [s \in Services |-> IF m.restarted[s] = MaxAge THEN 0 ELSE m.count[s]]
        \in [Services -> 0 .. MaxRestarts]
  BY WatchdogAssumption, RecordFacts
<1> QED
  BY <1>1 DEF Loaded, Records

\* Time makes entries older and leaves the counters alone.
LEMMA AgedFacts ==
    ASSUME NEW m \in Records
    PROVE  /\ Aged(m) \in Records /\ Aged(m).count = m.count /\ Aged(m).recovered = Older(m.recovered)
           /\ \A k \in Services \X Messages : Aged(m).paged[k] = Older(m.paged[k])
<1> DEFINE R == [s \in Services |-> Older(m.restarted[s])]
           P == [k \in Services \X Messages |-> Older(m.paged[k])]
<1>1. R \in [Services -> Ages] /\ P \in [Services \X Messages -> Ages] /\ Older(m.recovered) \in Ages
  BY OlderFacts, RecordFacts
<1>2. Aged(m) = [m EXCEPT !.restarted = R, !.paged = P, !.recovered = Older(m.recovered)]
  BY DEF Aged, Records
<1>3. \A k \in Services \X Messages : P[k] = Older(m.paged[k])
  OBVIOUS
<1> HIDE DEF R, P
<1> QED
  BY <1>1, <1>2, <1>3 DEF Records

\* The types of the file, of the copies and of the counts, as the leaves below
\* need them.
LEMMA StateFacts ==
    ASSUME WatchInv
    PROVE  /\ file \in Records /\ mem \in [Dogs -> Records]
           /\ slips \in Nat /\ overlaps \in Nat
           /\ \A s \in Services : file.count[s] \in 0 .. MaxRestarts /\ returned[s] \in Nat
           /\ \A d \in Dogs : mem[d] \in Records
           /\ \A d \in Dogs : \A s \in Services : mem[d].count[s] \in 0 .. MaxRestarts
           /\ \A s \in Services : file.count[s] \in Nat /\ \A d \in Dogs : mem[d].count[s] \in Nat
<1>1. /\ file \in Records /\ mem \in [Dogs -> Records] /\ returned \in [Services -> Nat]
      /\ slips \in Nat /\ overlaps \in Nat
  BY DEF WatchInv, Types, TypeOK
<1>2. file.count \in [Services -> 0 .. MaxRestarts]
  BY <1>1, RecordFacts
<1>3. \A d \in Dogs : mem[d] \in Records /\ mem[d].count \in [Services -> 0 .. MaxRestarts]
  BY <1>1, RecordFacts
<1>4. 0 .. MaxRestarts \subseteq Nat
  BY WatchdogAssumption
<1> QED
  BY <1>1, <1>2, <1>3, <1>4

\* Runs of `watchdog heal' are not webhook jobs, and there is one other at most.
LEMMA HealerFacts ==
    /\ Healers \subseteq Dogs /\ "webhook" \notin Healers /\ "webhook" \in Dogs
    /\ "file" \notin Healers /\ "lost" \notin Healers
    /\ \A d \in Healers : d \in {"timer", "hand"} /\ Other(d) # d
    /\ \A d, e \in Healers : d # e => e = Other(d) /\ d = Other(e)
    /\ \A d \in Dogs : d \in Healers \/ d = "webhook"
BY WatchdogAssumption DEF Dogs, Other

\* No message about an issue is taken for its absence.
LEMMA NoIssueFacts == NoIssue \notin Messages /\ NoIssue.text \in Texts
<1>1. NoIssue.state = "healthy" /\ "healthy" \notin Bad
  BY WatchdogAssumption DEF NoIssue
<1>2. NoIssue \notin Messages
  BY <1>1 DEF Messages
<1>3. (CHOOSE t \in Texts : TRUE) \in Texts
  BY WatchdogAssumption
<1> QED
  BY <1>2, <1>3 DEF NoIssue

\* What the scan reports is a message or nothing.
LEMMA ScanFacts ==
    ASSUME WatchInv, NEW S \in SUBSET {s \in Services : health[s] \in Bad}
    PROVE  [s \in Services |-> IF s \in S THEN [state |-> health[s], text |-> text[s]] ELSE NoIssue]
             \in Reports
<1>1. \A s \in S : [state |-> health[s], text |-> text[s]] \in Messages
  BY DEF WatchInv, Types, TypeOK, Messages
<1> QED
  BY <1>1 DEF Reports

-----------------------------------------------------------------------------
(* What steps have in common.                                              *)

\* A copy knows as much as before when nothing was restarted and no run has more
\* to do than before.
LEMMA KeepCopies ==
    ASSUME WatchInv, slips' \in Nat, overlaps' \in Nat, slips' >= slips, overlaps' >= overlaps,
           NEW s \in Services, returned'[s] = returned[s],
           \A d \in Healers : Pending(d, s)' => Pending(d, s),
           \A d \in Healers : pc'[d] # "idle" => pc[d] # "idle" /\ mem'[d].count[s] = mem[d].count[s]
    PROVE  \A d \in Healers : pc'[d] # "idle" => CopyCounts(d, s)'
<1> SUFFICES ASSUME NEW d \in Healers, pc'[d] # "idle" PROVE CopyCounts(d, s)'
  OBVIOUS
<1>1. slips \in Nat /\ overlaps \in Nat /\ returned[s] \in Nat /\ mem[d].count[s] \in Nat
  BY StateFacts, HealerFacts
<1>2. \A e : Pending(e, s)' => Pending(e, s)
  BY DEF Pending
<1>3. returned[s] + Due(Other(d), s) <= slips + overlaps + mem[d].count[s]
  BY DEF WatchInv, Counting, CopyCounts
<1>4. Due(Other(d), s)' <= Due(Other(d), s) /\ Due(Other(d), s) \in Nat /\ Due(Other(d), s)' \in Nat
  BY <1>2 DEF Due
<1>5. returned[s] + Due(Other(d), s)' <= slips' + overlaps' + mem[d].count[s]
  BY <1>1, <1>3, <1>4
<1>6. Other(d)' = Other(d) /\ mem'[d].count[s] = mem[d].count[s]
  OBVIOUS
<1> QED
  BY <1>5, <1>6 DEF CopyCounts

\* Nothing that is counted changed, unless a loss was: no run has more to do than
\* before, and a run that leaves a restart unsaved is a loss.
LEMMA KeepCounts ==
    ASSUME WatchInv, slips' \in Nat, overlaps' \in Nat, slips' >= slips, overlaps' >= overlaps,
           NEW s \in Services, returned'[s] = returned[s], file'.count[s] = file.count[s],
           \A d \in Healers : Pending(d, s)' => Pending(d, s),
           \A d \in Healers : pc'[d] # "idle" => pc[d] # "idle" /\ mem'[d].count[s] = mem[d].count[s],
           \A d \in Healers : pc[d] = "save" => pc'[d] = "save" \/ slips' >= slips + 1
    PROVE  FileCounts(s)' /\ \A d \in Healers : pc'[d] # "idle" => CopyCounts(d, s)'
<1>1. /\ slips \in Nat /\ overlaps \in Nat /\ file.count[s] \in Nat /\ returned[s] \in Nat
      /\ \A d \in Healers : mem[d].count[s] \in Nat
  BY StateFacts, HealerFacts, WatchdogAssumption
<1>2. \A d : Pending(d, s)' => Pending(d, s)
  BY DEF Pending
<1>3. Saving => Saving' \/ slips' >= slips + 1
  BY DEF Saving
<1>4. returned[s] + Due("timer", s) + Due("hand", s) <= slips + overlaps + file.count[s] + Ahead(s)
  BY DEF WatchInv, Counting, FileCounts
<1> DEFINE pt == Pending("timer", s)  ph == Pending("hand", s)
           qt == Pending("timer", s)'  qh == Pending("hand", s)'
           sv == Saving   sw == Saving'
<1>5. /\ Due("timer", s) = (IF pt THEN 1 ELSE 0) /\ Due("hand", s) = (IF ph THEN 1 ELSE 0)
      /\ Ahead(s) = (IF pt \/ ph \/ sv THEN 1 ELSE 0)
      /\ Due("timer", s)' = (IF qt THEN 1 ELSE 0) /\ Due("hand", s)' = (IF qh THEN 1 ELSE 0)
      /\ Ahead(s)' = (IF qt \/ qh \/ sw THEN 1 ELSE 0)
  BY DEF Due, Ahead
<1>6. (qt => pt) /\ (qh => ph) /\ (sv => sw \/ slips' >= slips + 1)
  BY <1>2, <1>3
<1> HIDE DEF pt, ph, qt, qh, sv, sw
<1>7. FileCounts(s)'
  <2>1. returned[s] + Due("timer", s)' + Due("hand", s)'
          <= slips' + overlaps' + file.count[s] + Ahead(s)'
    BY <1>1, <1>4, <1>5, <1>6
  <2> QED
    BY <2>1 DEF FileCounts
<1> QED
  BY <1>7, KeepCopies

\* The copy of run c goes to the file.
LEMMA WriteCounts ==
    ASSUME WatchInv, slips' \in Nat, overlaps' \in Nat, slips' >= slips, overlaps' >= overlaps,
           NEW c \in Healers, pc[c] # "idle",
           NEW s \in Services, returned'[s] = returned[s], file'.count[s] = mem[c].count[s],
           \A d \in Healers : Pending(d, s)' => Pending(d, s)
    PROVE  FileCounts(s)'
<1>1. /\ slips \in Nat /\ overlaps \in Nat /\ returned[s] \in Nat /\ mem[c].count[s] \in Nat
  BY StateFacts, HealerFacts, WatchdogAssumption
<1>2. returned[s] + Due(Other(c), s) <= slips + overlaps + mem[c].count[s]
  BY DEF WatchInv, Counting, CopyCounts
<1>3. \A d : Pending(d, s)' => Pending(d, s)
  BY DEF Pending
<1> DEFINE pt == Pending("timer", s)  ph == Pending("hand", s)
           qt == Pending("timer", s)'  qh == Pending("hand", s)'  sw == Saving'
<1>4. /\ Due("timer", s) = (IF pt THEN 1 ELSE 0) /\ Due("hand", s) = (IF ph THEN 1 ELSE 0)
      /\ Due("timer", s)' = (IF qt THEN 1 ELSE 0) /\ Due("hand", s)' = (IF qh THEN 1 ELSE 0)
      /\ Ahead(s)' = (IF qt \/ qh \/ sw THEN 1 ELSE 0)
  BY DEF Due, Ahead
<1>5. (qt => pt) /\ (qh => ph)
  BY <1>3
<1> HIDE DEF pt, ph, qt, qh, sw
<1>6. Other(c) \in {"timer", "hand"}
  BY DEF Other
<1>7. returned[s] + Due("timer", s)' + Due("hand", s)'
        <= slips' + overlaps' + mem[c].count[s] + Ahead(s)'
  BY <1>1, <1>2, <1>4, <1>5, <1>6
<1> QED
  BY <1>7 DEF FileCounts

\* Nothing happened that had to be remembered, and nothing was forgotten.
LEMMA Unmoved ==
    ASSUME WatchInv, UNCHANGED <<file, returned, ran, told, slips, overlaps>>,
           \A d \in Healers : pc'[d] # "idle" => pc[d] # "idle" /\ mem'[d] = mem[d],
           \A d \in Healers : pc[d] = "save" => pc'[d] = "save",
           \A d \in Healers : \A s \in Services : Pending(d, s)' => Pending(d, s)
    PROVE  Counting' /\ Stamping' /\ Alerting'
<1>1. Counting'
  <2>1. ASSUME NEW s \in Services
        PROVE  FileCounts(s)' /\ \A d \in Healers : pc'[d] # "idle" => CopyCounts(d, s)'
    <3>1. slips \in Nat /\ overlaps \in Nat /\ slips' >= slips /\ overlaps' >= overlaps
      BY StateFacts
    <3>2. returned'[s] = returned[s] /\ file'.count[s] = file.count[s]
      OBVIOUS
    <3> QED
      BY <3>1, <3>2, KeepCounts
  <2> QED
    BY <2>1 DEF Counting
<1>2. Stamping'
  BY DEF WatchInv, Stamping
<1>3. Alerting'
  BY DEF WatchInv, Alerting, Alerted, Key
<1> QED
  BY <1>1, <1>2, <1>3

\* The process of d is gone.
LEMMA ExitFacts ==
    ASSUME WatchInv, NEW d \in Dogs, Exit(d)
    PROVE  /\ pc' = [pc EXCEPT ![d] = "idle"] /\ pc'[d] = "idle" /\ \A e \in Dogs \ {d} : pc'[e] = pc[e]
           /\ \A e \in Dogs \ {d} : mem'[e] = mem[e] /\ todo'[e] = todo[e]
           /\ mem' \in [Dogs -> Records] /\ report' \in [Dogs -> Reports]
           /\ todo' \in [Dogs -> SUBSET Services] /\ spent' \in [Dogs -> SUBSET Safe]
<1>1. [s \in Services |-> NoIssue] \in Reports
  BY DEF Reports
<1> QED
  BY <1>1, BlankFacts DEF Exit, Goto, WatchInv, Types, TypeOK

-----------------------------------------------------------------------------
(* One lemma for each action.                                              *)

\* Only runs of `watchdog heal' get beyond the gate.
LEMMA HealersHeal ==
    ASSUME WatchInv, NEW d \in Dogs, pc[d] \in {"heal", "save", "recover", "reset"}
    PROVE  d \in Healers
BY HealerFacts DEF WatchInv, Places

\* A run starts with what the file says; a counter that is a day old is
\* dropped, and so are the restarts it stood for.
LEMMA StartStep == ASSUME WatchInv, NEW d \in Healers, Start(d) PROVE WatchInv'
<1>1. /\ pc[d] = "idle" /\ pc' = [pc EXCEPT ![d] = "check"]
      /\ mem' = [mem EXCEPT ![d] = Loaded(file)]
      /\ UNCHANGED <<health, text, boundary, file, report, todo, spent, verdict, ran, told, slips>>
      /\ returned' = [s \in Services |-> IF file.count[s] > 0 /\ file.restarted[s] = MaxAge
                                         THEN 0 ELSE returned[s]]
      /\ overlaps' = IF Alone(d) THEN overlaps ELSE overlaps + 1
  BY DEF Start, Goto, World
<1>2. file \in Records /\ mem \in [Dogs -> Records] /\ d \in Dogs /\ d # "webhook" /\ overlaps \in Nat
  BY StateFacts, HealerFacts
<1>3. /\ Loaded(file) \in Records /\ Loaded(file).paged = file.paged
      /\ Loaded(file).recovered = file.recovered
      /\ \A s \in Services : Loaded(file).count[s] = IF file.restarted[s] = MaxAge THEN 0 ELSE file.count[s]
  BY <1>2, LoadedFacts
<1>4. /\ mem'[d] = Loaded(file) /\ mem' \in [Dogs -> Records] /\ pc'[d] = "check"
      /\ \A e \in Dogs \ {d} : mem'[e] = mem[e] /\ pc'[e] = pc[e]
      /\ pc'["webhook"] = pc["webhook"]
  BY <1>1, <1>2, <1>3, HealerFacts DEF WatchInv, Types, TypeOK
<1>5. Types'
  <2>1. returned' \in [Services -> Nat] /\ overlaps' \in Nat
    BY <1>1, <1>2 DEF WatchInv, Types
  <2> QED
    BY <1>1, <1>4, <2>1 DEF WatchInv, Types, TypeOK
<1>6. Places'
  <2>1. \A s \in Services : told[s].by \in Healers => told[s].by # d /\ pc'[told[s].by] = "sent"
    BY <1>1, <1>4, HealerFacts DEF WatchInv, Places
  <2>2. \A e \in Healers : pc'[e] \in {"heal", "save"} => todo'[e] \subseteq Safe
    BY <1>1, <1>4, HealerFacts DEF WatchInv, Places
  <2>3. ASSUME NEW e \in Healers, NEW f \in Healers \ {e}, pc'[e] # "idle", pc'[f] # "idle"
        PROVE  overlaps' >= 1
    <3>1. CASE d \in {e, f}
      <4>1. ~Alone(d)
        BY <1>4, <2>3, <3>1, HealerFacts DEF Alone
      <4> QED
        BY <1>1, <1>2, <4>1
    <3>2. CASE d \notin {e, f}
      BY <1>1, <1>2, <1>4, <2>3, <3>2, HealerFacts DEF WatchInv, Places
    <3> QED
      BY <3>1, <3>2
  <2> QED
    BY <1>1, <1>4, <2>1, <2>2, <2>3 DEF WatchInv, Places
<1>7. ASSUME NEW s \in Services
      PROVE  FileCounts(s)' /\ \A e \in Healers : pc'[e] # "idle" => CopyCounts(e, s)'
  <2> DEFINE o == Other(d)
             busy == o \in Healers /\ pc[o] # "idle"
             po == Pending(o, s)
  <2>1. /\ slips \in Nat /\ slips' = slips /\ overlaps \in Nat /\ overlaps' = (IF busy THEN overlaps + 1 ELSE overlaps)
        /\ file.count[s] \in Nat /\ returned[s] \in Nat /\ file' = file
        /\ o \in Healers => mem[o].count[s] \in Nat
    <3>1. overlaps' = (IF busy THEN overlaps + 1 ELSE overlaps)
      <4>1. CASE busy
        <5>1. ~Alone(d)
          BY <4>1, HealerFacts DEF Alone
        <5> QED
          BY <1>1, <4>1, <5>1
      <4>2. CASE ~busy
        <5>1. Alone(d)
          BY <4>2, HealerFacts DEF Alone
        <5> QED
          BY <1>1, <4>2, <5>1
      <4> QED
        BY <4>1, <4>2
    <3>2. o \in Healers => o \in Dogs
      BY HealerFacts
    <3> HIDE DEF busy, o
    <3> QED
      BY <1>1, <3>1, <3>2, StateFacts
  <2>2. /\ returned'[s] = (IF file.count[s] > 0 /\ file.restarted[s] = MaxAge THEN 0 ELSE returned[s])
        /\ mem'[d].count[s] = IF file.restarted[s] = MaxAge THEN 0 ELSE file.count[s]
    BY <1>1, <1>3, <1>4
  <2>3. (busy => overlaps >= 0) /\ (po => busy)
    BY <2>1 DEF Pending
  <2>4. /\ Pending(d, s)' /\ ~Pending(d, s) /\ (Pending(o, s)' <=> po)
    BY <1>1, <1>4, HealerFacts DEF Pending
  <2>5. {d, o} = {"timer", "hand"} /\ d # o
    BY HealerFacts DEF Other
  <2>6. /\ Due(d, s) = 0 /\ Due(d, s)' = 1 /\ Due(o, s) = (IF po THEN 1 ELSE 0)
        /\ Due(o, s)' = (IF po THEN 1 ELSE 0)
        /\ Ahead(s)' = 1 /\ Ahead(s) = (IF po \/ Saving THEN 1 ELSE 0)
    BY <2>4, <2>5 DEF Due, Ahead
  <2>7. /\ returned[s] + Due(d, s) + Due(o, s) <= slips + overlaps + file.count[s] + Ahead(s)
    <3>1. returned[s] + Due("timer", s) + Due("hand", s) <= slips + overlaps + file.count[s] + Ahead(s)
      BY DEF WatchInv, Counting, FileCounts
    <3> QED
      BY <2>1, <2>5, <2>6, <3>1 DEF Due
  <2>8. Saving => busy
    BY <1>1, HealerFacts DEF Saving
  <2> HIDE DEF busy, po
  <2>9. /\ returned'[s] + Due(d, s)' + Due(o, s)' <= slips' + overlaps' + file.count[s] + Ahead(s)'
        /\ returned'[s] + Due(o, s)' <= slips' + overlaps' + mem'[d].count[s]
    BY <2>1, <2>2, <2>3, <2>6, <2>7, <2>8
  <2>10. FileCounts(s)'
    <3>1. returned'[s] + Due("timer", s)' + Due("hand", s)' <= slips' + overlaps' + file.count[s] + Ahead(s)'
      BY <2>1, <2>2, <2>5, <2>6, <2>9 DEF Due
    <3> QED
      BY <2>1, <3>1 DEF FileCounts
  <2>11. CopyCounts(d, s)'
    <3>1. Other(d)' = o
      OBVIOUS
    <3> QED
      BY <2>9, <3>1 DEF CopyCounts
  <2>12. ASSUME o \in Healers, pc'[o] # "idle" PROVE CopyCounts(o, s)'
    <3>1. pc[o] # "idle" /\ mem'[o] = mem[o] /\ Other(o) = d /\ o # d
      BY <1>4, <2>12, HealerFacts
    <3>2. busy /\ returned[s] + Due(d, s) <= slips + overlaps + mem[o].count[s]
      BY <2>12, <3>1 DEF WatchInv, Counting, CopyCounts, busy
    <3>3. returned'[s] + Due(d, s)' <= slips' + overlaps' + mem'[o].count[s]
      BY <2>1, <2>2, <2>6, <2>12, <3>1, <3>2
    <3>4. Other(o)' = d
      BY <3>1
    <3> QED
      BY <3>3, <3>4 DEF CopyCounts
  <2> QED
    BY <2>10, <2>11, <2>12, HealerFacts
<1>8. Stamping'
  BY <1>1, <1>3, <1>4, HealerFacts DEF WatchInv, Stamping
<1>9. Alerting'
  <2>1. ASSUME NEW s \in Services, told'[s].about \in Messages PROVE Alerted(s)'
    <3>1. Alerted(s) /\ Key(s)' = Key(s) /\ told[s].by # d
      BY <1>1, <2>1 DEF WatchInv, Alerting, Key, Places
    <3> QED
      BY <1>1, <1>3, <1>4, <3>1, HealerFacts DEF Alerted
  <2> QED
    BY <2>1 DEF Alerting
<1> QED
  BY <1>5, <1>6, <1>7, <1>8, <1>9 DEF WatchInv, Counting

\* A webhook job begins and takes the boundary.
LEMMA WebhookStartStep == WatchInv /\ WebhookStart => WatchInv'
<1> SUFFICES ASSUME WatchInv, WebhookStart PROVE WatchInv'
  OBVIOUS
<1>1. /\ pc["webhook"] = "idle" /\ pc' = [pc EXCEPT !["webhook"] = "check"] /\ boundary' = "webhook"
      /\ mem' = [mem EXCEPT !["webhook"] = Loaded(file)]
      /\ UNCHANGED <<health, text, file, report, todo, spent, verdict, returned, ran, told, slips, overlaps>>
  BY DEF WebhookStart, Goto, Ghosts
<1>2. mem' \in [Dogs -> Records] /\ \A d \in Healers : mem'[d] = mem[d]
  BY <1>1, StateFacts, LoadedFacts, HealerFacts
<1>3. pc'["webhook"] = "check" /\ \A d \in Healers : pc'[d] = pc[d]
  BY <1>1, HealerFacts DEF WatchInv, Types, TypeOK
<1>4. Types' /\ Places'
  BY <1>1, <1>2, <1>3 DEF WatchInv, Types, TypeOK, Places
<1>5. \A d \in Healers : \A s \in Services : Pending(d, s)' => Pending(d, s)
  BY <1>1, <1>3 DEF Pending
<1> QED
  BY <1>1, <1>2, <1>3, <1>4, <1>5, Unmoved DEF WatchInv

\* The scan of all containers by a run of `watchdog heal'.
LEMMA FullCheckStep == ASSUME WatchInv, NEW d \in Healers, FullCheck(d) PROVE WatchInv'
<1> DEFINE bad == {s \in Services : health[s] \in Bad}
<1>1. /\ pc[d] = "check" /\ d \in Dogs /\ d # "webhook"
      /\ UNCHANGED <<health, text, boundary, file, verdict, returned, ran, told, slips, overlaps>>
  BY HealerFacts DEF FullCheck, World, Ghosts
<1>2. \A s \in Services : told[s].by # d
  BY <1>1 DEF WatchInv, Places
<1>3. CASE Exit(d)
  <2>1. /\ pc' = [pc EXCEPT ![d] = "idle"] /\ pc'[d] = "idle" /\ \A e \in Dogs \ {d} : pc'[e] = pc[e]
        /\ \A e \in Dogs \ {d} : mem'[e] = mem[e] /\ todo'[e] = todo[e]
        /\ mem' \in [Dogs -> Records] /\ report' \in [Dogs -> Reports]
        /\ todo' \in [Dogs -> SUBSET Services] /\ spent' \in [Dogs -> SUBSET Safe]
    BY <1>1, <1>3, ExitFacts
  <2>2. Types'
    BY <1>1, <2>1, HealerFacts DEF WatchInv, Types, TypeOK
  <2>3. Places'
    BY <1>1, <1>2, <2>1, HealerFacts DEF WatchInv, Places
  <2>4. \A e \in Healers : \A s \in Services : Pending(e, s)' => Pending(e, s)
    BY <2>1, HealerFacts DEF Pending
  <2>5. Counting' /\ Stamping' /\ Alerting'
    BY <1>1, <2>1, <2>4, Unmoved, HealerFacts
  <2> QED
    BY <2>2, <2>3, <2>5 DEF WatchInv
<1>4. CASE /\ report' = [report EXCEPT ![d] =
                             [s \in Services |-> IF s \in bad
                                                 THEN [state |-> health[s], text |-> text[s]]
                                                 ELSE NoIssue]]
           /\ Goto(d, "gate") \/ Goto(d, "tell")
           /\ UNCHANGED <<mem, todo, spent>>
  <2>1. report' \in [Dogs -> Reports]
    BY <1>1, <1>4, ScanFacts DEF WatchInv, Types
  <2>2. PICK l \in {"gate", "tell"} : pc' = [pc EXCEPT ![d] = l]
    BY <1>4 DEF Goto
  <2>3. pc'[d] = l /\ \A e \in Dogs \ {d} : pc'[e] = pc[e]
    BY <1>1, <2>2 DEF WatchInv, Types, TypeOK
  <2>4. Types'
    BY <1>1, <1>4, <2>1, <2>2, <2>3, HealerFacts DEF WatchInv, Types, TypeOK
  <2>5. Places'
    BY <1>1, <1>2, <1>4, <2>3, HealerFacts DEF WatchInv, Places
  <2>6. \A e \in Healers : \A s \in Services : Pending(e, s)' => Pending(e, s)
    BY <1>1, <1>4, <2>3, HealerFacts DEF Pending
  <2>7. Counting' /\ Stamping' /\ Alerting'
    BY <1>1, <1>4, <2>3, <2>6, Unmoved, HealerFacts
  <2> QED
    BY <2>4, <2>5, <2>7 DEF WatchInv
<1> QED
  BY <1>3, <1>4 DEF FullCheck

\* The check of one container by the webhook job.
LEMMA WebhookCheckStep == ASSUME WatchInv, NEW s \in Services, WebhookCheck(s) PROVE WatchInv'
<1> DEFINE S == IF health[s] \in Bad THEN {s} ELSE {}
<1>1. /\ pc["webhook"] = "check"
      /\ UNCHANGED <<health, text, boundary, file, mem, todo, spent, returned, ran, told, slips, overlaps>>
      /\ verdict' \in {"none", "skipped"}
      /\ report' = [report EXCEPT !["webhook"] =
                      [i \in Services |-> IF i = s /\ health[s] \in Bad
                                          THEN [state |-> health[s], text |-> text[s]] ELSE NoIssue]]
  BY DEF WebhookCheck, World, Ghosts
<1>2. PICK l \in {"gate", "release"} : pc' = [pc EXCEPT !["webhook"] = l]
  BY DEF WebhookCheck, Goto
<1>3. pc'["webhook"] = l /\ \A d \in Healers : pc'[d] = pc[d]
  BY <1>2, HealerFacts DEF WatchInv, Types, TypeOK
<1>4. report' \in [Dogs -> Reports]
  <2>1. [i \in Services |-> IF i \in S THEN [state |-> health[i], text |-> text[i]] ELSE NoIssue] \in Reports
    <3>1. S \in SUBSET {i \in Services : health[i] \in Bad}
      OBVIOUS
    <3> HIDE DEF S
    <3> QED
      BY <3>1, ScanFacts
  <2>2. [i \in Services |-> IF i = s /\ health[s] \in Bad
                            THEN [state |-> health[s], text |-> text[s]] ELSE NoIssue]
        = [i \in Services |-> IF i \in S THEN [state |-> health[i], text |-> text[i]] ELSE NoIssue]
    OBVIOUS
  <2> QED
    BY <1>1, <2>1, <2>2 DEF WatchInv, Types, Dogs
<1>5. Types' /\ Places'
  BY <1>1, <1>2, <1>3, <1>4 DEF WatchInv, Types, TypeOK, Places
<1>6. \A d \in Healers : \A i \in Services : Pending(d, i)' => Pending(d, i)
  BY <1>1, <1>3 DEF Pending
<1> QED
  BY <1>1, <1>3, <1>5, <1>6, Unmoved DEF WatchInv

\* The gate: the webhook job finds the boundary taken, by itself.
LEMMA HealGateStep == ASSUME WatchInv, NEW d \in Dogs, HealGate(d) PROVE WatchInv'
<1>1. /\ pc[d] = "gate"
      /\ UNCHANGED <<health, text, boundary, file, mem, report, spent, returned, ran, told, slips, overlaps>>
  BY DEF HealGate, World, Ghosts
<1>2. CASE d \in Healers
  <2>1. PICK l \in {"heal", "tell"} : pc' = [pc EXCEPT ![d] = l]
    BY <1>2, HealerFacts DEF HealGate, Goto
  <2>2. pc'[d] = l /\ \A e \in Dogs \ {d} : pc'[e] = pc[e]
    BY <2>1 DEF WatchInv, Types, TypeOK
  <2>3. /\ verdict' = verdict /\ todo' \in [Dogs -> SUBSET Services]
        /\ l = "heal" => todo'[d] \subseteq Safe
        /\ \A e \in Dogs \ {d} : todo'[e] = todo[e]
    <3>1. Fixable(d) \in SUBSET Services /\ Fixable(d) \subseteq Safe
      BY DEF Fixable, Issues
    <3>2. CASE boundary = "free"
      BY <3>1, <3>2 DEF HealGate, WatchInv, Types, TypeOK
    <3>3. CASE boundary # "free"
      <4>1. pc' = [pc EXCEPT ![d] = "tell"] /\ UNCHANGED todo /\ verdict' = verdict
        BY <1>2, <3>3, HealerFacts DEF HealGate, Goto
      <4>2. pc'[d] = "tell"
        BY <4>1 DEF WatchInv, Types, TypeOK
      <4> QED
        BY <2>2, <4>1, <4>2 DEF WatchInv, Types, TypeOK
    <3> QED
      BY <3>2, <3>3
  <2>4. Types'
    BY <1>1, <1>2, <2>1, <2>2, <2>3, HealerFacts DEF WatchInv, Types, TypeOK
  <2>5. Places'
    BY <1>1, <1>2, <2>2, <2>3, HealerFacts DEF WatchInv, Places
  <2>6. \A e \in Healers : \A s \in Services : Pending(e, s)' => Pending(e, s)
    BY <1>1, <1>2, <2>2, <2>3, HealerFacts DEF Pending
  <2>7. Counting' /\ Stamping' /\ Alerting'
    BY <1>1, <1>2, <2>2, <2>6, Unmoved, HealerFacts
  <2> QED
    BY <2>4, <2>5, <2>7 DEF WatchInv
<1>3. CASE d = "webhook"
  <2>1. boundary = "webhook"
    BY <1>1, <1>3 DEF WatchInv, Types, TypeOK
  <2>2. pc' = [pc EXCEPT !["webhook"] = "release"] /\ verdict' = "deferred" /\ todo' = todo
    BY <1>3, <2>1 DEF HealGate, Goto
  <2>3. pc'["webhook"] = "release" /\ \A e \in Healers : pc'[e] = pc[e]
    BY <2>2, HealerFacts DEF WatchInv, Types, TypeOK
  <2>4. Types' /\ Places'
    BY <1>1, <1>3, <2>2, <2>3 DEF WatchInv, Types, TypeOK, Places
  <2>5. \A e \in Healers : \A s \in Services : Pending(e, s)' => Pending(e, s)
    BY <2>2, <2>3 DEF Pending
  <2>6. Counting' /\ Stamping' /\ Alerting'
    BY <1>1, <2>3, <2>5, Unmoved
  <2> QED
    BY <2>4, <2>6 DEF WatchInv
<1> QED
  BY <1>2, <1>3, HealerFacts

\* A run goes on within its loop with less to do: nothing else happens that
\* counts.
LEMMA LoopStep ==
    ASSUME WatchInv, NEW d \in Healers, NEW s \in Services, pc[d] = "heal",
           todo' = [todo EXCEPT ![d] = todo[d] \ {s}], health' \in [Services -> {"healthy"} \cup Bad],
           spent' \in [Dogs -> SUBSET Safe],
           UNCHANGED <<text, boundary, file, mem, pc, report, verdict, returned, ran, told, slips, overlaps>>
    PROVE  WatchInv'
<1>1. /\ d \in Dogs /\ todo' \in [Dogs -> SUBSET Services] /\ todo'[d] = todo[d] \ {s}
      /\ \A e \in Dogs \ {d} : todo'[e] = todo[e]
  BY HealerFacts DEF WatchInv, Types, TypeOK
<1>2. Types'
  BY <1>1 DEF WatchInv, Types, TypeOK
<1>3. Places'
  BY <1>1, HealerFacts DEF WatchInv, Places
<1>4. \A e \in Healers : \A i \in Services : Pending(e, i)' => Pending(e, i)
  BY <1>1, HealerFacts DEF Pending
<1>5. Counting' /\ Stamping' /\ Alerting'
  BY <1>4, Unmoved
<1> QED
  BY <1>2, <1>3, <1>5 DEF WatchInv

\* An issue is passed over: its budget is spent, or it is in backoff.
LEMMA SkipStep == ASSUME WatchInv, NEW d \in Dogs, NEW s \in Services, Skip(d, s) PROVE WatchInv'
<1>1. /\ pc[d] = "heal" /\ s \in todo[d] /\ todo' = [todo EXCEPT ![d] = todo[d] \ {s}]
      /\ spent' \in {spent, [spent EXCEPT ![d] = spent[d] \cup {s}]}
      /\ UNCHANGED <<health, text, boundary, file, mem, pc, report, verdict, returned, ran, told, slips, overlaps>>
  BY DEF Skip, World, Ghosts
<1>2. d \in Healers /\ s \in Safe
  BY <1>1, HealersHeal DEF WatchInv, Places
<1>3. spent' \in [Dogs -> SUBSET Safe] /\ health' \in [Services -> {"healthy"} \cup Bad]
  BY <1>1, <1>2 DEF WatchInv, Types, TypeOK
<1> QED
  BY <1>1, <1>2, <1>3, LoopStep

\* A restart that times out is not counted, by the code or by the property.
LEMMA RestartTimesOutStep ==
    ASSUME WatchInv, NEW d \in Dogs, NEW s \in Services, RestartTimesOut(d, s) PROVE WatchInv'
<1>1. /\ pc[d] = "heal" /\ todo' = [todo EXCEPT ![d] = todo[d] \ {s}]
      /\ UNCHANGED <<text, boundary, file, mem, pc, report, spent, verdict, returned, ran, told, slips, overlaps>>
  BY DEF RestartTimesOut, Ghosts
<1>2. health' \in [Services -> {"healthy"} \cup Bad] /\ spent' \in [Dogs -> SUBSET Safe] /\ d \in Healers
  BY <1>1, HealersHeal DEF RestartTimesOut, WatchInv, Types, TypeOK
<1> QED
  BY <1>1, <1>2, LoopStep

\* A restart is counted in the copy; it was due, and the file is behind until it
\* is saved.
LEMMA RestartStep == ASSUME WatchInv, NEW d \in Dogs, NEW s \in Services, Restart(d, s) PROVE WatchInv'
<1>1. /\ pc[d] = "heal" /\ s \in todo[d] /\ mem[d].count[s] < MaxRestarts
      /\ mem' = [mem EXCEPT ![d].count[s] = @ + 1, ![d].restarted[s] = 0]
      /\ returned' = [returned EXCEPT ![s] = returned[s] + 1]
      /\ pc' = [pc EXCEPT ![d] = "save"] /\ todo' = [todo EXCEPT ![d] = todo[d] \ {s}]
      /\ UNCHANGED <<text, boundary, file, report, spent, verdict, ran, told, slips, overlaps>>
  BY DEF Restart, Goto, WatchInv, Types
<1>2. d \in Healers /\ d # "webhook"
  BY <1>1, HealersHeal, HealerFacts
<1>3. health' \in [Services -> {"healthy"} \cup Bad]
  BY DEF Restart, WatchInv, Types, TypeOK
<1> DEFINE copy == mem[d]
           c == [copy.count EXCEPT ![s] = copy.count[s] + 1]
           a == [copy.restarted EXCEPT ![s] = 0]
           m == [copy EXCEPT !.count = c, !.restarted = a]
<1>4. /\ copy \in Records /\ mem \in [Dogs -> Records] /\ copy.count \in [Services -> 0 .. MaxRestarts]
      /\ copy.restarted \in [Services -> Ages]
  BY StateFacts, RecordFacts
<1>5. c \in [Services -> 0 .. MaxRestarts] /\ a \in [Services -> Ages]
  <2>1. copy.count[s] + 1 \in 0 .. MaxRestarts /\ 0 \in Ages
    BY <1>1, <1>4, WatchdogAssumption DEF Ages
  <2> QED
    BY <1>4, <2>1
<1>6. mem' = [mem EXCEPT ![d] = m]
  BY <1>1, <1>4 DEF Records
<1>7. \A i \in Services : c[i] = IF i = s THEN copy.count[i] + 1 ELSE copy.count[i]
  BY <1>4
<1> HIDE DEF c, a
<1>8. m \in Records /\ m.count = c /\ m.paged = copy.paged /\ m.recovered = copy.recovered
  BY <1>4, <1>5 DEF Records
<1> HIDE DEF m
<1>9. /\ mem'[d] = m /\ mem' \in [Dogs -> Records] /\ pc'[d] = "save" /\ todo'[d] = todo[d] \ {s}
      /\ \A e \in Dogs \ {d} : mem'[e] = mem[e] /\ pc'[e] = pc[e] /\ todo'[e] = todo[e]
      /\ todo' \in [Dogs -> SUBSET Services] /\ returned' \in [Services -> Nat]
  <2>1. /\ mem'[d] = m /\ mem' \in [Dogs -> Records] /\ \A e \in Dogs \ {d} : mem'[e] = mem[e]
    BY <1>4, <1>6, <1>8
  <2>2. returned[s] + 1 \in Nat /\ returned' \in [Services -> Nat]
    BY <1>1 DEF WatchInv, Types
  <2>3. /\ pc'[d] = "save" /\ \A e \in Dogs \ {d} : pc'[e] = pc[e] /\ todo'[e] = todo[e]
        /\ todo'[d] = todo[d] \ {s} /\ todo' \in [Dogs -> SUBSET Services]
    BY <1>1 DEF WatchInv, Types, TypeOK
  <2> QED
    BY <2>1, <2>2, <2>3
<1>10. Types'
  BY <1>1, <1>2, <1>3, <1>9, HealerFacts DEF WatchInv, Types, TypeOK
<1>11. Places'
  BY <1>1, <1>2, <1>9, HealerFacts DEF WatchInv, Places
<1>12. ASSUME NEW i \in Services
       PROVE  FileCounts(i)' /\ \A e \in Healers : pc'[e] # "idle" => CopyCounts(e, i)'
  <2> DEFINE o == Other(d)
             po == Pending(o, i)
             pd == Pending(d, i)
             qd == Pending(d, i)'
  <2>1. /\ slips \in Nat /\ slips' = slips /\ overlaps \in Nat /\ overlaps' = overlaps /\ file' = file
        /\ file.count[i] \in Nat /\ returned[i] \in Nat /\ mem[d].count[i] \in Nat
        /\ o \in Healers => mem[o].count[i] \in Nat
    BY <1>1, StateFacts, HealerFacts, WatchdogAssumption
  <2>2. /\ returned'[i] = (IF i = s THEN returned[i] + 1 ELSE returned[i])
        /\ mem'[d].count[i] = (IF i = s THEN mem[d].count[i] + 1 ELSE mem[d].count[i])
    BY <1>1, <1>7, <1>8, <1>9 DEF WatchInv, Types
  <2>3. (i = s => pd /\ ~qd) /\ (qd => pd) /\ (Pending(o, i)' <=> po)
    BY <1>1, <1>2, <1>9, HealerFacts DEF Pending
  <2>4. {d, o} = {"timer", "hand"} /\ d # o
    BY <1>2, HealerFacts DEF Other
  <2>5. Saving'
    BY <1>2, <1>9 DEF Saving
  <2>6. /\ Due(d, i) = (IF pd THEN 1 ELSE 0) /\ Due(d, i)' = (IF qd THEN 1 ELSE 0)
        /\ Due(o, i) = (IF po THEN 1 ELSE 0) /\ Due(o, i)' = (IF po THEN 1 ELSE 0)
        /\ Ahead(i)' = 1 /\ Ahead(i) \in {0, 1}
    BY <2>3, <2>4, <2>5 DEF Due, Ahead
  <2>7. returned[i] + Due("timer", i) + Due("hand", i) <= slips + overlaps + file.count[i] + Ahead(i)
    BY DEF WatchInv, Counting, FileCounts
  <2>8. Due(d, i) + Due(o, i) = Due("timer", i) + Due("hand", i)
    BY <2>4, <2>6 DEF Due
  <2>9. Due(d, i)' + Due(o, i)' = Due("timer", i)' + Due("hand", i)'
    BY <2>4, <2>6 DEF Due
  <2> HIDE DEF po, pd, qd
  <2>10. FileCounts(i)'
    <3>1. /\ Due("timer", i) \in {0, 1} /\ Due("hand", i) \in {0, 1}
          /\ Due("timer", i)' \in {0, 1} /\ Due("hand", i)' \in {0, 1}
      BY DEF Due
    <3>2. returned[i] + Due(d, i) + Due(o, i) <= slips + overlaps + file.count[i] + 1
      <4>1. Due(d, i) \in Nat /\ Due(o, i) \in Nat /\ Due("timer", i) \in Nat /\ Due("hand", i) \in Nat
        BY <2>6, <3>1
      <4> HIDE DEF o
      <4> QED
        BY <2>1, <2>6, <2>7, <2>8, <4>1
    <3>3. returned'[i] + Due(d, i)' + Due(o, i)' <= slips + overlaps + file.count[i] + 1
      <4>1. CASE i = s
        BY <2>1, <2>2, <2>3, <2>6, <3>2, <4>1
      <4>2. CASE i # s
        BY <2>1, <2>2, <2>3, <2>6, <3>2, <4>2
      <4> QED
        BY <4>1, <4>2
    <3>4. returned'[i] + Due("timer", i)' + Due("hand", i)' <= slips + overlaps + file.count[i] + 1
      BY <2>1, <2>2, <2>6, <2>9, <3>1, <3>3
    <3> QED
      BY <2>1, <2>6, <3>4 DEF FileCounts
  <2>11. CopyCounts(d, i)'
    <3>1. returned[i] + Due(o, i) <= slips + overlaps + mem[d].count[i]
      BY <1>1, <1>2 DEF WatchInv, Counting, CopyCounts
    <3>2. returned'[i] + Due(o, i)' <= slips' + overlaps' + mem'[d].count[i] /\ Other(d)' = o
      BY <2>1, <2>2, <2>6, <3>1
    <3> QED
      BY <3>2 DEF CopyCounts
  <2>12. ASSUME o \in Healers, pc'[o] # "idle" PROVE CopyCounts(o, i)'
    <3>1. pc[o] # "idle" /\ mem'[o] = mem[o] /\ Other(o) = d
      BY <1>2, <1>9, <2>4, <2>12, HealerFacts
    <3>2. returned[i] + Due(d, i) <= slips + overlaps + mem[o].count[i]
      BY <2>12, <3>1 DEF WatchInv, Counting, CopyCounts
    <3>3. returned'[i] + Due(d, i)' <= slips' + overlaps' + mem'[o].count[i] /\ Other(o)' = d
      BY <2>1, <2>2, <2>3, <2>6, <2>12, <3>1, <3>2
    <3> QED
      BY <3>3 DEF CopyCounts
  <2> QED
    BY <1>2, <2>10, <2>11, <2>12, HealerFacts
<1>13. Stamping'
  BY <1>1, <1>2, <1>8, <1>9, HealerFacts DEF WatchInv, Stamping
<1>14. Alerting'
  BY <1>1, <1>2, <1>8, <1>9, HealerFacts DEF WatchInv, Alerting, Alerted, Key
<1> QED
  BY <1>10, <1>11, <1>12, <1>13, <1>14 DEF WatchInv, Counting

\* One of the two outcomes of a save.
LEMMA WriteFacts ==
    ASSUME WatchInv, NEW m \in Records, Write(m)
    PROVE  /\ slips' \in Nat /\ slips' >= slips /\ file' \in Records
           /\ \/ file' = m /\ slips' = slips
              \/ file' = file /\ slips' = slips + 1 /\ slips' # slips
BY StateFacts DEF Write

\* The copy is saved after each restart, or one more restart may be missing.
LEMMA SaveStep == ASSUME WatchInv, NEW d \in Dogs, Save(d) PROVE WatchInv'
<1>1. /\ pc[d] = "save" /\ pc' = [pc EXCEPT ![d] = "heal"] /\ Write(mem[d])
      /\ UNCHANGED <<health, text, boundary, mem, report, todo, spent, verdict, returned, ran, told, overlaps>>
  BY DEF Save, Goto, World
<1>2. d \in Healers /\ d # "webhook"
  BY <1>1, HealersHeal, HealerFacts
<1>3. /\ slips' \in Nat /\ slips' >= slips /\ file' \in Records
      /\ \/ file' = mem[d] /\ slips' = slips
         \/ file' = file /\ slips' = slips + 1 /\ slips' # slips
  BY <1>1, StateFacts, WriteFacts
<1>4. pc'[d] = "heal" /\ \A e \in Dogs \ {d} : pc'[e] = pc[e]
  BY <1>1 DEF WatchInv, Types, TypeOK
<1>5. Types'
  BY <1>1, <1>2, <1>3, <1>4, HealerFacts DEF WatchInv, Types, TypeOK
<1>6. Places'
  BY <1>1, <1>2, <1>4, HealerFacts DEF WatchInv, Places
<1>7. ASSUME NEW s \in Services
      PROVE  FileCounts(s)' /\ \A e \in Healers : pc'[e] # "idle" => CopyCounts(e, s)'
  <2>1. \A e \in Healers : Pending(e, s)' => Pending(e, s)
    BY <1>1, <1>2, <1>4, HealerFacts DEF Pending
  <2>2. overlaps' \in Nat /\ overlaps' >= overlaps /\ returned'[s] = returned[s]
    BY <1>1, StateFacts
  <2>3. \A e \in Healers : pc'[e] # "idle" => pc[e] # "idle" /\ mem'[e].count[s] = mem[e].count[s]
    BY <1>1, <1>4, HealerFacts
  <2>4. \A e \in Healers : pc'[e] # "idle" => CopyCounts(e, s)'
    BY <1>3, <2>1, <2>2, <2>3, KeepCopies
  <2>5. CASE file' = mem[d]
    BY <1>1, <1>2, <1>3, <2>1, <2>2, <2>4, <2>5, WriteCounts
  <2>6. CASE file' = file /\ slips' = slips + 1
    <3>1. slips' >= slips + 1
      BY <2>6, StateFacts
    <3> QED
      BY <1>3, <2>1, <2>2, <2>3, <2>6, <3>1, KeepCounts
  <2> QED
    BY <1>3, <2>5, <2>6
<1>8. Stamping'
  BY <1>1, <1>2, <1>3, <1>4, HealerFacts DEF WatchInv, Stamping
<1>9. Alerting'
  BY <1>1, <1>2, <1>3, <1>4, HealerFacts DEF WatchInv, Alerting, Alerted, Key
<1> QED
  BY <1>5, <1>6, <1>7, <1>8, <1>9 DEF WatchInv, Counting

\* The stamp of a recovery is in the file before its command starts, or the
\* recovery is marked as not known.
LEMMA DecideRecoverStep == ASSUME WatchInv, NEW d \in Dogs, DecideRecover(d) PROVE WatchInv'
<1>1. pc[d] = "heal" /\ UNCHANGED <<health, text, boundary, report, todo, spent, verdict, returned, told, overlaps>>
  BY DEF DecideRecover, World
<1>2. d \in Healers /\ d # "webhook"
  BY <1>1, HealersHeal, HealerFacts
<1>3. mem[d] \in Records /\ mem \in [Dogs -> Records] /\ 0 \in Ages
  BY StateFacts, WatchdogAssumption DEF Ages
<1>4. CASE RecoverDue(d)
  <2> DEFINE m == [mem[d] EXCEPT !.recovered = 0]
  <2>1. /\ mem' = [mem EXCEPT ![d] = m] /\ Write(m)
        /\ ran' = [age |-> 0, known |-> Alone(d) /\ slips' = slips]
        /\ pc' = [pc EXCEPT ![d] = "recover"]
    BY <1>2, <1>3, <1>4 DEF DecideRecover, Goto
  <2>2. m \in Records /\ m.count = mem[d].count /\ m.paged = mem[d].paged /\ m.recovered = 0
    BY <1>3 DEF Records
  <2> HIDE DEF m
  <2>3. /\ slips' \in Nat /\ slips' >= slips /\ file' \in Records
        /\ \/ file' = m /\ slips' = slips
           \/ file' = file /\ slips' = slips + 1 /\ slips' # slips
    BY <2>1, <2>2, WriteFacts
  <2>4. /\ mem'[d] = m /\ mem' \in [Dogs -> Records] /\ pc'[d] = "recover"
        /\ \A e \in Dogs \ {d} : mem'[e] = mem[e] /\ pc'[e] = pc[e]
    BY <1>3, <2>1, <2>2 DEF WatchInv, Types, TypeOK
  <2>5. Types'
    <3>1. ran' \in [age : Ages, known : BOOLEAN]
      BY <1>3, <2>1
    <3> QED
      BY <1>1, <1>2, <2>1, <2>3, <2>4, <3>1, HealerFacts DEF WatchInv, Types, TypeOK
  <2>6. Places'
    BY <1>1, <1>2, <2>4, HealerFacts DEF WatchInv, Places
  <2>7. ASSUME NEW s \in Services
        PROVE  FileCounts(s)' /\ \A e \in Healers : pc'[e] # "idle" => CopyCounts(e, s)'
    <3>1. \A e \in Healers : Pending(e, s)' => Pending(e, s)
      BY <1>1, <1>2, <2>4, HealerFacts DEF Pending
    <3>2. overlaps' \in Nat /\ overlaps' >= overlaps /\ returned'[s] = returned[s]
      BY <1>1, StateFacts
    <3>3. \A e \in Healers : pc'[e] # "idle" => pc[e] # "idle" /\ mem'[e].count[s] = mem[e].count[s]
      BY <1>1, <1>2, <2>2, <2>4, HealerFacts
    <3>4. \A e \in Healers : pc[e] = "save" => pc'[e] = "save"
      BY <1>1, <2>4, HealerFacts
    <3>5. \A e \in Healers : pc'[e] # "idle" => CopyCounts(e, s)'
      BY <2>3, <3>1, <3>2, <3>3, KeepCopies
    <3>6. CASE file' = m
      <4>1. file'.count[s] = mem[d].count[s]
        BY <2>2, <3>6
      <4> QED
        BY <1>1, <1>2, <2>3, <3>1, <3>2, <3>5, <4>1, WriteCounts
    <3>7. CASE file' = file
      BY <2>3, <3>1, <3>2, <3>3, <3>4, <3>7, KeepCounts
    <3> QED
      BY <2>3, <3>6, <3>7
  <2>8. Stamping'
    <3>1. SUFFICES ASSUME ran'.known
                   PROVE  /\ file'.recovered <= ran'.age
                          /\ \A e \in Healers : pc'[e] # "idle" => mem'[e].recovered <= ran'.age
      BY DEF Stamping
    <3>2. Alone(d) /\ slips' = slips /\ ran'.age = 0 /\ file' = m
      BY <2>1, <2>3, <3>1
    <3>3. \A e \in Healers : pc'[e] # "idle" => e = d
      BY <1>2, <2>4, <3>2, HealerFacts DEF Alone
    <3> QED
      BY <2>2, <2>4, <3>2, <3>3
  <2>9. Alerting'
    BY <1>1, <1>2, <2>2, <2>3, <2>4, HealerFacts DEF WatchInv, Alerting, Alerted, Key
  <2> QED
    BY <2>5, <2>6, <2>7, <2>8, <2>9 DEF WatchInv, Counting
<1>5. CASE ~RecoverDue(d)
  <2>1. pc' = [pc EXCEPT ![d] = "reset"] /\ UNCHANGED <<mem, file, ran, slips>>
    BY <1>5 DEF DecideRecover, Goto
  <2>2. pc'[d] = "reset" /\ \A e \in Dogs \ {d} : pc'[e] = pc[e]
    BY <2>1 DEF WatchInv, Types, TypeOK
  <2>3. Types'
    BY <1>1, <1>2, <2>1, <2>2, HealerFacts DEF WatchInv, Types, TypeOK
  <2>4. Places'
    BY <1>1, <1>2, <2>2, HealerFacts DEF WatchInv, Places
  <2>5. \A e \in Healers : \A s \in Services : Pending(e, s)' => Pending(e, s)
    BY <1>1, <1>2, <2>2, HealerFacts DEF Pending
  <2>6. Counting' /\ Stamping' /\ Alerting'
    BY <1>1, <1>2, <2>1, <2>2, <2>5, Unmoved, HealerFacts
  <2> QED
    BY <2>3, <2>4, <2>6 DEF WatchInv
<1> QED
  BY <1>4, <1>5

\* The recovery playbook runs; its stamp was written when it was decided.
LEMMA RecoverStep == ASSUME WatchInv, NEW d \in Dogs, Recover(d) PROVE WatchInv'
<1>1. /\ pc[d] = "recover" /\ pc' = [pc EXCEPT ![d] = "reset"]
      /\ UNCHANGED <<text, boundary, file, mem, report, todo, spent, verdict, returned, ran, told, slips, overlaps>>
  BY DEF Recover, Goto, Ghosts
<1>2. d \in Healers /\ d # "webhook"
  BY <1>1, HealersHeal, HealerFacts
<1>3. health' \in [Services -> {"healthy"} \cup Bad]
  BY DEF Recover, WatchInv, Types, TypeOK
<1>4. pc'[d] = "reset" /\ \A e \in Dogs \ {d} : pc'[e] = pc[e]
  BY <1>1 DEF WatchInv, Types, TypeOK
<1>5. Types'
  BY <1>1, <1>2, <1>3, <1>4, HealerFacts DEF WatchInv, Types, TypeOK
<1>6. Places'
  BY <1>1, <1>2, <1>4, HealerFacts DEF WatchInv, Places
<1>7. \A e \in Healers : \A s \in Services : Pending(e, s)' => Pending(e, s)
  BY <1>1, <1>2, <1>4, HealerFacts DEF Pending
<1>8. Counting' /\ Stamping' /\ Alerting'
  BY <1>1, <1>2, <1>4, <1>7, Unmoved, HealerFacts
<1> QED
  BY <1>5, <1>6, <1>8 DEF WatchInv

\* A counter is cleared together with the restarts it stands for.
LEMMA ResetStep == ASSUME WatchInv, NEW d \in Dogs, Reset(d) PROVE WatchInv'
<1> DEFINE well == {s \in Services : s \notin Fixable(d) /\ mem[d].count[s] > 0 /\ health[s] = "healthy"}
           c == [s \in Services |-> IF s \in well THEN 0 ELSE mem[d].count[s]]
           a == [s \in Services |-> IF s \in well THEN MaxAge ELSE mem[d].restarted[s]]
           m == [mem[d] EXCEPT !.count = c, !.restarted = a]
<1>1. pc[d] = "reset" /\ UNCHANGED <<health, text, boundary, report, spent, ran, told, overlaps>>
  BY DEF Reset, World
<1>2. d \in Healers /\ d # "webhook"
  BY <1>1, HealersHeal, HealerFacts
<1>3. /\ mem[d] \in Records /\ mem \in [Dogs -> Records] /\ file \in Records
      /\ mem[d].count \in [Services -> 0 .. MaxRestarts] /\ mem[d].restarted \in [Services -> Ages]
  BY StateFacts, RecordFacts
<1>4. /\ c \in [Services -> 0 .. MaxRestarts] /\ a \in [Services -> Ages]
      /\ \A s \in Services : c[s] = IF s \in well THEN 0 ELSE mem[d].count[s]
  BY <1>3, WatchdogAssumption DEF Ages
<1>5. /\ mem' = [mem EXCEPT ![d] = m]
      /\ IF well # {} THEN Write(m) ELSE UNCHANGED <<file, slips>>
      /\ returned' = [s \in Services |-> IF s \in well THEN 0 ELSE returned[s]]
      /\ pc' = [pc EXCEPT ![d] = "tell"] /\ verdict' = verdict /\ todo' = [todo EXCEPT ![d] = {}]
  BY <1>2, <1>3 DEF Reset, Goto, Records
<1> HIDE DEF well, c, a
<1>6. m \in Records /\ m.count = c /\ m.paged = mem[d].paged /\ m.recovered = mem[d].recovered
  BY <1>3, <1>4 DEF Records
<1> HIDE DEF m
<1>7. /\ slips' \in Nat /\ slips' >= slips /\ file' \in Records /\ file' \in {m, file}
  <2>1. CASE Write(m)
    BY <1>6, <2>1, WriteFacts
  <2>2. CASE UNCHANGED <<file, slips>>
    BY <2>2, StateFacts
  <2> QED
    BY <1>5, <2>1, <2>2
<1>8. /\ mem'[d] = m /\ mem' \in [Dogs -> Records] /\ pc'[d] = "tell" /\ todo'[d] = {}
      /\ \A e \in Dogs \ {d} : mem'[e] = mem[e] /\ pc'[e] = pc[e] /\ todo'[e] = todo[e]
      /\ todo' \in [Dogs -> SUBSET Services] /\ returned' \in [Services -> Nat]
  <2>1. mem'[d] = m /\ mem' \in [Dogs -> Records] /\ \A e \in Dogs \ {d} : mem'[e] = mem[e]
    BY <1>3, <1>5, <1>6
  <2>2. returned' \in [Services -> Nat]
    BY <1>5 DEF WatchInv, Types
  <2> QED
    BY <1>5, <2>1, <2>2 DEF WatchInv, Types, TypeOK
<1>9. Types'
  BY <1>1, <1>2, <1>5, <1>7, <1>8, HealerFacts DEF WatchInv, Types, TypeOK
<1>10. Places'
  BY <1>1, <1>2, <1>8, HealerFacts DEF WatchInv, Places
<1>11. ASSUME NEW s \in Services
       PROVE  FileCounts(s)' /\ \A e \in Healers : pc'[e] # "idle" => CopyCounts(e, s)'
  <2>1. (\A e \in Healers : Pending(e, s)' => Pending(e, s)) /\ ~Pending(d, s)'
    BY <1>1, <1>2, <1>8, HealerFacts DEF Pending
  <2>2. overlaps \in Nat /\ overlaps' \in Nat /\ overlaps' >= overlaps /\ overlaps' = overlaps
    BY <1>1, StateFacts
  <2>3. CASE s \notin well
    <3>1. returned'[s] = returned[s] /\ m.count[s] = mem[d].count[s]
      BY <1>4, <1>5, <1>6, <2>3
    <3>2. \A e \in Healers : pc'[e] # "idle" => pc[e] # "idle" /\ mem'[e].count[s] = mem[e].count[s]
      BY <1>1, <1>8, <3>1, HealerFacts
    <3>3. \A e \in Healers : pc[e] = "save" => pc'[e] = "save"
      BY <1>1, <1>8, HealerFacts
    <3>4. \A e \in Healers : pc'[e] # "idle" => CopyCounts(e, s)'
      BY <1>7, <2>1, <2>2, <3>1, <3>2, KeepCopies
    <3>5. CASE file' = m
      <4>1. file'.count[s] = mem[d].count[s]
        BY <3>1, <3>5
      <4> QED
        BY <1>1, <1>2, <1>7, <2>1, <2>2, <3>1, <3>4, <4>1, WriteCounts
    <3>6. CASE file' = file
      BY <1>7, <2>1, <2>2, <3>1, <3>2, <3>3, <3>6, KeepCounts
    <3> QED
      BY <1>7, <3>5, <3>6
  <2>4. CASE s \in well
    <3> DEFINE o == Other(d)
               po == Pending(o, s)'
    <3>1. /\ returned'[s] = 0 /\ mem'[d].count[s] = 0 /\ file'.count[s] \in Nat /\ slips' \in Nat
      <4>1. file'.count \in [Services -> 0 .. MaxRestarts] /\ 0 .. MaxRestarts \subseteq Nat
        BY <1>7, RecordFacts, WatchdogAssumption
      <4> QED
        BY <1>4, <1>5, <1>6, <1>7, <1>8, <2>4, <4>1
    <3>2. {d, o} = {"timer", "hand"} /\ d # o
      BY <1>2, HealerFacts DEF Other
    <3>3. /\ Due(d, s)' = 0 /\ Due(o, s)' = (IF po THEN 1 ELSE 0)
          /\ (po => Ahead(s)' = 1) /\ Ahead(s)' \in {0, 1}
      BY <2>1, <3>2 DEF Due, Ahead
    <3>4. po => overlaps >= 1
      <4>1. po => o \in Healers /\ pc[o] # "idle" /\ o # d
        BY <1>1, <1>8, <3>2, HealerFacts DEF Pending
      <4> QED
        BY <1>1, <1>2, <4>1 DEF WatchInv, Places
    <3> HIDE DEF po
    <3>5. FileCounts(s)'
      <4>1. Due("timer", s)' + Due("hand", s)' = IF po THEN 1 ELSE 0
        BY <3>2, <3>3 DEF Due
      <4>2. /\ Due("timer", s)' \in Nat /\ Due("hand", s)' \in Nat
        BY DEF Due
      <4>3. returned'[s] + Due("timer", s)' + Due("hand", s)' <= slips' + overlaps' + file'.count[s] + Ahead(s)'
        <5>1. Due("timer", s)' + Due("hand", s)' <= Ahead(s)'
          BY <3>3, <4>1, <4>2
        <5>2. Ahead(s)' \in Nat
          BY <3>3
        <5> QED
          BY <2>2, <3>1, <4>2, <5>1, <5>2
      <4> QED
        BY <4>3 DEF FileCounts
    <3>6. CopyCounts(d, s)'
      <4>1. returned'[s] + Due(o, s)' <= slips' + overlaps' + mem'[d].count[s] /\ Other(d)' = o
        <5>1. Due(o, s)' <= overlaps /\ Due(o, s)' \in Nat
          BY <2>2, <3>3, <3>4
        <5> HIDE DEF o
        <5> QED
          BY <2>2, <3>1, <5>1 DEF o
      <4> QED
        BY <4>1 DEF CopyCounts
    <3>7. ASSUME o \in Healers, pc'[o] # "idle" PROVE CopyCounts(o, s)'
      <4>1. mem'[o] = mem[o] /\ mem[o].count[s] \in Nat /\ Other(o) = d /\ Other(o)' = d
        BY <1>2, <1>8, <3>2, <3>7, HealerFacts, StateFacts
      <4>2. returned'[s] + Due(d, s)' <= slips' + overlaps' + mem'[o].count[s]
        BY <2>2, <3>1, <3>3, <4>1
      <4> QED
        BY <4>1, <4>2 DEF CopyCounts
    <3> QED
      BY <1>2, <3>5, <3>6, <3>7, HealerFacts
  <2> QED
    BY <2>3, <2>4
<1>12. Stamping'
  BY <1>1, <1>2, <1>6, <1>7, <1>8, HealerFacts DEF WatchInv, Stamping
<1>13. Alerting'
  BY <1>1, <1>2, <1>6, <1>7, <1>8, HealerFacts DEF WatchInv, Alerting, Alerted, Key
<1> QED
  BY <1>9, <1>10, <1>11, <1>12, <1>13 DEF WatchInv, Counting

\* An alert is remembered in the copy; the file learns of it when notify ends.
LEMMA TellStep == ASSUME WatchInv, NEW d \in Healers, NEW s \in Services, Tell(d, s) PROVE WatchInv'
<1>1. /\ pc[d] \in {"tell", "sent"} /\ s \in Issues(d) /\ d \in Dogs /\ d # "webhook"
      /\ todo' = [todo EXCEPT ![d] = todo[d] \cup {s}]
      /\ UNCHANGED <<health, text, boundary, file, report, spent, verdict, returned, ran, slips, overlaps>>
  BY HealerFacts DEF Tell, World
<1>2. todo' \in [Dogs -> SUBSET Services] /\ \A e \in Dogs \ {d} : todo'[e] = todo[e]
  BY <1>1 DEF WatchInv, Types, TypeOK
<1>3. CASE UNCHANGED <<pc, mem, told>>
  <2>1. Types'
    BY <1>1, <1>2, <1>3 DEF WatchInv, Types, TypeOK
  <2>2. Places'
    BY <1>1, <1>2, <1>3, HealerFacts DEF WatchInv, Places
  <2>3. \A e \in Healers : \A i \in Services : Pending(e, i)' => Pending(e, i)
    BY <1>1, <1>2, <1>3, HealerFacts DEF Pending
  <2>4. Counting' /\ Stamping' /\ Alerting'
    BY <1>1, <1>3, <2>3, Unmoved
  <2> QED
    BY <2>1, <2>2, <2>4 DEF WatchInv
<1>4. CASE /\ Goto(d, "sent")
           /\ mem' = [mem EXCEPT ![d].paged[IssueKey(s, report[d][s])] = 0]
           /\ told' = [told EXCEPT ![s] = [age |-> 0, about |-> report[d][s], by |-> d]]
  <2> DEFINE k == <<s, report[d][s]>>
             p == [mem[d].paged EXCEPT ![k] = 0]
             m == [mem[d] EXCEPT !.paged = p]
  <2>1. report[d][s] \in Messages
    BY <1>1, NoIssueFacts DEF Issues, WatchInv, Types, Reports
  <2>2. /\ k \in Services \X Messages /\ mem[d] \in Records /\ mem \in [Dogs -> Records] /\ 0 \in Ages
        /\ mem[d].paged \in [Services \X Messages -> Ages]
    <3>1. mem[d] \in Records /\ mem \in [Dogs -> Records]
      BY <1>1, StateFacts
    <3>2. 0 \in Ages
      BY WatchdogAssumption DEF Ages
    <3> QED
      BY <2>1, <3>1, <3>2, RecordFacts
  <2>3. /\ p \in [Services \X Messages -> Ages]
        /\ \A i \in Services \X Messages : p[i] = IF i = k THEN 0 ELSE mem[d].paged[i]
    BY <2>2
  <2>4. mem' = [mem EXCEPT ![d] = m]
    BY <1>1, <1>4, <2>2 DEF IssueKey, Records
  <2> HIDE DEF p
  <2>5. m \in Records /\ m.paged = p /\ m.count = mem[d].count /\ m.recovered = mem[d].recovered
    BY <2>2, <2>3 DEF Records
  <2> HIDE DEF m
  <2>6. /\ mem'[d] = m /\ mem' \in [Dogs -> Records] /\ pc'[d] = "sent" /\ pc' = [pc EXCEPT ![d] = "sent"]
        /\ \A e \in Dogs \ {d} : mem'[e] = mem[e] /\ pc'[e] = pc[e]
    <3>1. mem'[d] = m /\ mem' \in [Dogs -> Records] /\ \A e \in Dogs \ {d} : mem'[e] = mem[e]
      BY <1>1, <2>2, <2>4, <2>5
    <3>2. pc' = [pc EXCEPT ![d] = "sent"] /\ pc \in [Dogs -> Labels]
      BY <1>4 DEF Goto, WatchInv, Types, TypeOK, Labels
    <3> QED
      BY <1>1, <3>1, <3>2
  <2>7. /\ told' \in [Services -> Alarms] /\ told'[s] = [age |-> 0, about |-> report[d][s], by |-> d]
        /\ \A i \in Services \ {s} : told'[i] = told[i]
    BY <1>4, <2>1, <2>2 DEF WatchInv, Types, Alarms
  <2>8. Types'
    BY <1>1, <1>2, <2>6, <2>7, HealerFacts DEF WatchInv, Types, TypeOK
  <2>9. Places'
    <3>1. \A i \in Services : told'[i].by \in Healers => pc'[told'[i].by] = "sent"
      BY <2>6, <2>7, HealerFacts DEF WatchInv, Places
    <3> QED
      BY <1>1, <1>2, <2>6, <3>1, HealerFacts DEF WatchInv, Places
  <2>10. Counting'
    <3>1. ASSUME NEW i \in Services
          PROVE  FileCounts(i)' /\ \A e \in Healers : pc'[e] # "idle" => CopyCounts(e, i)'
      <4>1. \A e \in Healers : Pending(e, i)' => Pending(e, i)
        BY <1>1, <1>2, <2>6, HealerFacts DEF Pending
      <4>2. /\ slips' \in Nat /\ slips' >= slips /\ overlaps' \in Nat /\ overlaps' >= overlaps
            /\ returned'[i] = returned[i] /\ file'.count[i] = file.count[i]
        BY <1>1, StateFacts
      <4>3. \A e \in Healers : pc'[e] # "idle" => pc[e] # "idle" /\ mem'[e].count[i] = mem[e].count[i]
        BY <1>1, <2>5, <2>6, HealerFacts
      <4>4. \A e \in Healers : pc[e] = "save" => pc'[e] = "save"
        BY <1>1, <2>6, HealerFacts
      <4> QED
        BY <4>1, <4>2, <4>3, <4>4, KeepCounts
    <3> QED
      BY <3>1 DEF Counting
  <2>11. Stamping'
    BY <1>1, <2>5, <2>6, HealerFacts DEF WatchInv, Stamping
  <2>12. Alerting'
    <3>1. SUFFICES ASSUME NEW i \in Services, told'[i].about \in Messages PROVE Alerted(i)'
      BY DEF Alerting
    <3>2. CASE i = s
      <4>1. Key(i)' = k /\ p[k] = 0 /\ told'[i].age = 0 /\ told'[i].by = d
        BY <2>2, <2>3, <2>7, <3>2 DEF Key
      <4> QED
        BY <2>5, <2>6, <4>1, HealerFacts DEF Alerted
    <3>3. CASE i # s
      <4>1. told'[i] = told[i] /\ Key(i)' = Key(i) /\ Alerted(i)
        BY <2>7, <3>1, <3>3 DEF Key, WatchInv, Alerting
      <4>2. Key(i) \in Services \X Messages /\ Key(i) # k
        BY <3>1, <3>3, <4>1 DEF Key
      <4>3. mem'[d].paged[Key(i)] = mem[d].paged[Key(i)]
        BY <2>3, <2>5, <2>6, <4>2
      <4> QED
        BY <1>1, <2>6, <4>1, <4>3, HealerFacts DEF Alerted
    <3> QED
      BY <3>2, <3>3
  <2> QED
    BY <2>8, <2>9, <2>10, <2>11, <2>12 DEF WatchInv
<1> QED
  BY <1>3, <1>4 DEF Tell

\* What was remembered by d is remembered by another, or lost.
LEMMA HandOverFacts ==
    ASSUME WatchInv, NEW d, NEW to \in {"file", "lost"}, HandOver(d, to)
    PROVE  /\ told' \in [Services -> Alarms]
           /\ \A s \in Services : /\ told'[s].age = told[s].age /\ told'[s].about = told[s].about
                                  /\ told'[s].by = IF told[s].by = d THEN to ELSE told[s].by
BY DEF HandOver, WatchInv, Types, Alarms

\* The run ends after its alerts, and their times are in the file, or not for
\* sure.
LEMMA ToldStep == ASSUME WatchInv, NEW d \in Healers, Told(d) PROVE WatchInv'
<1> DEFINE to == IF Alone(d) /\ slips' = slips THEN "file" ELSE "lost"
<1>1. /\ pc[d] \in {"tell", "sent"} /\ Exit(d) /\ HandOver(d, to) /\ d \in Dogs /\ d # "webhook"
      /\ UNCHANGED <<health, text, boundary, verdict, returned, ran, overlaps>>
  BY HealerFacts DEF Told, World
<1>2. /\ pc' = [pc EXCEPT ![d] = "idle"] /\ pc'[d] = "idle" /\ \A e \in Dogs \ {d} : pc'[e] = pc[e]
      /\ \A e \in Dogs \ {d} : mem'[e] = mem[e] /\ todo'[e] = todo[e]
      /\ mem' \in [Dogs -> Records] /\ report' \in [Dogs -> Reports]
      /\ todo' \in [Dogs -> SUBSET Services] /\ spent' \in [Dogs -> SUBSET Safe]
  BY <1>1, ExitFacts
<1>3. /\ slips' \in Nat /\ slips' >= slips /\ file' \in Records /\ file' \in {mem[d], file}
      /\ pc[d] = "sent" /\ slips' = slips => file' = mem[d]
  <2>1. CASE pc[d] = "sent"
    <3>1. Write(mem[d])
      BY <2>1 DEF Told
    <3> QED
      BY <1>1, <3>1, StateFacts, WriteFacts
  <2>2. CASE pc[d] # "sent"
    <3>1. UNCHANGED <<file, slips>>
      BY <2>2 DEF Told
    <3> QED
      BY <2>2, <3>1, StateFacts
  <2> QED
    BY <2>1, <2>2
<1>4. to \in {"file", "lost"} /\ (to = "file" => Alone(d) /\ slips' = slips)
  OBVIOUS
<1> HIDE DEF to
<1>5. /\ told' \in [Services -> Alarms]
      /\ \A s \in Services : /\ told'[s].age = told[s].age /\ told'[s].about = told[s].about
                             /\ told'[s].by = IF told[s].by = d THEN to ELSE told[s].by
  BY <1>1, <1>4, HandOverFacts
<1>6. Types'
  BY <1>1, <1>2, <1>3, <1>5, HealerFacts DEF WatchInv, Types, TypeOK
<1>7. Places'
  <2>1. \A s \in Services : told'[s].by \in Healers => told'[s].by = told[s].by /\ told[s].by # d
    BY <1>4, <1>5, HealerFacts
  <2>2. \A s \in Services : told'[s].by \in Healers => pc'[told'[s].by] = "sent"
    BY <1>2, <2>1, HealerFacts DEF WatchInv, Places
  <2> QED
    BY <1>1, <1>2, <2>2, HealerFacts DEF WatchInv, Places
<1>8. ASSUME NEW s \in Services
      PROVE  FileCounts(s)' /\ \A e \in Healers : pc'[e] # "idle" => CopyCounts(e, s)'
  <2>1. \A e \in Healers : Pending(e, s)' => Pending(e, s)
    BY <1>2, HealerFacts DEF Pending
  <2>2. overlaps' \in Nat /\ overlaps' >= overlaps /\ returned'[s] = returned[s]
    BY <1>1, StateFacts
  <2>3. \A e \in Healers : pc'[e] # "idle" => pc[e] # "idle" /\ mem'[e].count[s] = mem[e].count[s]
    BY <1>2, HealerFacts
  <2>4. \A e \in Healers : pc[e] = "save" => pc'[e] = "save"
    BY <1>1, <1>2, HealerFacts
  <2>5. \A e \in Healers : pc'[e] # "idle" => CopyCounts(e, s)'
    BY <1>3, <2>1, <2>2, <2>3, KeepCopies
  <2>6. CASE file' = mem[d]
    BY <1>1, <1>3, <2>1, <2>2, <2>5, <2>6, WriteCounts
  <2>7. CASE file' = file
    BY <1>3, <2>1, <2>2, <2>3, <2>4, <2>7, KeepCounts
  <2> QED
    BY <1>3, <2>6, <2>7
<1>9. Stamping'
  BY <1>1, <1>2, <1>3, HealerFacts DEF WatchInv, Stamping
<1>10. Alerting'
  <2>1. SUFFICES ASSUME NEW s \in Services, told'[s].about \in Messages PROVE Alerted(s)'
    BY DEF Alerting
  <2>2. Alerted(s) /\ Key(s)' = Key(s) /\ told'[s].age = told[s].age
    BY <1>5, <2>1 DEF Key, WatchInv, Alerting
  <2>3. CASE told[s].by = d
    <3>1. pc[d] = "sent" /\ told'[s].by = to
      BY <1>5, <2>3 DEF WatchInv, Places
    <3>2. CASE to = "file"
      <4>1. file' = mem[d] /\ mem[d].paged[Key(s)] <= told[s].age
        BY <1>3, <1>4, <2>2, <2>3, <3>1, <3>2 DEF Alerted
      <4>2. \A e \in Healers : pc'[e] = "idle"
        BY <1>2, <1>4, <3>2, HealerFacts DEF Alone
      <4> QED
        BY <2>2, <4>1, <4>2 DEF Alerted
    <3>3. CASE to = "lost"
      BY <3>1, <3>3, HealerFacts DEF Alerted
    <3> QED
      BY <1>4, <3>2, <3>3
  <2>4. CASE told[s].by # d
    <3>1. told'[s].by = told[s].by
      BY <1>5, <2>4
    <3>2. \A e \in Healers : pc'[e] # "idle" => pc[e] # "idle" /\ mem'[e] = mem[e]
      BY <1>2, HealerFacts
    <3> QED
      BY <1>1, <1>3, <2>2, <3>1, <3>2 DEF Alerted
  <2> QED
    BY <2>3, <2>4
<1> QED
  BY <1>6, <1>7, <1>8, <1>9, <1>10 DEF WatchInv, Counting

\* The webhook job gives the boundary back.
LEMMA ReleaseStep == WatchInv /\ Release => WatchInv'
<1> SUFFICES ASSUME WatchInv, Release PROVE WatchInv'
  OBVIOUS
<1>1. /\ Exit("webhook") /\ boundary' = "free" /\ verdict' = "none"
      /\ UNCHANGED <<health, text, file, returned, ran, told, slips, overlaps>>
  BY DEF Release, Ghosts
<1>2. /\ pc'["webhook"] = "idle" /\ pc' = [pc EXCEPT !["webhook"] = "idle"]
      /\ mem' \in [Dogs -> Records] /\ report' \in [Dogs -> Reports]
      /\ todo' \in [Dogs -> SUBSET Services] /\ spent' \in [Dogs -> SUBSET Safe]
      /\ \A e \in Healers : pc'[e] = pc[e] /\ mem'[e] = mem[e] /\ todo'[e] = todo[e]
  BY <1>1, ExitFacts, HealerFacts
<1>3. Types'
  BY <1>1, <1>2 DEF WatchInv, Types, TypeOK
<1>4. Places'
  BY <1>1, <1>2 DEF WatchInv, Places
<1>5. \A e \in Healers : \A s \in Services : Pending(e, s)' => Pending(e, s)
  BY <1>2 DEF Pending
<1>6. Counting' /\ Stamping' /\ Alerting'
  BY <1>1, <1>2, <1>5, Unmoved
<1> QED
  BY <1>3, <1>4, <1>6 DEF WatchInv

\* A torn file knows nothing: all that it counted is lost, and what it remembered.
LEMMA TearStep == WatchInv /\ Tear => WatchInv'
<1> SUFFICES ASSUME WatchInv, Tear PROVE WatchInv'
  OBVIOUS
<1>1. /\ slips' = slips + MaxRestarts /\ file' = Blank /\ HandOver("file", "lost")
      /\ ran' = [ran EXCEPT !.known = FALSE]
      /\ UNCHANGED <<health, text, boundary, mem, pc, report, todo, spent, verdict, returned, overlaps>>
  BY DEF Tear, World
<1>2. slips \in Nat /\ MaxRestarts \in Nat /\ slips' \in Nat /\ slips' >= slips /\ overlaps \in Nat
  BY <1>1, StateFacts, WatchdogAssumption
<1>3. /\ told' \in [Services -> Alarms]
      /\ \A s \in Services : /\ told'[s].age = told[s].age /\ told'[s].about = told[s].about
                             /\ told'[s].by = IF told[s].by = "file" THEN "lost" ELSE told[s].by
  BY <1>1, HandOverFacts
<1>4. ran' \in [age : Ages, known : BOOLEAN] /\ ran'.known = FALSE /\ file' \in Records
  BY <1>1, BlankFacts DEF WatchInv, Types
<1>5. Types'
  BY <1>1, <1>2, <1>3, <1>4 DEF WatchInv, Types, TypeOK
<1>6. Places'
  <2>1. \A s \in Services : told'[s].by \in Healers => told'[s].by = told[s].by
    BY <1>3, HealerFacts
  <2> QED
    BY <1>1, <2>1 DEF WatchInv, Places
<1>7. ASSUME NEW s \in Services
      PROVE  FileCounts(s)' /\ \A e \in Healers : pc'[e] # "idle" => CopyCounts(e, s)'
  <2>1. \A e \in Healers : Pending(e, s)' => Pending(e, s)
    BY <1>1 DEF Pending
  <2>2. \A e \in Healers : pc'[e] # "idle" => CopyCounts(e, s)'
    BY <1>1, <1>2, <2>1, KeepCopies
  <2>3. /\ Due("timer", s)' = Due("timer", s) /\ Due("hand", s)' = Due("hand", s) /\ Ahead(s)' = Ahead(s)
        /\ Due("timer", s) \in Nat /\ Due("hand", s) \in Nat /\ Ahead(s) \in Nat
    BY <1>1 DEF Due, Ahead, Pending, Saving
  <2>4. returned[s] + Due("timer", s) + Due("hand", s) <= slips + overlaps + file.count[s] + Ahead(s)
    BY DEF WatchInv, Counting, FileCounts
  <2>5. file.count[s] \in 0 .. MaxRestarts /\ returned[s] \in Nat /\ file'.count[s] = 0
    BY <1>1, StateFacts DEF Blank
  <2>6. returned[s] + Due("timer", s) + Due("hand", s) <= slips + MaxRestarts + overlaps + 0 + Ahead(s)
    BY <1>2, <2>3, <2>4, <2>5
  <2> QED
    BY <1>1, <2>2, <2>3, <2>5, <2>6 DEF FileCounts
<1>8. Stamping'
  BY <1>4 DEF Stamping
<1>9. Alerting'
  <2>1. SUFFICES ASSUME NEW s \in Services, told'[s].about \in Messages PROVE Alerted(s)'
    BY DEF Alerting
  <2>2. Alerted(s) /\ Key(s)' = Key(s) /\ told'[s].age = told[s].age
    BY <1>3, <2>1 DEF Key, WatchInv, Alerting
  <2>3. told'[s].by # "file" /\ (told'[s].by \in Healers => told'[s].by = told[s].by)
    BY <1>3, HealerFacts
  <2> QED
    BY <1>1, <2>2, <2>3 DEF Alerted
<1> QED
  BY <1>5, <1>6, <1>7, <1>8, <1>9 DEF WatchInv, Counting

\* A run is killed: one restart may be lost to the file, and what it told.
LEMMA KillStep == ASSUME WatchInv, NEW d \in Dogs, Kill(d) PROVE WatchInv'
<1>1. /\ Exit(d) /\ slips' = slips + 1 /\ HandOver(d, "lost")
      /\ UNCHANGED <<health, text, file, returned, ran, overlaps>>
      /\ boundary' = (IF d = "webhook" THEN "free" ELSE boundary)
      /\ verdict' = (IF d = "webhook" THEN "none" ELSE verdict)
  BY DEF Kill
<1>2. /\ pc' = [pc EXCEPT ![d] = "idle"] /\ pc'[d] = "idle" /\ \A e \in Dogs \ {d} : pc'[e] = pc[e]
      /\ \A e \in Dogs \ {d} : mem'[e] = mem[e] /\ todo'[e] = todo[e]
      /\ mem' \in [Dogs -> Records] /\ report' \in [Dogs -> Reports]
      /\ todo' \in [Dogs -> SUBSET Services] /\ spent' \in [Dogs -> SUBSET Safe]
  BY <1>1, ExitFacts
<1>3. slips \in Nat /\ slips' \in Nat /\ slips' >= slips /\ slips' >= slips + 1
  BY <1>1, StateFacts
<1>4. /\ told' \in [Services -> Alarms]
      /\ \A s \in Services : /\ told'[s].age = told[s].age /\ told'[s].about = told[s].about
                             /\ told'[s].by = IF told[s].by = d THEN "lost" ELSE told[s].by
  BY <1>1, HandOverFacts
<1>5. Types'
  <2>1. (boundary' = "webhook" <=> pc'["webhook"] # "idle")
    BY <1>1, <1>2, HealerFacts DEF WatchInv, Types, TypeOK
  <2>2. /\ pc' \in [Dogs -> {"idle", "check", "gate", "heal", "save", "recover", "reset", "tell", "sent", "release"}]
        /\ boundary' \in {"free", "deploy", "webhook"} /\ verdict' \in {"none", "skipped", "deferred", "healed"}
    BY <1>1, <1>2 DEF WatchInv, Types, TypeOK
  <2> QED
    BY <1>1, <1>2, <1>3, <1>4, <2>1, <2>2 DEF WatchInv, Types, TypeOK
<1>6. Places'
  <2>1. \A s \in Services : told'[s].by \in Healers => told'[s].by = told[s].by /\ told[s].by # d
    BY <1>4, HealerFacts
  <2>2. \A s \in Services : told'[s].by \in Healers => pc'[told'[s].by] = "sent"
    BY <1>2, <2>1, HealerFacts DEF WatchInv, Places
  <2>3. pc'["webhook"] \in {"idle", "check", "gate", "release"}
    BY <1>2, HealerFacts DEF WatchInv, Places
  <2>4. \A e \in Healers : pc'[e] # "idle" => pc'[e] = pc[e] /\ todo'[e] = todo[e]
    BY <1>2, HealerFacts
  <2> QED
    BY <1>1, <2>2, <2>3, <2>4 DEF WatchInv, Places
<1>7. ASSUME NEW s \in Services
      PROVE  FileCounts(s)' /\ \A e \in Healers : pc'[e] # "idle" => CopyCounts(e, s)'
  <2>1. \A e \in Healers : Pending(e, s)' => Pending(e, s)
    BY <1>2, HealerFacts DEF Pending
  <2>2. /\ overlaps' \in Nat /\ overlaps' >= overlaps /\ returned'[s] = returned[s]
        /\ file'.count[s] = file.count[s]
    BY <1>1, StateFacts
  <2>3. \A e \in Healers : pc'[e] # "idle" => pc[e] # "idle" /\ mem'[e].count[s] = mem[e].count[s]
    BY <1>2, HealerFacts
  <2> QED
    BY <1>3, <2>1, <2>2, <2>3, KeepCounts
<1>8. \A e \in Healers : pc'[e] # "idle" => pc[e] # "idle" /\ mem'[e] = mem[e]
  BY <1>2, HealerFacts
<1>9. Stamping'
  BY <1>1, <1>8 DEF WatchInv, Stamping
<1>10. Alerting'
  <2>1. SUFFICES ASSUME NEW s \in Services, told'[s].about \in Messages PROVE Alerted(s)'
    BY DEF Alerting
  <2>2. Alerted(s) /\ Key(s)' = Key(s) /\ told'[s].age = told[s].age
    BY <1>4, <2>1 DEF Key, WatchInv, Alerting
  <2>3. told'[s].by \in {"lost", told[s].by}
    BY <1>4
  <2> QED
    BY <1>1, <1>8, <2>2, <2>3, HealerFacts DEF Alerted
<1> QED
  BY <1>5, <1>6, <1>7, <1>9, <1>10 DEF WatchInv, Counting

\* A container fails on its own.
LEMMA FailStep == ASSUME WatchInv, NEW s \in Services, Fail(s) PROVE WatchInv'
<1>1. /\ health' \in [Services -> {"healthy"} \cup Bad] /\ text' \in [Services -> Texts]
      /\ UNCHANGED <<file, mem, pc, report, todo, spent, boundary, verdict, returned, ran, told, slips, overlaps>>
  BY DEF Fail, Ghosts, WatchInv, Types, TypeOK
<1>2. Types' /\ Places'
  BY <1>1 DEF WatchInv, Types, TypeOK, Places
<1>3. \A e \in Healers : \A i \in Services : Pending(e, i)' => Pending(e, i)
  BY <1>1 DEF Pending
<1> QED
  BY <1>1, <1>2, <1>3, Unmoved DEF WatchInv

\* Another operation takes or returns the boundary.
LEMMA DeploymentStep == WatchInv /\ Deployment => WatchInv'
<1> SUFFICES ASSUME WatchInv, Deployment PROVE WatchInv'
  OBVIOUS
<1>1. /\ boundary # "webhook" /\ boundary' \in {"free", "deploy"}
      /\ UNCHANGED <<health, text, file, mem, pc, report, todo, spent, verdict, returned, ran, told, slips, overlaps>>
  BY DEF Deployment, Ghosts
<1>2. Types' /\ Places'
  BY <1>1 DEF WatchInv, Types, TypeOK, Places
<1>3. \A e \in Healers : \A i \in Services : Pending(e, i)' => Pending(e, i)
  BY <1>1 DEF Pending
<1> QED
  BY <1>1, <1>2, <1>3, Unmoved DEF WatchInv

\* File, copies and what happened grow old together.
LEMMA TickStep == WatchInv /\ Tick => WatchInv'
<1> SUFFICES ASSUME WatchInv, Tick PROVE WatchInv'
  OBVIOUS
<1>1. /\ file' = Aged(file) /\ ran' = [ran EXCEPT !.age = Older(ran.age)]
      /\ mem' = [d \in Dogs |-> IF pc[d] = "idle" THEN Blank ELSE Aged(mem[d])]
      /\ told' = [s \in Services |-> [told[s] EXCEPT !.age = Older(told[s].age)]]
      /\ UNCHANGED <<health, text, boundary, pc, report, todo, spent, verdict, returned, slips, overlaps>>
  BY DEF Tick, World, WatchInv, Types, Alarms
<1>2. file \in Records /\ mem \in [Dogs -> Records]
  BY StateFacts
<1>3. file' \in Records /\ mem' \in [Dogs -> Records]
  BY <1>1, <1>2, AgedFacts, BlankFacts
<1>4. \A d \in Healers : mem[d] \in Records /\ (pc[d] # "idle" => mem'[d] = Aged(mem[d]))
  BY <1>1, <1>2, HealerFacts
<1>5. /\ ran.age \in Ages /\ ran' \in [age : Ages, known : BOOLEAN] /\ ran'.known = ran.known
      /\ ran'.age = Older(ran.age)
  BY <1>1, OlderFacts DEF WatchInv, Types
<1>6. /\ told' \in [Services -> Alarms]
      /\ \A s \in Services : /\ told[s].age \in Ages /\ told'[s].age = Older(told[s].age)
                             /\ told'[s].about = told[s].about /\ told'[s].by = told[s].by
  BY <1>1, OlderFacts DEF WatchInv, Types, Alarms
<1>7. Types'
  BY <1>1, <1>3, <1>5, <1>6 DEF WatchInv, Types, TypeOK
<1>8. Places'
  BY <1>1, <1>6 DEF WatchInv, Places
<1>9. ASSUME NEW m \in Records
      PROVE  /\ Aged(m).count = m.count
             /\ m.recovered <= ran.age => Aged(m).recovered <= ran'.age
             /\ \A s \in Services : told[s].about \in Messages /\ m.paged[Key(s)] <= told[s].age
                                    => Aged(m).paged[Key(s)] <= told'[s].age
  <2>1. /\ Aged(m).count = m.count /\ Aged(m).recovered = Older(m.recovered)
        /\ \A k \in Services \X Messages : Aged(m).paged[k] = Older(m.paged[k])
        /\ m.recovered \in Ages /\ m.paged \in [Services \X Messages -> Ages]
    BY AgedFacts, RecordFacts
  <2>2. m.recovered <= ran.age => Aged(m).recovered <= ran'.age
    BY <1>5, <2>1, OlderFacts
  <2>3. ASSUME NEW s \in Services, told[s].about \in Messages, m.paged[Key(s)] <= told[s].age
        PROVE  Aged(m).paged[Key(s)] <= told'[s].age
    <3>1. Key(s) \in Services \X Messages
      BY <2>3 DEF Key
    <3>2. m.paged[Key(s)] \in Ages /\ Aged(m).paged[Key(s)] = Older(m.paged[Key(s)])
      BY <2>1, <3>1
    <3> QED
      BY <1>6, <2>3, <3>2, OlderFacts
  <2> QED
    BY <2>1, <2>2, <2>3
<1>10. ASSUME NEW s \in Services
       PROVE  FileCounts(s)' /\ \A e \in Healers : pc'[e] # "idle" => CopyCounts(e, s)'
  <2>1. \A e \in Healers : Pending(e, s)' => Pending(e, s)
    BY <1>1 DEF Pending
  <2>2. /\ slips' \in Nat /\ slips' >= slips /\ overlaps' \in Nat /\ overlaps' >= overlaps
        /\ returned'[s] = returned[s] /\ file'.count[s] = file.count[s]
    BY <1>1, <1>2, <1>9, StateFacts
  <2>3. \A e \in Healers : pc'[e] # "idle" => pc[e] # "idle" /\ mem'[e].count[s] = mem[e].count[s]
    BY <1>1, <1>4, <1>9
  <2> QED
    BY <1>1, <2>1, <2>2, <2>3, KeepCounts
<1>11. Stamping'
  BY <1>1, <1>2, <1>4, <1>5, <1>9 DEF WatchInv, Stamping
<1>12. Alerting'
  <2>1. SUFFICES ASSUME NEW s \in Services, told'[s].about \in Messages PROVE Alerted(s)'
    BY DEF Alerting
  <2>2. Alerted(s) /\ Key(s)' = Key(s) /\ told[s].about \in Messages /\ told'[s].by = told[s].by
    BY <1>6, <2>1 DEF Key, WatchInv, Alerting
  <2> QED
    BY <1>1, <1>2, <1>4, <1>9, <2>2 DEF Alerted
<1> QED
  BY <1>7, <1>8, <1>10, <1>11, <1>12 DEF WatchInv, Counting

-----------------------------------------------------------------------------
(* The invariant, and what follows from it.                                *)

\* The first start of an installation.
LEMMA WatchInit == Init => WatchInv
<1> SUFFICES ASSUME Init PROVE WatchInv
  OBVIOUS
<1>1. /\ file = Blank /\ Blank \in Records /\ mem = [d \in Dogs |-> Blank]
      /\ pc = [d \in Dogs |-> "idle"] /\ slips = 0 /\ overlaps = 0
      /\ returned = [s \in Services |-> 0] /\ ran = [age |-> MaxAge, known |-> FALSE]
  BY BlankFacts DEF Init
<1>2. told = [s \in Services |-> [age |-> MaxAge, about |-> NoIssue, by |-> "lost"]] /\ MaxAge \in Ages
  BY WatchdogAssumption DEF Init, Ages
<1>3. TypeOK
  <2>1. (CHOOSE t \in Texts : TRUE) \in Texts
    BY WatchdogAssumption
  <2> QED
    BY <1>1, <2>1, HealerFacts DEF Init, TypeOK
<1>4. Types
  <2>1. report \in [Dogs -> Reports]
    BY DEF Init, Reports
  <2>2. told \in [Services -> Alarms]
    BY <1>2 DEF Alarms
  <2>3. ran \in [age : Ages, known : BOOLEAN]
    BY <1>1, <1>2
  <2> QED
    BY <1>1, <1>3, <2>1, <2>2, <2>3 DEF Types
<1>5. Places
  BY <1>1, <1>2, HealerFacts DEF Places
<1>6. Counting
  <2> SUFFICES ASSUME NEW s \in Services PROVE FileCounts(s)
    BY <1>1, HealerFacts DEF Counting
  <2>1. \A d : Due(d, s) = 0
    BY <1>1, HealerFacts DEF Due, Pending
  <2>2. file.count[s] = 0 /\ returned[s] = 0 /\ Ahead(s) \in {0, 1}
    BY <1>1 DEF Blank, Ahead
  <2> QED
    BY <1>1, <2>1, <2>2 DEF FileCounts
<1>7. Stamping /\ Alerting
  BY <1>1, <1>2, NoIssueFacts DEF Stamping, Alerting
<1> QED
  BY <1>4, <1>5, <1>6, <1>7 DEF WatchInv

\* Every step of the runs, of the webhook job and of the world keeps it.
LEMMA WatchNext == WatchInv /\ [Next]_watchdogVars => WatchInv'
<1> SUFFICES ASSUME WatchInv, [Next]_watchdogVars PROVE WatchInv'
  OBVIOUS
<1>1. CASE WebhookStart \/ Release \/ Deployment \/ Tear \/ Tick
  BY <1>1, WebhookStartStep, ReleaseStep, DeploymentStep, TearStep, TickStep
<1>2. ASSUME NEW s \in Services, WebhookCheck(s) \/ Fail(s) PROVE WatchInv'
  BY <1>2, WebhookCheckStep, FailStep
<1>3. ASSUME NEW d \in Healers, Start(d) \/ FullCheck(d) \/ Told(d) \/ \E s \in Services : Tell(d, s)
      PROVE  WatchInv'
  BY <1>3, StartStep, FullCheckStep, ToldStep, TellStep
<1>4. ASSUME NEW d \in Dogs,
             HealGate(d) \/ Save(d) \/ DecideRecover(d) \/ Recover(d) \/ Reset(d) \/ Kill(d)
      PROVE  WatchInv'
  BY <1>4, HealGateStep, SaveStep, DecideRecoverStep, RecoverStep, ResetStep, KillStep
<1>5. ASSUME NEW d \in Dogs, NEW s \in Services, Skip(d, s) \/ Restart(d, s) \/ RestartTimesOut(d, s)
      PROVE  WatchInv'
  BY <1>5, SkipStep, RestartStep, RestartTimesOutStep
<1>6. CASE UNCHANGED watchdogVars
  BY <1>6 DEF watchdogVars, WatchInv, Types, TypeOK, Places, Counting, FileCounts, CopyCounts,
              Ahead, Saving, Due, Pending, Other, Stamping, Alerting, Alerted, Key
<1> QED
  BY <1>1, <1>2, <1>3, <1>4, <1>5, <1>6 DEF Next

\* The invariant holds of every reachable state.
LEMMA WatchInvHolds == Spec => []WatchInv
BY WatchInit, WatchNext, PTL DEF Spec

\* For any number of services, budget and backoff, over runs that overlap, are
\* killed, fail to save or tear the file: a container is restarted at most
\* MaxRestarts times before its counter is cleared, and once more for every slip
\* and every overlap.
THEOREM BudgetHolds == Spec => []RestartBudget
<1>1. WatchInv => RestartBudget
  <2> SUFFICES ASSUME WatchInv, NEW s \in Services
               PROVE  TypeOK /\ returned[s] <= MaxRestarts + slips + overlaps
    BY DEF RestartBudget, WatchInv, Types
  <2>1. /\ slips \in Nat /\ overlaps \in Nat /\ returned[s] \in Nat /\ MaxRestarts \in Nat
        /\ file.count[s] \in 0 .. MaxRestarts
        /\ \A d \in Healers : mem[d].count[s] \in 0 .. MaxRestarts
    BY StateFacts, HealerFacts, WatchdogAssumption
  <2>2. \A d : Due(d, s) \in {0, 1} /\ (Pending(d, s) => Due(d, s) = 1)
    BY DEF Due
  <2>3. returned[s] + Due("timer", s) + Due("hand", s) <= slips + overlaps + file.count[s] + Ahead(s)
    BY DEF WatchInv, Counting, FileCounts
  <2>4. CASE ~Saving
    <3>1. Ahead(s) \in {0, 1} /\ (Ahead(s) = 1 => Due("timer", s) = 1 \/ Due("hand", s) = 1)
      BY <2>2, <2>4 DEF Ahead
    <3>2. returned[s] <= MaxRestarts + slips + overlaps
      BY <2>1, <2>2, <2>3, <3>1
    <3> QED
      BY <3>2 DEF WatchInv, Types
  <2>5. CASE Saving
    <3>1. PICK d \in Healers : pc[d] = "save"
      BY <2>5 DEF Saving
    <3>2. returned[s] + Due(Other(d), s) <= slips + overlaps + mem[d].count[s]
      BY <3>1 DEF WatchInv, Counting, CopyCounts
    <3>3. returned[s] <= MaxRestarts + slips + overlaps
      BY <2>1, <2>2, <3>2
    <3> QED
      BY <3>3 DEF WatchInv, Types
  <2> QED
    BY <2>4, <2>5
<1> QED
  BY <1>1, WatchInvHolds, PTL

\* Within RecoverCooldown of a recovery whose stamp was saved by a run that was
\* alone, no run recovers the node again, for any thresholds and any kills,
\* failed saves and overlaps before and after.
THEOREM RecoveriesKeepApart == Spec => RecoveriesAreSpaced
<1> DEFINE A == (\E d \in Healers : pc[d] # "recover" /\ pc'[d] = "recover")
                => ran.age >= RecoverCooldown \/ ~ran.known
<1>1. ASSUME WatchInv, [Next]_watchdogVars, NEW d \in Healers,
             pc[d] # "recover", pc'[d] = "recover", ran.known
      PROVE  ran.age >= RecoverCooldown
  <2>1. pc \in [Dogs -> Labels] /\ d \in Dogs /\ "webhook" \in Dogs /\ d # "webhook"
    BY <1>1, HealerFacts DEF WatchInv, Types, TypeOK, Labels
  <2>2. /\ ~WebhookStart /\ ~Release /\ ~Deployment /\ ~Tear /\ ~Tick /\ ~(UNCHANGED watchdogVars)
    BY <1>1, <2>1 DEF WebhookStart, Release, Deployment, Tear, Tick, Exit, Goto, watchdogVars
  <2>3. \A s \in Services : ~(WebhookCheck(s) \/ Fail(s))
    BY <1>1, <2>1 DEF WebhookCheck, Fail, Goto
  <2>4. \A e \in Healers : ~(Start(e) \/ FullCheck(e) \/ Told(e) \/ \E s \in Services : Tell(e, s))
    BY <1>1, <2>1, HealerFacts DEF Start, FullCheck, Told, Tell, Exit, Goto
  <2>5. \A e \in Dogs : ~(HealGate(e) \/ Save(e) \/ Recover(e) \/ Reset(e) \/ Kill(e))
    BY <1>1, <2>1 DEF HealGate, Save, Recover, Reset, Kill, Exit, Goto
  <2>6. \A e \in Dogs : \A s \in Services : ~(Skip(e, s) \/ Restart(e, s) \/ RestartTimesOut(e, s))
    BY <1>1, <2>1 DEF Skip, Restart, RestartTimesOut, Goto
  <2>7. PICK e \in Dogs : DecideRecover(e)
    BY <1>1, <2>2, <2>3, <2>4, <2>5, <2>6 DEF Next
  <2>8. e = d /\ pc[d] = "heal" /\ RecoverDue(d)
    BY <1>1, <2>1, <2>7 DEF DecideRecover, Goto
  <2>9. mem[d].recovered >= RecoverCooldown /\ mem[d].recovered <= ran.age
    BY <1>1, <2>8 DEF RecoverDue, WatchInv, Stamping
  <2>10. mem[d].recovered \in Ages /\ ran.age \in Ages
    <3>1. mem[d] \in Records
      BY <1>1, <2>1, StateFacts
    <3> QED
      BY <1>1, <3>1, RecordFacts DEF WatchInv, Types
  <2> QED
    BY <2>9, <2>10, WatchdogAssumption DEF Ages
<1>2. WatchInv /\ [Next]_watchdogVars => [A]_watchdogVars
  BY <1>1
<1> QED
  BY <1>2, WatchInvHolds, PTL DEF Spec, RecoveriesAreSpaced

\* For any services, messages and cooldown: an alert that its run saved while it
\* was alone is not sent again, by whatever run, before NotifyCooldown.
THEOREM AlertsKeepApart == Spec => AlertsAreSpaced
<1> DEFINE A == \A s \in Services :
                   told[s].by = "file" /\ told'[s].by \in Healers /\ told'[s].about = told[s].about
                   => told[s].age >= NotifyCooldown
<1>1. ASSUME WatchInv, [Next]_watchdogVars, NEW s \in Services,
             told[s].by = "file", told'[s].by \in Healers, told'[s].about = told[s].about
      PROVE  told[s].age >= NotifyCooldown
  <2>1. told \in [Services -> Alarms] /\ told[s] \in Alarms /\ told'[s] # told[s] /\ "file" \notin Healers
    BY <1>1, HealerFacts DEF WatchInv, Types
  <2>2. ASSUME NEW e, NEW to \in {"file", "lost"}, HandOver(e, to) PROVE FALSE
    BY <1>1, <2>1, <2>2, HealerFacts DEF HandOver, Alarms
  <2>3. /\ ~WebhookStart /\ ~Release /\ ~Deployment /\ ~(UNCHANGED watchdogVars)
    BY <2>1 DEF WebhookStart, Release, Deployment, watchdogVars, Ghosts
  <2>4. ~Tear /\ (\A e \in Healers : ~Told(e)) /\ (\A e \in Dogs : ~Kill(e))
    BY <2>2 DEF Tear, Told, Kill
  <2>5. ~Tick
    BY <1>1, <2>1 DEF Tick, Alarms
  <2>6. \A i \in Services : ~(WebhookCheck(i) \/ Fail(i))
    BY <2>1 DEF WebhookCheck, Fail, Ghosts
  <2>7. \A e \in Healers : ~(Start(e) \/ FullCheck(e))
    BY <2>1 DEF Start, FullCheck, Ghosts
  <2>8. \A e \in Dogs : ~(HealGate(e) \/ Save(e) \/ DecideRecover(e) \/ Recover(e) \/ Reset(e))
    BY <2>1 DEF HealGate, Save, DecideRecover, Recover, Reset, Ghosts
  <2>9. \A e \in Dogs : \A i \in Services : ~(Skip(e, i) \/ Restart(e, i) \/ RestartTimesOut(e, i))
    BY <2>1 DEF Skip, Restart, RestartTimesOut, Ghosts
  <2>10. PICK d \in Healers : \E i \in Services : Tell(d, i)
    BY <1>1, <2>3, <2>4, <2>5, <2>6, <2>7, <2>8, <2>9 DEF Next
  <2>11. PICK i \in Services : Tell(d, i)
    BY <2>10
  <2> DEFINE about == report[d][i]
  <2>12. /\ pc[d] \in {"tell", "sent"} /\ i \in Issues(d)
         /\ mem[d].paged[<<i, about>>] >= NotifyCooldown
         /\ told' = [told EXCEPT ![i] = [age |-> 0, about |-> about, by |-> d]]
    BY <2>1, <2>11 DEF Tell, IssueKey
  <2>13. i = s /\ about = told[s].about
    BY <1>1, <2>1, <2>12
  <2>14. about \in Messages /\ d \in Dogs
    BY <1>1, <2>12, NoIssueFacts, HealerFacts DEF Issues, WatchInv, Types, Reports
  <2>15. mem[d].paged[<<s, told[s].about>>] <= told[s].age
    BY <1>1, <2>12, <2>13, <2>14 DEF WatchInv, Alerting, Alerted, Key
  <2>16. mem[d].paged[<<s, told[s].about>>] \in Ages /\ told[s].age \in Ages
    <3>1. mem[d].paged \in [Services \X Messages -> Ages]
      BY <1>1, <2>14, StateFacts, RecordFacts
    <3>2. <<s, told[s].about>> \in Services \X Messages
      BY <2>13, <2>14
    <3> QED
      BY <2>1, <3>1, <3>2 DEF Alarms
  <2> QED
    BY <2>12, <2>13, <2>15, <2>16, WatchdogAssumption DEF Ages
<1>2. WatchInv /\ [Next]_watchdogVars => [A]_watchdogVars
  BY <1>1
<1> QED
  BY <1>2, WatchInvHolds, PTL DEF Spec, AlertsAreSpaced
=============================================================================
