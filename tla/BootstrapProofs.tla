--------------------------- MODULE BootstrapProofs ---------------------------
(***************************************************************************)
(* Proofs about Bootstrap, for any number of capabilities and requests and *)
(* any bounds.                                                             *)
(*                                                                         *)
(* SoleCredential counts what is active at this moment.  SoleInv says the  *)
(* same of pairs: two credentials whose time has not run out are one.  The *)
(* delay of the clock reading is what makes it subtle: Issue revokes by an *)
(* old reading, Exchange may take a capability that has just expired.      *)
(*                                                                         *)
(* NothingInTheWay and SuccessIsKept rest on Published, which says for     *)
(* each place in initialize_bootstrap whose files are on disk, and on the  *)
(* lock being held from the first removal to the answer.  Other writers do *)
(* not take the lock; Inherited says what they can make of a file.         *)
(***************************************************************************)
EXTENDS Bootstrap, FiniteSetTheorems, TLAPS

LiveCapability(c) == cap[c] = "open" /\ capLeft[c] > 0
LiveSession(c) == ses[c] = "open" /\ sesLeft[c] > 0

SoleInv ==
    \A c, k \in Capabilities :
        /\ LiveCapability(c) /\ LiveCapability(k) => c = k
        /\ LiveSession(c) /\ LiveSession(k) => c = k
        /\ ~(LiveCapability(c) /\ LiveSession(k))

\* The places in initialize_bootstrap that are reached under the lock.
Inside == {"removing", "staging", "installing", "sealing", "verifying", "consuming"}

LockInv == \A i \in Requests : at[i] \in Inside => lock = i

\* Whose files are there when request i is at its place.
Stands(i) ==
    /\ at[i] \in {"new", "locking", "removing", "staging"} => next[i] = 1
    /\ at[i] \in {"removing", "staging", "installing", "sealing"} => manifest = None
    /\ at[i] = "removing" => \A f \in Partial : file[f] \in {None, Edited}
    /\ at[i] = "staging" => \A f \in Files : file[f] \in {None, Edited}
    /\ at[i] = "installing" =>
          /\ next[i] \in Files
          /\ \A f \in Files : IF f < next[i] THEN Inherited(i, f) ELSE file[f] \in {None, Edited}
    /\ at[i] = "sealing" => \A f \in Files : Inherited(i, f)
    /\ at[i] \in {"verifying", "consuming", "ok"} => manifest = i /\ \A f \in Files : Inherited(i, f)

Published == \A i \in Requests : Stands(i)

BootstrapInv == TypeOK /\ SoleInv /\ LockInv /\ Published

\* Steps of the credentials and steps of the requests; only Consume is both.
CredentialStep ==
    \/ \E what \in {"issue", "exchange"} : Check(what)
    \/ \E c \in Capabilities, d \in Delays : Issue(c, d) \/ Exchange(c, d)
    \/ \E c \in Capabilities : FailCapability(c) \/ FailSession(c)
    \/ Tick

Untouched == UNCHANGED <<published, lock, at, uses, next, crashes>>

\* The credential methods of the store leave files, lock and requests alone.
LEMMA CredentialsLeaveFiles == CredentialStep => Untouched
BY DEF CredentialStep, Untouched, Check, Issue, Exchange, FailCapability, FailSession, Tick

\* The credential rows keep their types.
CredentialTypes ==
    /\ cap \in [Capabilities -> {"none", "open", "exchanged", "revoked"}]
    /\ ses \in [Capabilities -> {"none", "open", "consumed", "revoked"}]
    /\ capLeft \in [Capabilities -> -MaxDelay .. Ttl] /\ sesLeft \in [Capabilities -> -MaxDelay .. Ttl]
    /\ capFails \in [Capabilities -> 0 .. MaxAttempts] /\ sesFails \in [Capabilities -> 0 .. MaxAttempts]
    /\ checked \subseteq {"issue", "exchange"}

\* Every credential method keeps the types of the rows.
LEMMA CredentialsTyped ==
    ASSUME CredentialTypes, CredentialStep
    PROVE  CredentialTypes'
<1> USE BootstrapAssumption DEF CredentialTypes
<1>1. ASSUME NEW what \in {"issue", "exchange"}, Check(what) PROVE CredentialTypes'
  BY <1>1 DEF Check, credentials
<1>2. ASSUME NEW c \in Capabilities, NEW d \in Delays, Issue(c, d) PROVE CredentialTypes'
  <2>1. Ttl - d \in -MaxDelay .. Ttl
    BY DEF Delays
  <2>2. cap' \in [Capabilities -> {"none", "open", "exchanged", "revoked"}]
    BY <1>2 DEF Issue
  <2>3. ses' \in [Capabilities -> {"none", "open", "consumed", "revoked"}]
    BY <1>2 DEF Issue
  <2>4. capLeft' \in [Capabilities -> -MaxDelay .. Ttl]
    BY <1>2, <2>1 DEF Issue
  <2> QED
    BY <1>2, <2>2, <2>3, <2>4 DEF Issue
<1>3. ASSUME NEW c \in Capabilities, NEW d \in Delays, Exchange(c, d) PROVE CredentialTypes'
  <2>1. (IF Ttl - d < capLeft[c] THEN Ttl - d ELSE capLeft[c]) \in -MaxDelay .. Ttl
    BY DEF Delays
  <2> QED
    BY <1>3, <2>1 DEF Exchange
<1>4. ASSUME NEW c \in Capabilities, FailCapability(c) PROVE CredentialTypes'
  <2>1. capFails[c] + 1 \in 0 .. MaxAttempts
    BY <1>4 DEF FailCapability
  <2>2. capFails' \in [Capabilities -> 0 .. MaxAttempts]
    BY <1>4, <2>1 DEF FailCapability
  <2>3. cap' \in [Capabilities -> {"none", "open", "exchanged", "revoked"}]
    BY <1>4 DEF FailCapability
  <2> QED
    BY <1>4, <2>2, <2>3 DEF FailCapability
<1>5. ASSUME NEW c \in Capabilities, FailSession(c) PROVE CredentialTypes'
  <2>1. sesFails[c] + 1 \in 0 .. MaxAttempts
    BY <1>5 DEF FailSession
  <2>2. sesFails' \in [Capabilities -> 0 .. MaxAttempts]
    BY <1>5, <2>1 DEF FailSession
  <2>3. ses' \in [Capabilities -> {"none", "open", "consumed", "revoked"}]
    BY <1>5 DEF FailSession
  <2> QED
    BY <1>5, <2>2, <2>3 DEF FailSession
<1>6. CASE Tick
  <2>1. \A standing, left : left \in [Capabilities -> -MaxDelay .. Ttl] =>
            Count(standing, left) \in [Capabilities -> -MaxDelay .. Ttl]
    BY DEF Count
  <2> QED
    BY <1>6, <2>1 DEF Tick
<1> QED
  BY <1>1, <1>2, <1>3, <1>4, <1>5, <1>6 DEF CredentialStep

\* At most one credential opens the setup, through every step on credentials.
LEMMA CredentialsSole ==
    ASSUME CredentialTypes, SoleInv, CredentialStep
    PROVE  SoleInv'
<1> USE BootstrapAssumption
<1>1. ASSUME \A c \in Capabilities : /\ LiveCapability(c)' => LiveCapability(c)
                                     /\ LiveSession(c)' => LiveSession(c)
      PROVE  SoleInv'
  BY <1>1 DEF SoleInv
<1>2. ASSUME NEW what \in {"issue", "exchange"}, Check(what) PROVE SoleInv'
  BY <1>1, <1>2 DEF Check, credentials, LiveCapability, LiveSession
<1>3. ASSUME NEW c \in Capabilities, NEW d \in Delays, Issue(c, d) PROVE SoleInv'
  <2>1. ASSUME NEW k \in Capabilities \ {c} PROVE ~LiveCapability(k)'
    <3>1. capLeft'[k] = capLeft[k] /\ capLeft[k] \in Int /\ d \in Nat
      BY <1>3 DEF Issue, CredentialTypes, Delays
    <3>2. cap'[k] = IF cap[k] = "open" /\ capLeft[k] + d > 0 THEN "revoked" ELSE cap[k]
      BY <1>3 DEF Issue, CredentialTypes
    <3> QED
      BY <3>1, <3>2 DEF LiveCapability
  <2>2. ASSUME NEW k \in Capabilities PROVE ~LiveSession(k)'
    <3>1. sesLeft'[k] = sesLeft[k] /\ sesLeft[k] \in Int /\ d \in Nat
      BY <1>3 DEF Issue, CredentialTypes, Delays
    <3>2. ses'[k] = IF ses[k] = "open" /\ sesLeft[k] + d > 0 THEN "revoked" ELSE ses[k]
      BY <1>3 DEF Issue, CredentialTypes
    <3> QED
      BY <3>1, <3>2 DEF LiveSession
  <2> QED
    BY <2>1, <2>2 DEF SoleInv
<1>4. ASSUME NEW c \in Capabilities, NEW d \in Delays, Exchange(c, d) PROVE SoleInv'
  <2>1. \A k \in Capabilities : LiveCapability(k)' => k # c /\ LiveCapability(k)
    BY <1>4 DEF Exchange, LiveCapability, CredentialTypes
  <2>2. \A k \in Capabilities \ {c} : LiveSession(k)' => LiveSession(k)
    BY <1>4 DEF Exchange, LiveSession, CredentialTypes
  <2>3. LiveSession(c)' => LiveCapability(c)
    <3>1. cap[c] = "open"
      BY <1>4 DEF Exchange, CapabilityActive
    <3>2. sesLeft'[c] <= capLeft[c] /\ sesLeft'[c] \in Int /\ capLeft[c] \in Int
      <4>1. sesLeft'[c] = IF Ttl - d < capLeft[c] THEN Ttl - d ELSE capLeft[c]
        BY <1>4 DEF Exchange, CredentialTypes
      <4> QED
        BY <4>1 DEF CredentialTypes, Delays
    <3> QED
      BY <3>1, <3>2 DEF LiveSession, LiveCapability
  <2> QED
    BY <2>1, <2>2, <2>3 DEF SoleInv
<1>5. ASSUME NEW c \in Capabilities, FailCapability(c) \/ FailSession(c) PROVE SoleInv'
  <2>1. ASSUME NEW k \in Capabilities
        PROVE  (LiveCapability(k)' => LiveCapability(k)) /\ (LiveSession(k)' => LiveSession(k))
    BY <1>5 DEF FailCapability, FailSession, LiveCapability, LiveSession, CredentialTypes
  <2> QED
    BY <1>1, <2>1
<1>6. CASE Tick
  <2>1. ASSUME NEW k \in Capabilities
        PROVE  (LiveCapability(k)' => LiveCapability(k)) /\ (LiveSession(k)' => LiveSession(k))
    BY <1>6 DEF Tick, Count, LiveCapability, LiveSession, CredentialTypes
  <2> QED
    BY <1>1, <2>1
<1> QED
  BY <1>2, <1>3, <1>4, <1>5, <1>6 DEF CredentialStep

-----------------------------------------------------------------------------
(* Requests and files.                                                     *)

RequestTypes ==
    /\ file \in [Files -> Requests \cup {None, Edited}] /\ keygen \in BOOLEAN
    /\ manifest \in Requests \cup {None} /\ lock \in Requests \cup {None}
    /\ at \in [Requests -> {"new", "dead"} \cup Busy \cup Answers]
    /\ uses \in [Requests -> Capabilities \cup {None}]
    /\ next \in [Requests -> 1 .. 8]
    /\ crashes \in 0 .. MaxCrashes /\ edits \in 0 .. MaxEdits

FileInv == RequestTypes /\ LockInv /\ Published

\* What request i does while it is the only one inside, or outside.
RequestStep(i) ==
    \/ \E c \in Capabilities, d \in Delays : Validate(i, c, d)
    \/ Lock(i) \/ Remove(i) \/ Stage(i) \/ Install(i) \/ Seal(i) \/ Verify(i)
    \/ \E d \in Delays : Consume(i, d)

\* A request that gives up the lock is inside; one that takes it finds it free.
\* The other requests stay where they are.
LEMMA RequestMoves ==
    ASSUME NEW i \in Requests, FileInv, RequestStep(i)
    PROVE  /\ RequestTypes'
           /\ LockInv'
           /\ \A j \in Requests \ {i} : at'[j] = at[j] /\ next'[j] = next[j]
<1> USE BootstrapAssumption
<1>1. at' = [at EXCEPT ![i] = at'[i]] /\ at'[i] \in {"new", "dead"} \cup Busy \cup Answers
  BY DEF RequestStep, Validate, Lock, Remove, Stage, Install, Seal, Verify, Consume, Goto, Answer,
         Translate, Busy, Answers, FileInv, RequestTypes
<1>2. next' = next \/ (at[i] = "installing" /\ next' = [next EXCEPT ![i] = @ + 1])
  BY DEF RequestStep, Validate, Lock, Remove, Stage, Install, Seal, Verify, Consume
<1>3. next' \in [Requests -> 1 .. 8]
  <2>1. at[i] = "installing" => next[i] + 1 \in 1 .. 8
    BY DEF FileInv, Published, Stands, Files
  <2> QED
    BY <1>2, <2>1 DEF FileInv, RequestTypes
<1>4. at' \in [Requests -> {"new", "dead"} \cup Busy \cup Answers]
  BY <1>1 DEF FileInv, RequestTypes
<1>5. /\ file' \in [Files -> Requests \cup {None, Edited}] /\ manifest' \in Requests \cup {None}
      /\ keygen' = keygen /\ edits' = edits
  BY DEF RequestStep, Validate, Lock, Remove, Stage, Install, Seal, Verify, Consume, published,
         FileInv, RequestTypes
<1>6. lock' \in {i, None, lock} /\ crashes' = crashes
  BY DEF RequestStep, Validate, Lock, Remove, Stage, Install, Seal, Verify, Consume, Answer, Translate
<1>7. uses' \in [Requests -> Capabilities \cup {None}]
  BY DEF RequestStep, Validate, Lock, Remove, Stage, Install, Seal, Verify, Consume,
         FileInv, RequestTypes
<1>8. \A j \in Requests \ {i} : at'[j] = at[j] /\ next'[j] = next[j]
  BY <1>1, <1>2 DEF FileInv, RequestTypes
<1>9. LockInv'
  <2>1. CASE at[i] \in Inside
    <3>1. lock' = lock \/ (lock' = None /\ at'[i] \in Answers)
      BY <2>1 DEF RequestStep, Validate, Lock, Remove, Stage, Install, Seal, Verify, Consume, Answer,
                  Goto, Translate, Inside, Answers, FileInv, RequestTypes
    <3>2. \A j \in Requests \ {i} : at[j] \notin Inside
      BY <2>1 DEF FileInv, LockInv
    <3> QED
      BY <2>1, <3>1, <3>2, <1>8 DEF LockInv, FileInv, Inside, Answers
  <2>2. CASE at[i] \notin Inside
    <3>1. \/ at'[i] \notin Inside /\ lock' = lock
          \/ lock = None /\ at'[i] \notin Inside /\ lock' = None
          \/ lock = None /\ lock' = i
      BY <2>2 DEF RequestStep, Validate, Lock, Remove, Stage, Install, Seal, Verify, Consume, Answer,
                  Goto, Translate, Inside, Answers, FileInv, RequestTypes
    <3> QED
      BY <3>1, <1>8 DEF LockInv, FileInv
  <2> QED
    BY <2>1, <2>2
<1> QED
  BY <1>3, <1>4, <1>5, <1>6, <1>7, <1>8, <1>9 DEF RequestTypes, FileInv

\* A request that is the only one inside changes files no other one counts on.
LEMMA PublishedStep ==
    ASSUME NEW i \in Requests, FileInv, RequestStep(i)
    PROVE  Published'
<1> USE BootstrapAssumption
<1>1. \A j \in Requests \ {i} : at'[j] = at[j] /\ next'[j] = next[j]
  BY RequestMoves
<1>2. Stands(i) /\ \A j \in Requests : Stands(j)
  BY DEF FileInv, Published
<1>3. ASSUME UNCHANGED published, Stands(i)' PROVE Published'
  BY <1>1, <1>2, <1>3 DEF Published, Stands, published, Inherited
<1>4. ASSUME at[i] \in Inside, manifest = None, Stands(i)' PROVE Published'
  <2>1. \A j \in Requests \ {i} : at[j] \notin Inside /\ at[j] # "ok"
    BY <1>2, <1>4 DEF FileInv, LockInv, Stands
  <2>2. \A j \in Requests \ {i} : Stands(j)'
    BY <1>1, <1>2, <2>1 DEF Stands, Inside
  <2> QED
    BY <1>4, <2>2 DEF Published
<1>5. ASSUME NEW c \in Capabilities, NEW d \in Delays, Validate(i, c, d) PROVE Published'
  <2>1. next' = next /\ UNCHANGED published /\ at[i] = "new" /\ at'[i] \in {"locking", "refused"}
    BY <1>5 DEF Validate, Goto, FileInv, RequestTypes
  <2> QED
    BY <1>2, <1>3, <2>1 DEF Stands
<1>6. CASE Lock(i)
  <2>1. next' = next /\ UNCHANGED published /\ at[i] = "locking"
    BY <1>6 DEF Lock
  <2>2. at'[i] = "unavailable" \/ (at'[i] = "removing" /\ Phase = "uninitialized")
    BY <1>6 DEF Lock, Goto, Answer, FileInv, RequestTypes
  <2>3. Phase = "uninitialized" => manifest = None /\ \A f \in Partial : file[f] = None
    BY DEF Phase
  <2> QED
    BY <1>2, <1>3, <2>1, <2>2, <2>3 DEF Stands, published
<1>7. CASE Remove(i)
  <2>1. /\ next' = next /\ manifest' = manifest /\ at[i] = "removing" /\ at'[i] = "staging"
        /\ file' = [f \in Files |-> IF f \in Orphaned THEN None ELSE file[f]]
    BY <1>7 DEF Remove, Goto, FileInv, RequestTypes
  <2>2. manifest = None /\ \A f \in Files : file'[f] \in {None, Edited}
    BY <1>2, <2>1 DEF Stands, Files, Orphaned, Partial
  <2> QED
    BY <1>2, <1>4, <2>1, <2>2 DEF Stands, Inside
<1>8. CASE Stage(i)
  <2>1. next' = next /\ UNCHANGED published /\ at[i] = "staging"
    BY <1>8 DEF Stage
  <2>2. at'[i] \in {"installing", "invalid", "recover", "not committed"}
    BY <1>8 DEF Stage, Goto, Answer, Translate, FileInv, RequestTypes
  <2>3. next[i] = 1 /\ 1 \in Files /\ \A f \in Files : ~(f < 1)
    BY <1>2, <2>1 DEF Stands, Files
  <2> QED
    BY <1>2, <1>3, <2>1, <2>2, <2>3 DEF Stands, published
<1>9. CASE Install(i)
  <2>1. at[i] = "installing" /\ manifest' = manifest /\ manifest = None /\ next[i] \in Files
    BY <1>2, <1>9 DEF Install, Stands
  <2>2. \/ /\ file' = [file EXCEPT ![next[i]] = i] /\ next'[i] = next[i] + 1
           /\ at'[i] = IF next[i] = 7 THEN "sealing" ELSE "installing"
        \/ at'[i] \in {"recover", "not committed"}
    BY <1>9 DEF Install, Goto, Answer, Translate, FileInv, RequestTypes
  <2>3. ASSUME file' = [file EXCEPT ![next[i]] = i], next'[i] = next[i] + 1,
               at'[i] = IF next[i] = 7 THEN "sealing" ELSE "installing"
        PROVE  Stands(i)'
    <3>1. \A f \in Files : IF f < next[i] THEN Inherited(i, f) ELSE file[f] \in {None, Edited}
      BY <1>2, <2>1 DEF Stands
    <3>2. \A f \in Files : IF f < next'[i] THEN Inherited(i, f)' ELSE file'[f] \in {None, Edited}
      BY <2>1, <2>3, <3>1 DEF FileInv, RequestTypes, Files, Inherited
    <3>3. at'[i] = "sealing" => \A f \in Files : Inherited(i, f)'
      BY <2>3, <3>2 DEF Files
    <3>4. at'[i] = "installing" => next'[i] \in Files
      BY <2>1, <2>3 DEF Files
    <3> QED
      BY <2>1, <2>3, <3>2, <3>3, <3>4 DEF Stands
  <2>4. at'[i] \in {"recover", "not committed"} => Stands(i)'
    BY DEF Stands
  <2> QED
    BY <1>4, <2>1, <2>2, <2>3, <2>4 DEF Inside
<1>10. CASE Seal(i)
  <2>1. at[i] = "sealing" /\ file' = file /\ next' = next /\ manifest = None
    BY <1>2, <1>10 DEF Seal, Stands
  <2>2. (manifest' = i /\ at'[i] = "verifying") \/ at'[i] \in {"recover", "not committed"}
    BY <1>10 DEF Seal, Goto, Answer, Translate, FileInv, RequestTypes
  <2> QED
    BY <1>2, <1>4, <2>1, <2>2 DEF Stands, Inside, Inherited
<1>11. CASE Verify(i)
  <2>1. UNCHANGED published /\ at[i] = "verifying"
    BY <1>11 DEF Verify
  <2>2. at'[i] \in {"consuming", "recover"}
    BY <1>11 DEF Verify, Goto, Answer, FileInv, RequestTypes
  <2> QED
    BY <1>2, <1>3, <2>1, <2>2 DEF Stands, published, Inherited
<1>12. ASSUME NEW d \in Delays, Consume(i, d) PROVE Published'
  <2>1. UNCHANGED published /\ at[i] = "consuming"
    BY <1>12 DEF Consume
  <2>2. at'[i] \in {"ok", "recover", "not committed"}
    BY <1>12 DEF Consume, Goto, Answer, Translate, FileInv, RequestTypes
  <2> QED
    BY <1>2, <1>3, <2>1, <2>2 DEF Stands, published, Inherited
<1> QED
  BY <1>5, <1>6, <1>7, <1>8, <1>9, <1>10, <1>11, <1>12 DEF RequestStep

\* A crash leaves the files; a removal it interrupts had no manifest before it.
LEMMA CrashStep ==
    ASSUME FileInv, Crash
    PROVE  FileInv'
<1> USE BootstrapAssumption
<1>1. \A j \in Requests : at'[j] = IF at[j] \in Busy THEN "dead" ELSE at[j]
  BY DEF Crash
<1>2. /\ manifest' = manifest /\ next' = next /\ uses' = uses /\ lock' = None
      /\ keygen' = keygen /\ edits' = edits
      /\ crashes' \in 0 .. MaxCrashes
  BY DEF Crash, FileInv, RequestTypes
<1>3. at' \in [Requests -> {"new", "dead"} \cup Busy \cup Answers]
  BY DEF Crash, FileInv, RequestTypes
<1>4. file' \in [Files -> Requests \cup {None, Edited}]
  BY DEF Crash, FileInv, RequestTypes
<1>5. LockInv'
  BY <1>1 DEF LockInv, Inside, Busy
<1>6. file' = file \/ manifest = None
  BY DEF Crash, FileInv, Published, Stands
<1>7. \A j \in Requests : Stands(j)'
  BY <1>1, <1>2, <1>6 DEF FileInv, Published, Stands, Busy, Inherited
<1> QED
  BY <1>2, <1>3, <1>4, <1>5, <1>7 DEF FileInv, RequestTypes, Published

EditStep == Save \/ MakeKey \/ WriteSops

\* Other writers take nothing of a request away but what they may replace: a
\* key is made only where none is, and a published key is never missing.
LEMMA EditsKeepFiles ==
    ASSUME FileInv, EditStep
    PROVE  FileInv'
<1> USE BootstrapAssumption
<1>1. UNCHANGED <<manifest, lock, at, uses, next, crashes>>
  BY DEF EditStep, Save, MakeKey, WriteSops, Write
<1>2. RequestTypes'
  <2>1. file' \in [Files -> Requests \cup {None, Edited}]
    BY DEF EditStep, Save, MakeKey, WriteSops, Write, FileInv, RequestTypes, Files, SopsYaml
  <2>2. keygen' \in BOOLEAN
    BY Zenon DEF EditStep, Save, MakeKey, WriteSops, FileInv, RequestTypes
  <2>3. edits' = edits \/ (edits < MaxEdits /\ edits' = edits + 1)
    BY Zenon DEF EditStep, Save, MakeKey, WriteSops
  <2>4. edits' \in 0 .. MaxEdits
    BY <2>3 DEF FileInv, RequestTypes
  <2> QED
    BY <1>1, <2>1, <2>2, <2>4 DEF FileInv, RequestTypes
<1>3. LockInv'
  BY <1>1 DEF FileInv, LockInv
<1>4. \A f \in Files :
          \/ file'[f] = file[f]
          \/ file'[f] = Edited /\ f \in Partial \cup {SopsYaml}
          \/ file'[f] = None /\ f = LocalConfig
          \/ file'[f] = Edited /\ f = AgeKey /\ file[f] = None
  <2>1. file \in [Files -> Requests \cup {None, Edited}]
    BY DEF FileInv, RequestTypes
  <2>2. \/ \E g \in Partial : file' = [file EXCEPT ![g] = Edited]
        \/ file' = [file EXCEPT ![LocalConfig] = None]
        \/ file[AgeKey] = None /\ file' = [file EXCEPT ![AgeKey] = Edited]
        \/ \E by \in {Edited, file[SopsYaml]} : file' = [file EXCEPT ![SopsYaml] = by]
    BY Zenon DEF EditStep, Save, MakeKey, WriteSops, Write
  <2>3. CASE \E g \in Partial : file' = [file EXCEPT ![g] = Edited]
    BY <2>1, <2>3
  <2>4. CASE file' = [file EXCEPT ![LocalConfig] = None]
    BY <2>1, <2>4
  <2>5. CASE file[AgeKey] = None /\ file' = [file EXCEPT ![AgeKey] = Edited]
    BY <2>1, <2>5
  <2>6. CASE \E by \in {Edited, file[SopsYaml]} : file' = [file EXCEPT ![SopsYaml] = by]
    BY <2>1, <2>6 DEF SopsYaml
  <2> QED
    BY <2>2, <2>3, <2>4, <2>5, <2>6
<1>5. ASSUME NEW j \in Requests, NEW f \in Files
      PROVE  /\ Inherited(j, f) => Inherited(j, f)'
             /\ file[f] \in {None, Edited} => file'[f] \in {None, Edited}
  BY <1>4 DEF Inherited, Partial, SopsYaml, LocalConfig, AgeKey
<1>6. \A j \in Requests : Stands(j)'
  BY <1>1, <1>5 DEF FileInv, Published, Stands, Partial, Files
<1> QED
  BY <1>2, <1>3, <1>6 DEF FileInv, Published

\* The credentials a request may still change: consuming ends a session.
LEMMA RequestsSpendSessions ==
    ASSUME NEW i \in Requests, CredentialTypes, SoleInv, RequestStep(i) \/ Crash
    PROVE  CredentialTypes' /\ SoleInv'
<1>1. CASE UNCHANGED credentials
  <2>1. checked' \subseteq {"issue", "exchange"}
    BY DEF RequestStep, Validate, Lock, Remove, Stage, Install, Seal, Verify, Consume, Crash,
           CredentialTypes
  <2> QED
    BY <1>1, <2>1 DEF credentials, CredentialTypes, SoleInv, LiveCapability, LiveSession
<1>2. ASSUME NEW c, ses' = [ses EXCEPT ![c] = "consumed"],
             UNCHANGED <<cap, capLeft, capFails, sesLeft, sesFails, checked>>
      PROVE  CredentialTypes' /\ SoleInv'
  <2>1. CredentialTypes'
    BY <1>2 DEF CredentialTypes
  <2>2. \A k \in Capabilities : /\ LiveSession(k)' => LiveSession(k)
                                /\ LiveCapability(k)' => LiveCapability(k)
    BY <1>2 DEF LiveSession, LiveCapability, CredentialTypes
  <2> QED
    BY <2>1, <2>2 DEF SoleInv
<1>3. \/ UNCHANGED credentials
      \/ \E d \in Delays : Consume(i, d) /\ ~UNCHANGED credentials
  BY DEF RequestStep, Validate, Lock, Remove, Stage, Install, Seal, Verify, Crash
<1>4. ASSUME NEW d \in Delays, Consume(i, d), ~UNCHANGED credentials PROVE CredentialTypes' /\ SoleInv'
  BY <1>2, <1>4 DEF Consume, credentials
<1> QED
  BY <1>1, <1>3, <1>4

\* The invariant holds through every issue, exchange, request and crash.
THEOREM BootstrapInvariant == Spec => []BootstrapInv
<1> USE BootstrapAssumption
<1>0. BootstrapInv <=> CredentialTypes /\ SoleInv /\ FileInv
  BY DEF BootstrapInv, TypeOK, CredentialTypes, FileInv, RequestTypes
<1>1. Init => CredentialTypes /\ SoleInv /\ FileInv
  <2> SUFFICES ASSUME Init PROVE CredentialTypes /\ SoleInv /\ FileInv
    OBVIOUS
  <2>1. CredentialTypes /\ SoleInv
    BY DEF Init, CredentialTypes, SoleInv, LiveCapability, LiveSession
  <2>2. FileInv
    <3>1. keygen \in BOOLEAN
      BY DEF Init
    <3>2. RequestTypes
      BY <3>1 DEF Init, RequestTypes
    <3> QED
      BY <3>2 DEF Init, FileInv, LockInv, Published, Stands, Inside
  <2> QED
    BY <2>1, <2>2
<1>2. BootstrapInv /\ [Next]_vars => BootstrapInv'
  <2> SUFFICES ASSUME CredentialTypes, SoleInv, FileInv, [Next]_vars
               PROVE  CredentialTypes' /\ SoleInv' /\ FileInv'
    BY <1>0 DEF BootstrapInv, TypeOK, CredentialTypes, FileInv, RequestTypes
  <2>1. ASSUME Untouched PROVE FileInv'
    BY <2>1 DEF Untouched, published, FileInv, RequestTypes, LockInv, Published, Stands, Inherited
  <2>2. CASE CredentialStep
    BY <2>1, <2>2, CredentialsLeaveFiles, CredentialsTyped, CredentialsSole
  <2>3. ASSUME NEW i \in Requests, RequestStep(i) PROVE CredentialTypes' /\ SoleInv' /\ FileInv'
    BY <2>3, RequestMoves, PublishedStep, RequestsSpendSessions DEF FileInv
  <2>4. CASE Crash
    <3>1. PICK i \in Requests : at[i] \in Busy
      BY <2>4 DEF Crash
    <3> QED
      BY <2>4, <3>1, CrashStep, RequestsSpendSessions
  <2>5. CASE UNCHANGED vars
    BY <2>1, <2>5
    DEF vars, credentials, Untouched, CredentialTypes, SoleInv, LiveCapability, LiveSession
  <2>6. CASE EditStep
    <3>1. UNCHANGED <<credentials, checked>>
      BY <2>6 DEF EditStep, Save, MakeKey, WriteSops, Write
    <3> QED
      BY <2>6, <3>1, EditsKeepFiles
      DEF credentials, CredentialTypes, SoleInv, LiveCapability, LiveSession
  <2>7. \/ CredentialStep \/ (\E i \in Requests : RequestStep(i)) \/ Crash \/ EditStep
        \/ UNCHANGED vars
    BY DEF Next, CredentialStep, RequestStep, EditStep
  <2> QED
    BY <2>2, <2>3, <2>4, <2>5, <2>6, <2>7
<1> QED
  BY <1>0, <1>1, <1>2, PTL DEF Spec

\* At most one capability or session opens the setup at any time, whatever
\* issues, exchanges, failed attempts and stale clock readings come together
\* (issue_bootstrap_capability, exchange_bootstrap_capability).
THEOREM CredentialIsSole == Spec => []SoleCredential
<1>1. BootstrapInv => SoleCredential
  <2> SUFFICES ASSUME BootstrapInv PROVE SoleCredential
    OBVIOUS
  <2> DEFINE A == {c \in Capabilities : CapabilityActive(c, 0)}
             B == {c \in Capabilities : SessionValid(c, 0)}
  <2>1. (\A c \in A : LiveCapability(c)) /\ (\A c \in B : LiveSession(c))
    <3>1. \A c \in Capabilities : capLeft[c] \in Int /\ sesLeft[c] \in Int
      BY BootstrapAssumption DEF BootstrapInv, TypeOK
    <3> QED
      BY <3>1 DEF CapabilityActive, SessionValid, LiveCapability, LiveSession
  <2>2. (A = {} \/ B = {}) /\ (A = {} \/ \E a \in A : A = {a}) /\ (B = {} \/ \E b \in B : B = {b})
    BY <2>1 DEF BootstrapInv, SoleInv
  <2> HIDE DEF A, B
  <2>3. \A S : (\E x \in S : S = {x}) => Cardinality(S) = 1
    BY FS_Singleton
  <2>4. Cardinality({}) = 0
    BY FS_EmptySet
  <2>5. Cardinality(A) + Cardinality(B) <= 1
    BY <2>2, <2>3, <2>4
  <2> QED
    BY <2>5 DEF SoleCredential, BootstrapInv, A, B
<1> QED
  BY <1>1, BootstrapInvariant, PTL

\* Publishing never meets a file that an interrupted or concurrent
\* initialization left behind, whatever settings and secrets are saved beside
\* it (_install_file_exclusive).
THEOREM PublishingIsClear == Spec => []NothingInTheWay
<1>1. BootstrapInv => NothingInTheWay
  BY DEF BootstrapInv, TypeOK, Published, Stands, NothingInTheWay, Files
<1> QED
  BY <1>1, BootstrapInvariant, PTL

\* The request that was answered with success stays the one whose manifest and
\* keys are in place, and every file that is not its own any more was saved by
\* the settings, the secrets or the CLI (initialize_bootstrap).
THEOREM SuccessStays == Spec => []SuccessIsKept
<1>1. BootstrapInv => SuccessIsKept
  BY BootstrapAssumption DEF BootstrapInv, Published, Stands, SuccessIsKept, Phase
<1> QED
  BY <1>1, BootstrapInvariant, PTL
=============================================================================
