------------------------------ MODULE Bootstrap ------------------------------
(***************************************************************************)
(* First-run initialization: the one-time capability and the session it is *)
(* exchanged for (toolkit/controller/store.py), and the request that       *)
(* publishes configuration, keys and secrets under that session            *)
(* (toolkit/controller/bootstrap_api.py, initialize_bootstrap).            *)
(*                                                                         *)
(* Files are published one by one and the manifest last; whether the       *)
(* installation is ready is derived from the files found.  The settings    *)
(* and secrets endpoints and the CLI rewrite files at any time, without    *)
(* bootstrap.lock and without touching the manifest.  As in JobStore,      *)
(* expiry is kept as the number of ticks left, and a store method may act  *)
(* on a clock reading that is up to MaxDelay ticks old.                    *)
(***************************************************************************)
EXTENDS Integers, FiniteSets

CONSTANTS
    Capabilities,   \* capability ids; a session has the id of its capability
    Requests,       \* initialization requests
    None,
    Edited,         \* stands for another writer than an initialization
    Ttl,            \* lifetime of both credentials, in ticks
    MaxDelay,       \* how long a store method may wait after reading the clock
    MaxAttempts,    \* _MAX_BOOTSTRAP_ATTEMPTS
    MaxCrashes,     \* bound on controller crashes
    MaxEdits        \* bound on the saves and keys of other writers

ASSUME BootstrapAssumption ==
    /\ None \notin Requests /\ Edited \notin Requests \cup {None}
    /\ Ttl \in Nat \ {0} /\ MaxDelay \in Nat /\ MaxAttempts \in Nat \ {0}
    /\ MaxCrashes \in Nat /\ MaxEdits \in Nat

\* _MANAGED_FILES in the order of publication.  The first four are keys and
\* their configuration (_ORPHANED_MATERIAL_FILES); the last three are the
\* configuration and the secrets (_PARTIAL_STATE_FILES).
Files == 1 .. 7
Orphaned == 1 .. 4
Partial == 5 .. 7
SopsYaml == 1
AgeKey == 2
LocalConfig == 5

VARIABLES
    cap, capLeft, capFails,  \* bootstrap_capabilities: standing, expiry, failed_attempts
    ses, sesLeft, sesFails,  \* bootstrap_sessions
    checked,                 \* API requests that have passed the check of the phase
    file,                    \* file[f]: the request that published f, Edited, or None
    keygen,                  \* init_sops has made a key and not yet written .sops.yaml
    manifest,                \* the request whose manifest is published, or None
    lock,                    \* holder of bootstrap.lock
    at,                      \* at[i]: where request i stands, or its answer
    uses,                    \* uses[i]: the session it presents
    next,                    \* next[i]: the file it publishes next
    crashes, edits

credentials == <<cap, capLeft, capFails, ses, sesLeft, sesFails>>
published == <<file, keygen, edits, manifest>>
vars == <<credentials, checked, published, lock, at, uses, next, crashes>>

Delays == 0 .. MaxDelay
Answers == {"ok", "refused", "unavailable", "not committed", "invalid", "recover"}
Busy == {"locking", "removing", "staging", "installing", "sealing", "verifying", "consuming"}

Init ==
    /\ cap = [c \in Capabilities |-> "none"] /\ ses = [c \in Capabilities |-> "none"]
    /\ capLeft = [c \in Capabilities |-> 0] /\ sesLeft = [c \in Capabilities |-> 0]
    /\ capFails = [c \in Capabilities |-> 0] /\ sesFails = [c \in Capabilities |-> 0]
    /\ checked = {}
    /\ file = [f \in Files |-> None] /\ manifest = None /\ keygen = FALSE /\ edits = 0
    /\ lock = None
    /\ at = [i \in Requests |-> "new"]
    /\ uses = [i \in Requests |-> None]
    /\ next = [i \in Requests |-> 1]
    /\ crashes = 0

\* bootstrap_phase: the manifest holds the digests of all files.
Phase ==
    IF manifest # None
    THEN IF \A f \in Files : file[f] = manifest THEN "ready" ELSE "recovery_required"
    ELSE IF \E f \in Partial : file[f] # None THEN "recovery_required" ELSE "uninitialized"

-----------------------------------------------------------------------------
(* Credentials.                                                            *)

\* _capability_is_active, _authenticate_bootstrap_session
CapabilityActive(c, d) == cap[c] = "open" /\ capFails[c] < MaxAttempts /\ capLeft[c] + d > 0
SessionValid(c, d) == ses[c] = "open" /\ sesFails[c] < MaxAttempts /\ sesLeft[c] + d > 0

\* The endpoints look at the phase before they call the store.
Check(what) ==
    /\ Phase = "uninitialized"
    /\ checked' = checked \cup {what}
    /\ UNCHANGED <<credentials, published, lock, at, uses, next, crashes>>

\* (mutant) only unused capabilities are revoked, not the running session.
IssueKeepingSession(c, d) ==
    /\ "issue" \in checked /\ cap[c] = "none"
    /\ checked' = checked \ {"issue"}
    /\ cap' = [k \in Capabilities |->
                  IF k = c THEN "open"
                  ELSE IF cap[k] = "open" /\ capLeft[k] + d > 0 THEN "revoked" ELSE cap[k]]
    /\ capLeft' = [capLeft EXCEPT ![c] = Ttl - d]
    /\ UNCHANGED <<capFails, ses, sesLeft, sesFails, published, lock, at, uses, next, crashes>>

\* issue_bootstrap_capability: everything issued before is revoked.
Issue(c, d) ==
    /\ "issue" \in checked /\ cap[c] = "none"
    /\ checked' = checked \ {"issue"}
    /\ cap' = [k \in Capabilities |->
                  IF k = c THEN "open"
                  ELSE IF cap[k] = "open" /\ capLeft[k] + d > 0 THEN "revoked" ELSE cap[k]]
    /\ ses' = [k \in Capabilities |->
                  IF ses[k] = "open" /\ sesLeft[k] + d > 0 THEN "revoked" ELSE ses[k]]
    /\ capLeft' = [capLeft EXCEPT ![c] = Ttl - d]
    /\ UNCHANGED <<capFails, sesLeft, sesFails, published, lock, at, uses, next, crashes>>

\* exchange_bootstrap_capability with the right secret; the session does not
\* outlive the capability.
Exchange(c, d) ==
    /\ "exchange" \in checked
    /\ checked' = checked \ {"exchange"}
    /\ CapabilityActive(c, d)
    /\ cap' = [cap EXCEPT ![c] = "exchanged"]
    /\ ses' = [ses EXCEPT ![c] = "open"]
    /\ sesLeft' = [sesLeft EXCEPT ![c] = IF Ttl - d < capLeft[c] THEN Ttl - d ELSE capLeft[c]]
    /\ UNCHANGED <<capLeft, capFails, sesFails, published, lock, at, uses, next, crashes>>

\* _record_bootstrap_failure: a wrong secret for a known id.
FailCapability(c) ==
    /\ "exchange" \in checked
    /\ checked' = checked \ {"exchange"}
    /\ cap[c] = "open" /\ capFails[c] < MaxAttempts
    /\ capFails' = [capFails EXCEPT ![c] = @ + 1]
    /\ cap' = [cap EXCEPT ![c] = IF capFails'[c] = MaxAttempts THEN "revoked" ELSE @]
    /\ UNCHANGED <<capLeft, ses, sesLeft, sesFails, published, lock, at, uses, next, crashes>>

FailSession(c) ==
    /\ ses[c] = "open" /\ sesFails[c] < MaxAttempts
    /\ sesFails' = [sesFails EXCEPT ![c] = @ + 1]
    /\ ses' = [ses EXCEPT ![c] = IF sesFails'[c] = MaxAttempts THEN "revoked" ELSE @]
    /\ UNCHANGED <<cap, capLeft, capFails, sesLeft, checked, published, lock, at, uses, next, crashes>>

Count(standing, left) ==
    [c \in Capabilities |-> IF standing[c] = "open" /\ left[c] > -MaxDelay THEN left[c] - 1 ELSE left[c]]

Tick ==
    /\ capLeft' = Count(cap, capLeft) /\ sesLeft' = Count(ses, sesLeft)
    /\ UNCHANGED <<cap, capFails, ses, sesFails, checked, published, lock, at, uses, next, crashes>>

-----------------------------------------------------------------------------
(* initialize_bootstrap                                                    *)

Goto(i, place) == at' = [at EXCEPT ![i] = place]

\* The request is answered; bootstrap.lock is given up.
Answer(i, answer) == Goto(i, answer) /\ lock' = None

\* An exception that initialize_bootstrap does not know is translated by what
\* bootstrap_phase says about the files as they are left.
Translate(i) == Answer(i, IF Phase' = "recovery_required" THEN "recover" ELSE "not committed")

\* validate_bootstrap_grant, before the lock is waited for.
Validate(i, c, d) ==
    /\ at[i] = "new" /\ ses[c] # "none"
    /\ uses' = [uses EXCEPT ![i] = c]
    /\ Goto(i, IF SessionValid(c, d) THEN "locking" ELSE "refused")
    /\ UNCHANGED <<credentials, checked, published, lock, next, crashes>>

\* (mutant) the phase was checked by the endpoints and is not checked again.
LockUnchecked(i) ==
    /\ at[i] = "locking" /\ lock = None
    /\ lock' = i /\ Goto(i, "removing")
    /\ UNCHANGED <<credentials, checked, published, uses, next, crashes>>

\* bootstrap.lock, then the phase.
Lock(i) ==
    /\ at[i] = "locking" /\ lock = None
    /\ \/ Phase = "uninitialized" /\ lock' = i /\ Goto(i, "removing")
       \/ Phase # "uninitialized" /\ Answer(i, "unavailable")
    /\ UNCHANGED <<credentials, checked, published, uses, next, crashes>>

\* (mutant) what an interrupted initialization left is not cleared.
RemoveNothing(i) ==
    /\ at[i] = "removing"
    /\ Goto(i, "staging")
    /\ UNCHANGED <<credentials, checked, published, lock, uses, next, crashes>>

\* _remove_orphaned_bootstrap_material
Remove(i) ==
    /\ at[i] = "removing"
    /\ file' = [f \in Files |-> IF f \in Orphaned THEN None ELSE file[f]]
    /\ Goto(i, "staging")
    /\ UNCHANGED <<credentials, checked, keygen, edits, manifest, lock, uses, next, crashes>>

\* _prepare_staged_state: invalid values are reported as such.
Stage(i) ==
    /\ at[i] = "staging"
    /\ UNCHANGED <<credentials, checked, published, uses, next, crashes>>
    /\ \/ Goto(i, "installing") /\ UNCHANGED lock
       \/ Answer(i, "invalid")
       \/ Translate(i)

\* _install_file_exclusive for the next managed file; it may fail before the
\* link is made and, in the sync of the directory, after it.
Install(i) ==
    /\ at[i] = "installing"
    /\ UNCHANGED <<credentials, checked, keygen, edits, manifest, uses, crashes>>
    /\ \/ /\ file[next[i]] = None
          /\ file' = [file EXCEPT ![next[i]] = i]
          /\ next' = [next EXCEPT ![i] = @ + 1]
          /\ Goto(i, IF next[i] = 7 THEN "sealing" ELSE "installing")
          /\ UNCHANGED lock
       \/ /\ \/ UNCHANGED file
             \/ file[next[i]] = None /\ file' = [file EXCEPT ![next[i]] = i]
          /\ UNCHANGED next
          /\ Translate(i)

\* The manifest is published last, in the same way.
Seal(i) ==
    /\ at[i] = "sealing"
    /\ UNCHANGED <<credentials, checked, file, keygen, edits, uses, next, crashes>>
    /\ \/ manifest = None /\ manifest' = i /\ Goto(i, "verifying") /\ UNCHANGED lock
       \/ UNCHANGED manifest /\ Translate(i)
       \/ manifest = None /\ manifest' = i /\ Translate(i)

Verify(i) ==
    /\ at[i] = "verifying"
    /\ \/ Phase = "ready" /\ Goto(i, "consuming") /\ UNCHANGED lock
       \/ Phase # "ready" /\ Answer(i, "recover")
    /\ UNCHANGED <<credentials, checked, published, uses, next, crashes>>

\* consume_bootstrap_grant: by now the session may be expired or revoked.
Consume(i, d) ==
    /\ at[i] = "consuming"
    /\ UNCHANGED <<cap, capLeft, capFails, sesLeft, sesFails, checked, published, uses, next, crashes>>
    /\ \/ /\ SessionValid(uses[i], d)
          /\ ses' = [ses EXCEPT ![uses[i]] = "consumed"]
          /\ Answer(i, "ok")
       \/ ~SessionValid(uses[i], d) /\ Translate(i) /\ UNCHANGED ses

\* The controller crashes: every request is gone, the files stay, except for
\* those that a removal has already reached.
Crash ==
    /\ crashes < MaxCrashes
    /\ \E i \in Requests : at[i] \in Busy
    /\ at' = [i \in Requests |-> IF at[i] \in Busy THEN "dead" ELSE at[i]]
    /\ lock' = None /\ checked' = {}
    /\ crashes' = crashes + 1
    /\ \/ UNCHANGED file
       \/ /\ \E i \in Requests : at[i] = "removing"
          /\ \E n \in Orphaned : file' = [f \in Files |-> IF f <= n THEN None ELSE file[f]]
    /\ UNCHANGED <<credentials, keygen, edits, manifest, uses, next>>

-----------------------------------------------------------------------------
(* Other writers of the managed files: update_dns_public_ip,               *)
(* update_settings, update_secret_values, generate_secret_values, the      *)
(* rotation of secrets and the CLI.  They exclude one another, but not an  *)
(* initialization.                                                         *)

Write(f, by) ==
    /\ file' = [file EXCEPT ![f] = by]
    /\ UNCHANGED <<credentials, checked, manifest, lock, at, uses, next, crashes>>

\* save_config, save_local_config, save_secrets_plaintext: the file is
\* replaced; config.local.yaml is removed when it would be empty.
Save ==
    /\ edits < MaxEdits /\ edits' = edits + 1
    /\ \/ \E f \in Partial : Write(f, Edited)
       \/ Write(LocalConfig, None)
    /\ UNCHANGED keygen

\* ensure_sops_ready, init_sops: without .sops.yaml and without a key a key is
\* made, and then .sops.yaml written, unless that fails.
MakeKey ==
    /\ edits < MaxEdits /\ edits' = edits + 1
    /\ ~keygen /\ file[SopsYaml] = None /\ file[AgeKey] = None
    /\ Write(AgeKey, Edited)
    /\ keygen' = TRUE

WriteSops ==
    /\ keygen
    /\ keygen' = FALSE /\ UNCHANGED edits
    /\ \E by \in {Edited, file[SopsYaml]} : Write(SopsYaml, by)

Next ==
    \/ \E what \in {"issue", "exchange"} : Check(what)
    \/ \E c \in Capabilities, d \in Delays : Issue(c, d) \/ Exchange(c, d)
    \/ \E c \in Capabilities : FailCapability(c) \/ FailSession(c)
    \/ \E i \in Requests, c \in Capabilities, d \in Delays : Validate(i, c, d)
    \/ \E i \in Requests : Lock(i) \/ Remove(i) \/ Stage(i) \/ Install(i) \/ Seal(i) \/ Verify(i)
    \/ \E i \in Requests, d \in Delays : Consume(i, d)
    \/ Tick \/ Crash
    \/ Save \/ MakeKey \/ WriteSops

Spec == Init /\ [][Next]_vars

-----------------------------------------------------------------------------
\* The credential rows and the requests keep their types: failure counters stop
\* at _MAX_BOOTSTRAP_ATTEMPTS and the manifest is always that of a request.
TypeOK ==
    /\ cap \in [Capabilities -> {"none", "open", "exchanged", "revoked"}]
    /\ ses \in [Capabilities -> {"none", "open", "consumed", "revoked"}]
    /\ capLeft \in [Capabilities -> -MaxDelay .. Ttl] /\ sesLeft \in [Capabilities -> -MaxDelay .. Ttl]
    /\ capFails \in [Capabilities -> 0 .. MaxAttempts] /\ sesFails \in [Capabilities -> 0 .. MaxAttempts]
    /\ checked \subseteq {"issue", "exchange"}
    /\ file \in [Files -> Requests \cup {None, Edited}] /\ keygen \in BOOLEAN
    /\ manifest \in Requests \cup {None} /\ lock \in Requests \cup {None}
    /\ at \in [Requests -> {"new", "dead"} \cup Busy \cup Answers]
    /\ uses \in [Requests -> Capabilities \cup {None}]
    /\ next \in [Requests -> 1 .. 8]
    /\ crashes \in 0 .. MaxCrashes /\ edits \in 0 .. MaxEdits

\* (With TypeOK.) issue_bootstrap_capability promises "the sole active
\* bootstrap capability": at any time at most one credential, capability or
\* session, opens the setup.
SoleCredential ==
    /\ TypeOK
    /\ Cardinality({c \in Capabilities : CapabilityActive(c, 0)})
          + Cardinality({c \in Capabilities : SessionValid(c, 0)}) <= 1

\* Publishing never runs into files of an earlier, interrupted or concurrent
\* initialization: under the lock everything that is not published yet is
\* absent, or was put there by the settings, the secrets or the CLI.
NothingInTheWay ==
    \A i \in Requests :
        at[i] = "installing" =>
            manifest = None /\ \A f \in Files : f >= next[i] => file[f] \in {None, Edited}

\* The file is the one request i published, or one of the settings and secrets
\* that was saved, or removed, since.
Inherited(i, f) ==
    \/ file[f] = i
    \/ file[f] = Edited /\ f \in Partial \cup {SopsYaml}
    \/ file[f] = None /\ f = LocalConfig

\* A request that was answered with success stays the one that initialized the
\* installation: no later initialization and no editor replaces its manifest,
\* its age key or its SSH keys, and what is no longer its own was saved by an
\* editor.  (After such a save bootstrap_phase is recovery_required for good,
\* since nothing renews the manifest; the installation is never again open to
\* an initialization.)
SuccessIsKept ==
    \A i \in Requests :
        at[i] = "ok" => manifest = i /\ Phase # "uninitialized" /\ \A f \in Files : Inherited(i, f)
=============================================================================
