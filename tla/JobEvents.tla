------------------------------ MODULE JobEvents ------------------------------
(***************************************************************************)
(* The event log of the jobs (table job_events of toolkit/controller/      *)
(* store.py) and those who follow it: the browser's event stream           *)
(* (webui/controller_sse.py, static/js/operations.js) and the command line *)
(* (cli/controller_jobs.py).                                               *)
(*                                                                         *)
(* A sequence number is allocated inside the writing transaction, so the   *)
(* events of a job become visible in the order of their numbers: log[j] is *)
(* that order, and a number stands for its position in it.                 *)
(*                                                                         *)
(* A follower reads a page of events and the job's state in two requests.  *)
(***************************************************************************)
EXTENDS JobStore, Sequences

CONSTANTS
    Streams,      \* event streams of a browser
    Commands,     \* command line processes in wait_for_controller_job
    Follows,      \* Follows[r]: the job that follower r is interested in
    PageLimit,    \* events per request
    MaxRetries,   \* connections a browser opens after the first one
    MaxLines      \* bound on the lines a job logs

Followers == Streams \cup Commands

ASSUME EventsAssumption ==
    /\ Streams \cap Commands = {}
    /\ Follows \in [Followers -> Jobs]
    /\ PageLimit \in Nat \ {0}
    /\ MaxRetries \in Nat
    /\ MaxLines \in Nat

VARIABLES
    log,       \* log[j]: the events of job j; 0 is its verdict, g > 0 a line of attempt g
    at,        \* at[r]: where follower r stands
    cursor,    \* cursor[r]: the number after which it reads
    got,       \* got[r]: the numbers of the events it has shown, in order
    retries    \* retries[r]: reconnections so far

followVars == <<at, cursor, got, retries>>
eventVars == <<storeVars, log, followVars>>

Verdict == 0
Watching == {"page", "ask"}
Over == {"done", "failed", "gone"}

EInit ==
    /\ Init
    /\ log = [j \in Jobs |-> <<>>]
    /\ at = [r \in Followers |-> "page"]
    /\ cursor = [r \in Followers |-> 0]
    /\ got = [r \in Followers |-> <<>>]
    /\ retries = [r \in Followers |-> 0]

-----------------------------------------------------------------------------
(* Writers: the store's transactions with the events they insert.          *)

\* The verdicts of the jobs in S are inserted.
LogVerdicts(S) == log' = [j \in Jobs |-> IF j \in S THEN Append(log[j], Verdict) ELSE log[j]]

\* (mutant) append_event does not look at the lease of the caller.
AppendUnfenced(j, w, g, d) ==
    /\ state[j] # "none" /\ g > 0
    /\ Len(log[j]) < MaxLines
    /\ log' = [log EXCEPT ![j] = Append(@, g)]
    /\ UNCHANGED storeVars

\* append_event, as OperationContext.log calls it.
AppendEvent(j, w, g, d) ==
    /\ LiveLease(j, w, g, d)
    /\ Len(log[j]) < MaxLines
    /\ log' = [log EXCEPT ![j] = Append(@, g)]
    /\ UNCHANGED storeVars

\* (mutant) claim_next settles abandoned cancellations without an event.
ClaimSilently(w, d) ==
    /\ (\E j \in Jobs : ClaimNext(w, j, d)) \/ ClaimNothing(d)
    /\ UNCHANGED log

\* claim_next
ClaimLogged(w, d) ==
    /\ (\E j \in Jobs : ClaimNext(w, j, d)) \/ ClaimNothing(d)
    /\ LogVerdicts(Abandoned(d))

\* transition, with the event every caller passes along.
TransitionLogged(j, w, g, d) ==
    /\ \E expected \in Leased, target \in Terminal : Transition(j, expected, target, w, g, d)
    /\ LogVerdicts({j})

\* request_cancel: only a job that never ran gets its verdict here.
CancelLogged(j) ==
    /\ RequestCancel(j)
    /\ LogVerdicts(IF state[j] = "QUEUED" THEN {j} ELSE {})

Writer ==
    /\ \/ \E j \in Jobs, A \in SUBSET Jobs : Submit(j, A) /\ UNCHANGED log
       \/ \E w \in WorkerIds, d \in Delays : ClaimLogged(w, d)
       \/ \E j \in Jobs, w \in WorkerIds, g \in Generations, d \in Delays :
             \/ RenewLease(j, w, g, d) /\ UNCHANGED log
             \/ TransitionLogged(j, w, g, d)
             \/ AppendEvent(j, w, g, d)
       \/ \E j \in Jobs : CancelLogged(j)
       \/ Tick /\ UNCHANGED log
    /\ UNCHANGED followVars

-----------------------------------------------------------------------------
(* Followers.                                                              *)

Proceed(r, place) == at' = [at EXCEPT ![r] = place]

\* One follows a job whose id was returned by the submission.
Following(r) == state[Follows[r]] # "none"

\* events_after: the numbers of the next page.
PageEnd(r) ==
    LET n == Len(log[Follows[r]])
    IN  IF n < cursor[r] + PageLimit THEN n ELSE cursor[r] + PageLimit

\* The events up to number n are shown.
Show(r, n) ==
    got' = [got EXCEPT ![r] = @ \o [i \in 1 .. n - cursor[r] |-> cursor[r] + i]]

\* (mutant) off by one: a page that is not full is taken for a full one.
ReadPageAgain(r) ==
    /\ at[r] = "page" /\ Following(r)
    /\ Show(r, PageEnd(r))
    /\ cursor' = [cursor EXCEPT ![r] = PageEnd(r)]
    /\ Proceed(r, IF r \in Streams /\ PageEnd(r) <= cursor[r] + PageLimit THEN "page" ELSE "ask")
    /\ UNCHANGED <<storeVars, log, retries>>

\* A page is read and shown.  A stream goes on to the next page as long as
\* pages are full; the command line looks at the job after every page.
ReadPage(r) ==
    /\ at[r] = "page" /\ Following(r)
    /\ Show(r, PageEnd(r))
    /\ cursor' = [cursor EXCEPT ![r] = PageEnd(r)]
    /\ Proceed(r, IF r \in Streams /\ PageEnd(r) = cursor[r] + PageLimit THEN "page" ELSE "ask")
    /\ UNCHANGED <<storeVars, log, retries>>

\* get_job: a terminal state ends it, otherwise it sleeps and reads again.
AskState(r) ==
    /\ at[r] = "ask"
    /\ Proceed(r, IF state[Follows[r]] \in Terminal THEN "done" ELSE "page")
    /\ UNCHANGED <<storeVars, log, cursor, got, retries>>

\* The browser loses its connection, with any part of the page received; it
\* tries again a few times.  On the command line the error ends the wait.
Disconnect(r) ==
    /\ at[r] \in Watching /\ Following(r)
    /\ \/ /\ r \in Streams
          /\ \E n \in cursor[r] .. PageEnd(r) : (at[r] = "page" \/ n = cursor[r]) /\ Show(r, n)
          /\ Proceed(r, IF retries[r] < MaxRetries THEN "lost" ELSE "failed")
       \/ r \in Commands /\ Proceed(r, "failed") /\ UNCHANGED got
    /\ UNCHANGED <<storeVars, log, cursor, retries>>

\* (mutant) the new connection starts where the old one had started.
ReconnectFromStart(r) ==
    /\ at[r] = "lost"
    /\ retries' = [retries EXCEPT ![r] = @ + 1]
    /\ cursor' = [cursor EXCEPT ![r] = 0]
    /\ Proceed(r, "page")
    /\ UNCHANGED <<storeVars, log, got>>

\* connect(retries + 1) with after = lastEventId.
Reconnect(r) ==
    /\ at[r] = "lost"
    /\ retries' = [retries EXCEPT ![r] = @ + 1]
    /\ cursor' = [cursor EXCEPT ![r] = IF got[r] = <<>> THEN 0 ELSE got[r][Len(got[r])]]
    /\ Proceed(r, "page")
    /\ UNCHANGED <<storeVars, log, got>>

\* The command line stops waiting (deadline or interrupt): it cancels the job,
\* which the controller refuses if it is too late.
StopWaiting(r) ==
    /\ r \in Commands /\ at[r] \in Watching /\ Following(r)
    /\ Proceed(r, "gone")
    /\ \/ CancelLogged(Follows[r])
       \/ ~CanCancel(Follows[r], state[Follows[r]]) /\ UNCHANGED <<storeVars, log>>
    /\ UNCHANGED <<cursor, got, retries>>

Follow(r) == ReadPage(r) \/ AskState(r) \/ Reconnect(r)

ENext ==
    \/ Writer
    \/ \E r \in Followers : Follow(r) \/ Disconnect(r) \/ StopWaiting(r)

\* A follower keeps polling; nothing is assumed of the controllers.
ESpec == EInit /\ [][ENext]_eventVars /\ \A r \in Followers : WF_eventVars(Follow(r))

-----------------------------------------------------------------------------
\* The store keeps its types while events are appended; numbers, cursors and
\* reconnections stay in range.
ETypeOK ==
    /\ TypeOK
    /\ log \in [Jobs -> Seq(Generations)]
    /\ at \in [Followers -> Watching \cup Over \cup {"lost"}]
    /\ cursor \in [Followers -> Nat]
    /\ got \in [Followers -> Seq(Nat)]
    /\ retries \in [Followers -> 0 .. MaxRetries]

\* (With ETypeOK.) What the attempts of a replayed job logged does not mix,
\* and nothing is logged after the verdict: append_event's lease check
\* fences both the child that a crash left behind and the one that is late.
LogIsFenced ==
    /\ ETypeOK
    /\ \A j \in Jobs, n \in 1 .. MaxLines + 1 :
          n < Len(log[j]) => log[j][n] # Verdict /\ log[j][n + 1] \in {Verdict} \cup log[j][n] .. MaxGeneration

\* A job has its verdict in the log exactly when it is over, whoever ended it.
VerdictIsLogged ==
    \A j \in Jobs :
        state[j] \in Terminal <=> \E n \in 1 .. Len(log[j]) : log[j][n] = Verdict

\* A follower shows the events of its job from the first one on, each once and
\* in order, across pages and reconnections.
ShownInOrder ==
    \A r \in Followers : got[r] = [n \in 1 .. Len(got[r]) |-> n]

\* Whoever follows a finished job gets to the end of it.
FollowersFinish ==
    \A r \in Followers : state[Follows[r]] \in Terminal ~> at[r] \in Over
=============================================================================
