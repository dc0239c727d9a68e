---------------------------- MODULE JobLifecycle ----------------------------
(***************************************************************************)
(* What a durable controller job promises to the operator who submitted    *)
(* it, with no table, lease, worker or clock in sight.                     *)
(*                                                                         *)
(* A job is accepted once.  It may then be attempted any number of times   *)
(* (the controller may crash while it runs), until exactly one verdict is  *)
(* reached; the verdict never changes.  A job whose cancellation was       *)
(* accepted is never attempted again and never reported as a success.      *)
(***************************************************************************)

CONSTANT Jobs

VARIABLES phase,      \* phase[j]: how far the job has come
          attempts    \* attempts[j]: how often it was handed to a worker

lifecycleVars == <<phase, attempts>>

LOCAL INSTANCE Naturals

Verdicts == {"succeeded", "partial", "failed", "cancelled"}

Init == /\ phase = [j \in Jobs |-> "absent"]
        /\ attempts = [j \in Jobs |-> 0]

\* Move one job to another phase, leaving its attempt count alone.
Move(j, p) == /\ phase' = [phase EXCEPT ![j] = p]
              /\ UNCHANGED attempts

Accept(j) == phase[j] = "absent" /\ Move(j, "waiting")

\* A worker starts a waiting job, or takes over one that was abandoned.  The
\* same step may settle cancellations whose worker is gone: set S.
Attempt(j, S) ==
    /\ phase[j] \in {"waiting", "active"}
    /\ \A i \in S : phase[i] = "cancelling"
    /\ phase' = [i \in Jobs |-> IF i = j THEN "active"
                                ELSE IF i \in S THEN "cancelled" ELSE phase[i]]
    /\ attempts' = [attempts EXCEPT ![j] = @ + 1]

Settle(S) ==
    /\ \A i \in S : phase[i] = "cancelling"
    /\ phase' = [i \in Jobs |-> IF i \in S THEN "cancelled" ELSE phase[i]]
    /\ UNCHANGED attempts

Conclude(j) ==
    \/ phase[j] = "active" /\ \E v \in Verdicts \ {"cancelled"} : Move(j, v)
    \/ phase[j] = "cancelling" /\ \E v \in {"failed", "cancelled"} : Move(j, v)

Cancel(j) ==
    \/ phase[j] = "waiting" /\ Move(j, "cancelled")
    \/ phase[j] = "active" /\ Move(j, "cancelling")

Next == \/ \E j \in Jobs : Accept(j) \/ Conclude(j) \/ Cancel(j)
        \/ \E S \in SUBSET Jobs : Settle(S) \/ \E j \in Jobs : Attempt(j, S)

Spec == Init /\ [][Next]_lifecycleVars
=============================================================================
