--------------------------- MODULE DeployBoundary ---------------------------
(***************************************************************************)
(* What the deployment boundary promises to the operations that ask for it *)
(* and to the operator who wants to stop one, with no lock, file or        *)
(* process in sight.                                                       *)
(*                                                                         *)
(* An operation has the boundary once, and only when nobody else has it.   *)
(* A request to stop names an operation that has, or has had, the          *)
(* boundary.  An operation is stopped only while it has the boundary, and  *)
(* only by a request that names it; there is no promise that it is: a      *)
(* request may be overlooked.                                              *)
(***************************************************************************)
CONSTANT Operations

VARIABLES owners,   \* who has the boundary: one operation, or none
          past,     \* the operations that have had it, the owner included
          asked,    \* the operations somebody asked to stop
          stopped   \* the operations that were stopped

boundaryVars == <<owners, past, asked, stopped>>

Init == owners = {} /\ past = {} /\ asked = {} /\ stopped = {}

Take(o) ==
    /\ owners = {} /\ o \notin past
    /\ owners' = {o} /\ past' = past \cup {o}
    /\ UNCHANGED <<asked, stopped>>

\* The owner is done, or it died.
GiveBack(o) == owners = {o} /\ owners' = {} /\ UNCHANGED <<past, asked, stopped>>

Ask(o) == o \in past /\ asked' = asked \cup {o} /\ UNCHANGED <<owners, past, stopped>>

Stop(o) ==
    /\ owners = {o} /\ o \in asked
    /\ stopped' = stopped \cup {o}
    /\ UNCHANGED <<owners, past, asked>>

Next == \E o \in Operations : Take(o) \/ GiveBack(o) \/ Ask(o) \/ Stop(o)

Spec == Init /\ [][Next]_boundaryVars
=============================================================================
