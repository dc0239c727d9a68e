----------------------------- MODULE MCWatchdog -----------------------------
(***************************************************************************)
(* One container alone (MCAlone) under runs by the timer and by hand.  The *)
(* webhook job has two containers, of which only one may be restarted; it  *)
(* depends on the other.                                                   *)
(***************************************************************************)
EXTENDS Watchdog

MCServices == {"sonarr", "postgres"}
MCSafe == {"sonarr"}
MCDeps == [s \in MCServices |-> MCServices \ {s, "sonarr"}]
MCAlone == [s \in Services |-> {}]
MCBackoff == [c \in 0 .. MaxRestarts |-> c]
=============================================================================
