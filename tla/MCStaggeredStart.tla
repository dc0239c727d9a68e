-------------------------- MODULE MCStaggeredStart --------------------------
(* Two waves, the second of them with a retrying plugin. *)
EXTENDS StaggeredStart

RetryingMC == {2}
=============================================================================
