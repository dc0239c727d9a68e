--------------------------- MODULE MCReleaseUpdate ---------------------------
(***************************************************************************)
(* Two roles and a few releases, so that an update can cover one role or   *)
(* both and can be built on top of one that was never deployed.            *)
(***************************************************************************)
EXTENDS ReleaseUpdate, TLC

CONSTANTS r1, r2

MCRoles == {r1, r2}
Symmetry == Permutations(MCRoles)
=============================================================================
