-------------------------- MODULE MCOperationLease --------------------------
(***************************************************************************)
(* Operations that follow one another at the deployment boundary, and      *)
(* processes that cancel whichever they find there.                        *)
(***************************************************************************)
EXTENDS OperationLease, TLC

CONSTANTS l1, l2, l3, c1, c2

MCLeases == {l1, l2, l3}
MCCancellers == {c1, c2}
Symmetry == Permutations(MCLeases) \cup Permutations(MCCancellers)
=============================================================================
