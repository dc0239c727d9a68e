----------------------------- MODULE MCBootstrap -----------------------------
(***************************************************************************)
(* Two capabilities, so that one supersedes the other, and two requests    *)
(* that race for the setup or follow one another after a crash, while      *)
(* another writer saves files or makes a key.                              *)
(***************************************************************************)
EXTENDS Bootstrap, TLC

CONSTANTS c1, c2, i1, i2

MCCapabilities == {c1, c2}
MCRequests == {i1, i2}
Symmetry == Permutations(MCCapabilities) \cup Permutations(MCRequests)

\* Other writers appear only where at most one capability is issued.
Bounds == edits = 0 \/ \E c \in Capabilities : cap[c] = "none"
=============================================================================
