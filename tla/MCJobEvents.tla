----------------------------- MODULE MCJobEvents -----------------------------
(***************************************************************************)
(* One job that may be attempted twice, followed by a browser with small   *)
(* pages and by the command line.                                          *)
(***************************************************************************)
EXTENDS JobEvents

CONSTANTS j1, w1, browser, shell

MCFollows == [r \in Followers |-> j1]
=============================================================================
