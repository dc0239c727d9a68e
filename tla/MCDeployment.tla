---------------------------- MODULE MCDeployment ----------------------------
(* Instances of Deployment for TLC. *)
EXTENDS Deployment, TLC

CONSTANTS n1, n2, a

NodesMC == {n1, n2}
ServicesMC == {a}

\* Nodes are interchangeable.
NodeSymmetry == Permutations(NodesMC)
=============================================================================
