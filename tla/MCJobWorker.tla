----------------------------- MODULE MCJobWorker -----------------------------
(***************************************************************************)
(* Controllers at work on one job.  Both processes use the same worker id: *)
(* the controller is process 1 of its container, so every restart has the  *)
(* id controller-1 again and only the generation tells attempts apart.     *)
(***************************************************************************)
EXTENDS JobWorker

CONSTANTS deploy, p1, p2, w1

MCWorkerIds == {w1}
MCWorkerId == [p \in Processes |-> w1]
=============================================================================
