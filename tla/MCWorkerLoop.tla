---------------------------- MODULE MCWorkerLoop ----------------------------
(* Bounded instances of WorkerLoop.                                            *)
EXTENDS WorkerLoop

MCUsage == {0, 1, 2}
=============================================================================
