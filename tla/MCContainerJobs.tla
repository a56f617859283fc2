-------------------------- MODULE MCContainerJobs --------------------------
(* The instance of ContainerJobs that TLC checks: one job, and a crash before, *)
(* during or after anything that happens to it.                                *)
EXTENDS ContainerJobs

OneCrash == 1
=============================================================================
