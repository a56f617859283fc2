--------------------------- MODULE MCJobLifecycle ---------------------------
(* Bounded instances of JobLifecycle.                                          *)
EXTENDS JobRefinement

CONSTANTS j1, j2

OneJob == {j1}
TwoJobs == {j1, j2}
=============================================================================
