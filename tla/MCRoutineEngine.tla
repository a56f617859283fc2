-------------------------- MODULE MCRoutineEngine --------------------------
(* Two cron routines and an event routine against a global limit of one place: *)
(* a tick is broken off with a routine left, the ticker and the two watchers   *)
(* compete for the place, and manual fires go past it.                         *)
EXTENDS RoutineEngine

CONSTANTS c1, c2, e1, f1, f2

TwoCrons == {c1, c2}
OneEvent == {e1}
TwoFires == {f1, f2}
One == 1

=============================================================================
