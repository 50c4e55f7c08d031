-------------------------- MODULE MCConcurrentTask --------------------------
(* Instances of ConcurrentTask for TLC. *)
EXTENDS ConcurrentTask

CONSTANTS t1, t2, t3

TwoTasks == {t1, t2}
ThreeTasks == {t1, t2, t3}
OneOrTwoSlots == {1, 2}
=============================================================================
