------------------------------- MODULE MCNetJob -------------------------------
(* Instances of NetJob for TLC. *)
EXTENDS NetJob

CONSTANTS t1, t2, t3

TwoTasks == {t1, t2}
ThreeTasks == {t1, t2, t3}
OneOrTwoSlots == {1, 2}
=============================================================================
