-------------------------- MODULE MCTaskScheduler --------------------------
(* Four tasks, two permits, and room for one task more than the permits.   *)
EXTENDS TaskScheduler

CONSTANTS t1, t2, t3, t4

MCTasks == {t1, t2, t3, t4}
=============================================================================
