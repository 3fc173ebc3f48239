----------------------------- MODULE MCScheduler -----------------------------
(* The scheduler with three tasks, two of them spawned at boot. *)
EXTENDS Scheduler

CONSTANTS t1, t2, t3

MCTasks == {t1, t2, t3}
MCBoot  == <<t1, t2>>
=============================================================================
