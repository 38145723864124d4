---------------------------- MODULE MCScheduler ----------------------------
(* Values of Scheduler's constants that a configuration cannot write.      *)
EXTENDS Scheduler

(* Keep the level (what every caller in the kernel passes), and one        *)
(* between the default and the main task's.                                *)
MCWakeLevels == {-1, 2}
=============================================================================
