---------------------------- MODULE MCScheduler ----------------------------
(***************************************************************************)
(* Small instances of Scheduler for TLC.  The constants are given in the   *)
(* configurations; threads and cores are not interchangeable there,        *)
(* because InitThread and the restarted cores are singled out.             *)
(***************************************************************************)
EXTENDS Scheduler

=============================================================================
