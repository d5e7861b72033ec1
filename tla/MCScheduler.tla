---------------------------- MODULE MCScheduler ----------------------------
(* TLC instances of Scheduler.                                             *)
EXTENDS Scheduler

CONSTANTS a, b, k

=============================================================================
