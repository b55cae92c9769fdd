---------------------------- MODULE MCScheduler -----------------------------
(* The worker of the task scheduler and one of an operator; a crashed worker *)
(* starts again under its name.                                              *)
EXTENDS Scheduler
=============================================================================
