----------------------------- MODULE MCScheduler -----------------------------
(* Scheduler on a handful of processes. *)
EXTENDS Scheduler
=============================================================================
