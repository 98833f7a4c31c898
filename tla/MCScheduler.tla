---------------------------- MODULE MCScheduler ----------------------------
(***************************************************************************)
(* The properties of Scheduler, and the instance TLC checks them on.       *)
(***************************************************************************)
EXTENDS SchedulerProperties

CONSTANTS c1, c2, c3

MCCoroutines == {c1, c2, c3}

=============================================================================
