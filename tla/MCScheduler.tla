---------------------------- MODULE MCScheduler ----------------------------
(***************************************************************************)
(* A small instance of the scheduler: two tasks in every lane, so that two  *)
(* interactive tasks overlap, a queue holds a task behind another and a     *)
(* preempted body runs beside its successor.  Of the two Background tasks   *)
(* one, `build', cannot be preempted.                                       *)
(***************************************************************************)
EXTENDS SchedulerProperties, TLC

CONSTANTS i1, i2, n1, n2, b1, build

MCInteractive == {i1, i2}
MCNear == {n1, n2}
MCBackground == {b1, build}
MCPreemptible == {b1}
=============================================================================
