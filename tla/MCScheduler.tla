---------------------------- MODULE MCScheduler ----------------------------
(* Instances of module Scheduler for TLC.  The .cfg files set the constants. *)
EXTENDS Scheduler, TLC
=============================================================================
