----------------------------- MODULE MCScheduler -----------------------------
(***************************************************************************)
(* Scheduler for TLC.  Slots of requests are interchangeable: an action    *)
(* treats every free slot alike and no property names one.                 *)
(***************************************************************************)
EXTENDS Scheduler, TLC

RequestSymmetry == Permutations(BatchRequests)
=============================================================================
