---------------------------- MODULE MCScheduler ----------------------------
(* Three submissions for TLC.                                              *)
EXTENDS Scheduler

CONSTANTS r1, r2, r3

MCRuns == {r1, r2, r3}
=============================================================================
