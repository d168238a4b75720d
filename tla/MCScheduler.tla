----------------------------- MODULE MCScheduler -----------------------------
(* The scheduler API checked with a run queue of three slots and a table of *)
(* two tasks: the holes a removal leaves, the wrap of a rotation and the    *)
(* full table all occur, and a third id is available for a refused create.  *)
EXTENDS Scheduler

MCFrames == {"kernel", "user"}
MCValidFrames == {"kernel"}
=============================================================================
