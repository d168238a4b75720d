---------------------------- MODULE MCPreemption -----------------------------
(* The kernel thread, up to three tasks and the timer on one CPU.           *)
EXTENDS Preemption

MCStaleFrame == 100
MCNullFrame == 101
MCFrames == 0 .. MaxTaskId \cup {MCStaleFrame}
=============================================================================
