---------------------------- MODULE MCIpcManager -----------------------------
(* Two threads, two endpoints with two messages each: buffers fill, wrap    *)
(* and empty, slots are freed and reused, handles of every age are used.    *)
EXTENDS IpcManager
=============================================================================
