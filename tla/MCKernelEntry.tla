---------------------------- MODULE MCKernelEntry -----------------------------
(* Every exception of a processor without the extensions behind vectors 21, *)
(* 29 and 30; two numbers, one of which is a system call.                   *)
EXTENDS KernelEntry

Exceptions == (0 .. 31) \ {21, 29, 30}
=============================================================================
