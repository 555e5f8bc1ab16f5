------------------------------ MODULE MCKernel ------------------------------
(***************************************************************************)
(* Instances of the kernel core for TLC.                                   *)
(***************************************************************************)
EXTENDS KernelProperties

CONSTANTS putter, w1, w2, s1

MCIdleOnly == <<Idle>>
MCPutterIdle == <<putter, Idle>>

=============================================================================
