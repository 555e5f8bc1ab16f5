---------------------------- MODULE MCLifecycle ----------------------------
(***************************************************************************)
(* Instances of the life of threads for TLC.                               *)
(***************************************************************************)
EXTENDS Lifecycle

CONSTANT putter

MCPutterIdle == <<putter, Idle>>
=============================================================================
