------------------------------- MODULE MCHeap -------------------------------
(***************************************************************************)
(* Instances of the heap for TLC.                                          *)
(***************************************************************************)
EXTENDS HeapProperties
=============================================================================
