----------------------------- MODULE MCConsole -----------------------------
(***************************************************************************)
(* Instances of the console for TLC.                                       *)
(***************************************************************************)
EXTENDS ConsoleProperties
=============================================================================
