----------------------------- MODULE HeapDumpMC -----------------------------
(***************************************************************************)
(* Instances of HeapDump for TLC.  The bound is the number of calls and    *)
(* SIGUSR2 signals of a run.                                               *)
(***************************************************************************)
EXTENDS HeapDump
=============================================================================
