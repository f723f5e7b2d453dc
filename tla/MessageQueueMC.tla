--------------------------- MODULE MessageQueueMC ---------------------------
(***************************************************************************)
(* The instance of MessageQueue for TLC.  The bound is the number of       *)
(* payloads: how many times the core calls sendData in a run.  No          *)
(* symmetry, since it is not sound for EveryMessageArrives.                *)
(***************************************************************************)
EXTENDS MessageQueue
=============================================================================
