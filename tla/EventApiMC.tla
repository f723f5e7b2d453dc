----------------------------- MODULE EventApiMC -----------------------------
(***************************************************************************)
(* Instances of EventApi for TLC: three starts of the agent and two        *)
(* messages about the operating system, so that either kind may come twice *)
(* before the other.                                                       *)
(***************************************************************************)
EXTENDS EventApi
=============================================================================
