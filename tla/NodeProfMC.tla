----------------------------- MODULE NodeProfMC -----------------------------
(***************************************************************************)
(* The instances of NodeProf for TLC: with both modes and a remote client, *)
(* and in text mode without one.  The bounds are the number of control     *)
(* messages and of starts of the agent.                                    *)
(***************************************************************************)
EXTENDS NodeProf
=============================================================================
