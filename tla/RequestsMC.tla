----------------------------- MODULE RequestsMC -----------------------------
(***************************************************************************)
(* Instances of Requests for TLC.  The bound is the number of requests.    *)
(***************************************************************************)
EXTENDS Requests
=============================================================================
