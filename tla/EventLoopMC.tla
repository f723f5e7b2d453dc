----------------------------- MODULE EventLoopMC -----------------------------
(***************************************************************************)
(* Instances of EventLoop for TLC: two latencies, one of them a minute and *)
(* more, three samples to a report, two starts of the agent and two more   *)
(* enablings, so that intervals are made, cleared and made again.          *)
(***************************************************************************)
EXTENDS EventLoop

MCLatency == {1, 4}
=============================================================================
