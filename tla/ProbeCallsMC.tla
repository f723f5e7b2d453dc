---------------------------- MODULE ProbeCallsMC ----------------------------
(***************************************************************************)
(* An instance of ProbeCalls for TLC.  Probes that measure in the same way *)
(* are the same operation, so a few stand for all of them: Oracle, which   *)
(* throws if it began before requests were switched on, is otherwise like  *)
(* Redis and those after it, MySql too when there is a callback, and       *)
(* SocketioEmit when there is none.  MongoFind, which may end again like   *)
(* Http, Leveldown, whose start hook throws, and listeners that are no     *)
(* roots, AxonOn("other"), are left out.                                   *)
(***************************************************************************)
EXTENDS ProbeCalls

Each == {Http, Loopback, Oracle, MqttMessage, TraceMethod}
=============================================================================
