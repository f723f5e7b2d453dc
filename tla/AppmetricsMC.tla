---------------------------- MODULE AppmetricsMC ----------------------------
(***************************************************************************)
(* Instances of Appmetrics for TLC: three probes, two of which instrument  *)
(* the same module, as http-probe.js and http-outbound-probe.js do.  The   *)
(* bound is the number of calls of start().                                *)
(***************************************************************************)
EXTENDS Appmetrics

MCProbe == {"http-probe", "http-outbound-probe", "mongo-probe"}

MCType == {"http", "mongodb", "mqlight"}

MCModuleName ==
    [p \in MCProbe |-> IF p = "mongo-probe" THEN "mongodb" ELSE "http"]
=============================================================================
