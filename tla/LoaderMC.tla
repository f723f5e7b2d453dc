------------------------------- MODULE LoaderMC -------------------------------
(***************************************************************************)
(* Instances of Loader for TLC: one module for every way probes mark and   *)
(* weave, required three times, so that each is required again after it    *)
(* was instrumented, and after it was deleted from the cache.  (mongodb is *)
(* also like mysql, when its hooks do not outlive their marks.)            *)
(***************************************************************************)
EXTENDS Loader

MCModule ==
    {"http", "mongodb", "strong-oracle", "leveldown", "./object",
     "./function"}
=============================================================================
