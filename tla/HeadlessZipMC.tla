---------------------------- MODULE HeadlessZipMC ----------------------------
(***************************************************************************)
(* Instances of HeadlessZip for TLC: four runs of the core, of which two   *)
(* files are kept, four time stamps and two starts.                        *)
(***************************************************************************)
EXTENDS HeadlessZip
=============================================================================
