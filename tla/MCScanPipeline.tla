-------------------------- MODULE MCScanPipeline ----------------------------
(* Instances of ScanPipeline for TLC. *)
EXTENDS ScanPipeline, TLC
=============================================================================
