-------------------------- MODULE MCTempExceptions --------------------------
(* Instances of TempExceptions for TLC. *)
EXTENDS TempExceptions, TLC
=============================================================================
