---------------------------- MODULE MCCollector ----------------------------
(* Instances of Collector for TLC; they differ in their cfg files only. *)
EXTENDS Collector, TLC
=============================================================================
