-------------------------- MODULE MCLiveCollector --------------------------
(* Instances of LiveCollector for TLC; they differ in their cfg files only. *)
EXTENDS LiveCollector, TLC
=============================================================================
