--------------------------- MODULE MCPulseConsumer ---------------------------
(* Instances of PulseConsumer for TLC. *)
EXTENDS PulseConsumer, TLC

(* Members are interchangeable; used by the safety runs only. *)
Symmetry == Permutations(Members)
=============================================================================
