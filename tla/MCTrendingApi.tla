--------------------------- MODULE MCTrendingApi ---------------------------
(* Instances of TrendingApi for TLC. *)
EXTENDS TrendingApi, TLC

(* A lead and a tie; a tie in which one repository has no stars yet. *)
LeadAndTie == {<<2, 1, 1>>, <<0, 1, 1>>}
=============================================================================
