--------------------------- MODULE MCBackfillCycle ---------------------------
EXTENDS BackfillCycle
(* An hour with events in both halves or in the first one only, and one    *)
(* with events in the second half only.                                    *)
Dumps == {{0, 1, 3}, {0, 3}}
(* Whole hours; a bound inside an hour at either end or at both; a range   *)
(* within one hour; a range that ends before it begins.                    *)
Ranges == {<<0, 4>>, <<1, 4>>, <<0, 3>>, <<1, 3>>, <<2, 3>>, <<3, 1>>}
=============================================================================
