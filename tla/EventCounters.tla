---------------------------- MODULE EventCounters ----------------------------
(***************************************************************************)
(* ghpulse.events and a materialized view that counts its rows by hour     *)
(* (infra/clickhouse). The view is a trigger on INSERT: it counts what is  *)
(* inserted after its creation, once per inserted row. What was there      *)
(* before is added by a script, one month after the other, which is run    *)
(* once and by hand (backfill/002_mv_hourly_backfill.sql).                 *)
(*                                                                         *)
(* A row is known by the moment of its created_at, in ticks from the first *)
(* hour; several rows may share it. One counter stands for the three views *)
(* read with GROUP BY and sum, which differ in their keys only.            *)
(***************************************************************************)
EXTENDS Integers, FiniteSets

CONSTANTS NumHours, Ticks,   (* hours, and ticks in an hour *)
          HoursPerMonth      (* hours in a partition, toYYYYMM *)

ASSUME CountersAssumption ==
  NumHours \in Nat /\ Ticks \in Nat \ {0} /\ HoursPerMonth \in Nat \ {0}

Hours == 0 .. NumHours - 1
Moments == 0 .. NumHours * Ticks - 1
HourOf(t) == t \div Ticks           (* toStartOfHour *)
MonthOf(h) == h \div HoursPerMonth  (* toYYYYMM *)
Months == {MonthOf(h) : h \in Hours}

VARIABLES rows,      (* how many rows of ghpulse.events have each created_at *)
          created,   (* the view exists *)
          counter,   (* its sum for each hour *)
          script,    (* the script: "idle", "running", "done" or "failed" *)
          todo,      (* months the script has still to add *)
          touched    (* history: months that grew between the list and their turn *)

counterVars == <<rows, created, counter, script, todo, touched>>

CountersInit ==
  /\ rows = [t \in Moments |-> 0]
  /\ created = FALSE
  /\ counter = [h \in Hours |-> 0]
  /\ script = "idle"
  /\ todo = {} /\ touched = {}
-----------------------------------------------------------------------------
(* INSERT INTO ghpulse.events of a row, and the trigger. *)
Counted(t) == IF created THEN [counter EXCEPT ![HourOf(t)] = @ + 1] ELSE counter

Insert(t) ==
  /\ rows' = [rows EXCEPT ![t] = @ + 1]
  /\ counter' = Counted(t)
  /\ touched' = touched \cup (todo \cap {MonthOf(HourOf(t))})
  /\ UNCHANGED <<created, script, todo>>

CreateView ==
  /\ ~created
  /\ created' = TRUE
  /\ UNCHANGED <<rows, counter, script, todo, touched>>

(* What the header of the script asks for: the views are empty, and the    *)
(* list of months is the one the table has now.                            *)
ViewsLookedAt == TRUE
ViewsEmpty == \A h \in Hours : counter[h] = 0

FirstMonthOnly == {k \in Months : k = 0}
MonthsOfTable == {MonthOf(HourOf(t)) : t \in {u \in Moments : rows[u] > 0}}

StartScript ==
  /\ created /\ script # "running"
  /\ ViewsEmpty
  /\ todo' = MonthsOfTable
  /\ script' = IF MonthsOfTable = {} THEN "done" ELSE "running"
  /\ touched' = {}
  /\ UNCHANGED <<rows, created, counter>>

(* count(): the rows that share a created_at are told apart by a number.   *)
RowsIn(h) == UNION {{t} \X (1 .. rows[t]) : t \in {u \in Moments : HourOf(u) = h}}
RowsOf(h) == Cardinality(RowsIn(h))

(* INSERT INTO the view SELECT ... WHERE toYYYYMM(created_at) = k GROUP BY *)
AddMonth(k) ==
  /\ script = "running" /\ k \in todo
  /\ \A other \in todo : k <= other
  /\ counter' = [h \in Hours |-> IF MonthOf(h) = k THEN counter[h] + RowsOf(h)
                                                   ELSE counter[h]]
  /\ todo' = todo \ {k}
  /\ script' = IF todo = {k} THEN "done" ELSE "running"
  /\ UNCHANGED <<rows, created, touched>>

(* A statement fails: clickhouse-client stops there. *)
ScriptFails ==
  /\ script = "running"
  /\ script' = "failed"
  /\ UNCHANGED <<rows, created, counter, todo, touched>>

CountersStep == CreateView \/ StartScript \/ ScriptFails \/ \E k \in Months : AddMonth(k)
-----------------------------------------------------------------------------
CountersTypeOK ==
  /\ rows \in [Moments -> Nat]
  /\ created \in BOOLEAN
  /\ counter \in [Hours -> Nat]
  /\ script \in {"idle", "running", "done", "failed"}
  /\ todo \subseteq Months /\ touched \subseteq Months

(* After the script no row is missing from a counter, although rows go on  *)
(* arriving while it runs: they are counted by the trigger, by the script, *)
(* or by both (002_mv_hourly.sql:4-8).                                     *)
CountersNeverShort == script = "done" => \A h \in Hours : counter[h] >= RowsOf(h)

(* The comparison at the end of the script (002_mv_hourly_backfill.sql:    *)
(* 81-93) comes out exact for every month that did not grow between the    *)
(* list of months and its own turn, so a script that is started at the     *)
(* wrong time, again, or after a failure counts nothing twice.             *)
CountersMatch ==
  script = "done" =>
    \A h \in Hours : MonthOf(h) \notin touched => counter[h] = RowsOf(h)

(* The inductive invariant of BackfillCycle_proofs: what the script has    *)
(* still to add is not counted yet, unless it grew, and what it has added  *)
(* is counted at least once, and once if it did not grow.                  *)
CountersInv ==
  /\ ~created => script = "idle" /\ todo = {} /\ \A h \in Hours : counter[h] = 0
  /\ script = "done" => todo = {}
  /\ script = "running" =>
       \A h \in Hours : MonthOf(h) \in todo \ touched => counter[h] = 0
  /\ script \in {"running", "done"} =>
       \A h \in Hours : MonthOf(h) \notin todo =>
         /\ counter[h] >= RowsOf(h)
         /\ MonthOf(h) \notin touched => counter[h] = RowsOf(h)
=============================================================================
