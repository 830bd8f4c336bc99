---------------------------- MODULE BackfillCycle ----------------------------
(***************************************************************************)
(* The loop an operator closes by hand: /admin reports the hours of a      *)
(* range that have no events (app/admin/completeness.py), prints a         *)
(* gh-collector command for the same range (app/admin/backfill.py), the    *)
(* collector resolves it to hours (cmd/gh-collector/main.go) and collects  *)
(* them, and pulse-consumer inserts what was collected, a row at least     *)
(* once. The live collector brings some of the same events meanwhile.      *)
(*                                                                         *)
(* Three programs cut the range into hours: SQL by the exact bounds,       *)
(* Python by bounds rounded down, and Go by bounds printed as hours. How a *)
(* run of the collector and the consumer works inside is the matter of     *)
(* Collector and PulseConsumer; here a run takes hours one by one.         *)
(*                                                                         *)
(* Bound, for model checking only: MaxRows copies of an event.             *)
(***************************************************************************)
EXTENDS EventCounters

CONSTANTS Archives,   (* the events GH Archive may hold, by their moments *)
          Asked,      (* the ranges <<start, end>> that are typed into the form *)
          MaxRows

Bounds == 0 .. NumHours * Ticks

ASSUME CycleAssumption == /\ Archives \subseteq SUBSET Moments
                          /\ Asked \subseteq Bounds \X Bounds
                          /\ MaxRows \in Nat

VARIABLES archive,    (* what it does hold *)
          pending,    (* copies of each event in gh.events, not yet inserted *)
          fetching,   (* hours the running collector has yet to collect *)
          collected,  (* history: hours a run has collected to the end *)
          report      (* the last answer of /admin/completeness *)

cycleVars == <<archive, pending, fetching, collected, report>>
vars == <<counterVars, cycleVars>>

EventsOf(h) == {t \in archive : HourOf(t) = h}

Init ==
  /\ CountersInit
  /\ archive \in Archives
  /\ pending = [t \in Moments |-> 0]
  /\ fetching = {} /\ collected = {}
  /\ report = [start |-> 0, end |-> 0, missing |-> {}, filled |-> {}]
-----------------------------------------------------------------------------
(* GET /admin/completeness *)

(* build_present_hours_query *)
PresentAfterStart(start, end) ==
  {HourOf(t) : t \in {u \in Moments : rows[u] > 0 /\ start < u /\ u < end}}
Present(start, end) ==
  {HourOf(t) : t \in {u \in Moments : rows[u] > 0 /\ start <= u /\ u < end}}

(* compute_missing_hours *)
GridInclusive(start, end) == HourOf(start) .. HourOf(end)
GridRoundedUp(start, end) == HourOf(start) .. HourOf(end + Ticks - 1) - 1
Grid(start, end) == HourOf(start) .. HourOf(end) - 1
Missing(start, end) == Grid(start, end) \ Present(start, end)

(* Hours a run has collected and the consumer has inserted. *)
Filled == {h \in collected : \A t \in EventsOf(h) : pending[t] = 0}

AskReport(start, end) ==
  /\ report' = [start |-> start, end |-> end,
                missing |-> Missing(start, end), filled |-> Filled]
  /\ UNCHANGED <<counterVars, archive, pending, fetching, collected>>
-----------------------------------------------------------------------------
(* GET /admin/backfill-command and the start of gh-collector. *)

Rejected == <<>>

(* build_backfill_command: both bounds are printed as hours. *)
Command(start, end) == IF end <= start THEN Rejected ELSE <<HourOf(start), HourOf(end)>>

(* extractBackfillRange, resolveHours: [from, to), and an empty range is a *)
(* usage error.                                                            *)
ResolveHours(command) ==
  IF command = Rejected \/ command[2] <= command[1] THEN {} ELSE command[1] .. command[2] - 1

RunCommand ==
  LET hours == ResolveHours(Command(report.start, report.end))
  IN  /\ fetching = {} /\ hours # {}
      /\ fetching' = hours \cap Hours
      /\ UNCHANGED <<counterVars, archive, pending, collected, report>>

HasRoom(t) == rows[t] + pending[t] < MaxRows
Produced(S) == [t \in Moments |-> IF t \in S THEN pending[t] + 1 ELSE pending[t]]

CollectHour(h) ==
  /\ h \in fetching
  /\ \A t \in EventsOf(h) : HasRoom(t)
  /\ pending' = Produced(EventsOf(h))
  /\ fetching' = fetching \ {h}
  /\ collected' = collected \cup {h}
  /\ UNCHANGED <<counterVars, archive, report>>

(* A signal or a failed hour ends the run; a part of an hour is produced.  *)
RunEndsEarly(h) ==
  /\ h \in fetching
  /\ \E S \in SUBSET EventsOf(h) :
       /\ \A t \in S : HasRoom(t)
       /\ pending' = Produced(S)
  /\ fetching' = {}
  /\ UNCHANGED <<counterVars, archive, collected, report>>

(* gh-collector --live sees the events of the archive when they happen. *)
CollectLive(t) ==
  /\ t \in archive /\ HasRoom(t)
  /\ pending' = Produced({t})
  /\ UNCHANGED <<counterVars, archive, fetching, collected, report>>

(* pulse-consumer inserts a message, and may insert it again. *)
Consume(t) ==
  /\ pending[t] > 0
  /\ Insert(t)
  /\ \/ pending' = [pending EXCEPT ![t] = @ - 1]
     \/ HasRoom(t) /\ UNCHANGED pending
  /\ UNCHANGED <<archive, fetching, collected, report>>
-----------------------------------------------------------------------------
Next ==
  \/ \E range \in Asked : AskReport(range[1], range[2])
  \/ RunCommand
  \/ \E h \in Hours : CollectHour(h) \/ RunEndsEarly(h)
  \/ \E t \in Moments : CollectLive(t) \/ Consume(t)
  \/ CountersStep /\ UNCHANGED cycleVars

Spec == Init /\ [][Next]_vars
-----------------------------------------------------------------------------
(* Shape of the state. *)
TypeOK ==
  /\ CountersTypeOK
  /\ archive \in Archives
  /\ pending \in [Moments -> Nat]
  /\ \A t \in Moments : rows[t] + pending[t] <= MaxRows
  /\ fetching \subseteq Hours /\ collected \subseteq Hours
  /\ report \in [start : Bounds, end : Bounds,
                 missing : SUBSET Hours, filled : SUBSET Hours]

(* The command printed for a range collects every hour that the report for *)
(* the same range calls missing, whatever minutes the operator has typed;  *)
(* where gh-collector would refuse the command, nothing was missing        *)
(* (completeness.py:51-76, backfill.py:26-54, main.go:320-350).            *)
CommandFillsReport ==
  report.missing \subseteq ResolveHours(Command(report.start, report.end))

(* The cycle closes: an hour that a run has collected to the end and the   *)
(* consumer has inserted is not called missing again, unless GH Archive    *)
(* has nothing in the part of it that was asked for, and however many runs *)
(* broke off before.                                                       *)
FilledIsNotReported ==
  \A h \in report.filled :
    (\E t \in EventsOf(h) : report.start <= t /\ t < report.end) => h \notin report.missing

(* The inductive invariant of BackfillCycle_proofs: an event of an hour    *)
(* that was collected is in gh.events or in the table.                     *)
CollectedIsKept ==
  \A h \in collected : \A t \in EventsOf(h) : rows[t] > 0 \/ pending[t] > 0

CycleInv ==
  TypeOK /\ CountersInv /\ CollectedIsKept /\ CommandFillsReport /\ FilledIsNotReported
=============================================================================
