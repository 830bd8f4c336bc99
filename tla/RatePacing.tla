------------------------------ MODULE RatePacing ------------------------------
(***************************************************************************)
(* How gh-collector --live paces its requests (Client.Poll, Client.Run and *)
(* backoffInterval of services/gh-collector/internal/events/events.go)     *)
(* against the quota of the GitHub API. What Run does with the events is   *)
(* the matter of LiveCollector; here a poll is its headers.                *)
(*                                                                         *)
(* GitHub counts requests in windows: the first request after a reset      *)
(* opens a window of Window ticks with Quota requests, a 304 is free, and  *)
(* a request beyond the quota is refused. The token is used by this        *)
(* process only. `time` is GitHub's clock; the process's own differs by    *)
(* `offset`, at most Skew. An answer travels up to Latency ticks.          *)
(*                                                                         *)
(* Bounds, for model checking only: MaxTime, and MaxFaults lost answers    *)
(* and restarts.                                                           *)
(***************************************************************************)
EXTENDS Integers

CONSTANTS Quota, Window,
          PollInterval,   (* X-Poll-Interval, or defaultPollInterval *)
          RetryInterval,
          ResetMargin,    (* rateLimitResetMargin *)
          Skew, Latency, MaxTime, MaxFaults

(* The margin is there for clocks that differ (events.go:60-63). *)
ASSUME PacingAssumption ==
  /\ Quota \in Nat /\ Quota >= 2
  /\ Window \in Nat \ {0}
  /\ PollInterval \in Nat \ {0} /\ RetryInterval \in Nat \ {0}
  /\ Skew \in Nat /\ ResetMargin \in Nat /\ Skew <= ResetMargin
  /\ Latency \in Nat /\ MaxTime \in Nat /\ MaxFaults \in Nat

VARIABLES time, offset,
          used, reset,   (* GitHub: requests spent in the window, and its end *)
          poll,           (* "sleep" until wakeAt, or waiting for an "answer" *)
          wakeAt,
          answer,        (* what is under way to the process, since when *)
          last,          (* the last answer it has seen, "none" after a start *)
          wait,          (* the pause it computed from it *)
          faults

pacingVars == <<time, offset, used, reset, poll, wakeAt, answer, last, wait, faults>>

Kinds == {"ok", "notModified", "failed", "limited"}
NoAnswer == [kind |-> "ok", remaining |-> 0, reset |-> 0, sentAt |-> 0]

Larger(x, y) == IF x >= y THEN x ELSE y

PacingInit ==
  /\ time = 0
  /\ offset \in -Skew .. Skew
  /\ used = 0 /\ reset = 0
  /\ poll = "sleep" /\ wakeAt = 0
  /\ answer = NoAnswer
  /\ last = "none"
  /\ wait = 0
  /\ faults = 0
-----------------------------------------------------------------------------
(* GitHub. *)
Spent == IF time >= reset THEN 0 ELSE used
WindowEnd == IF time >= reset THEN time + Window ELSE reset

Answer(kind, cost) ==
  /\ used' = Spent + cost
  /\ reset' = WindowEnd
  /\ answer' = [kind |-> kind, remaining |-> Quota - (Spent + cost),
                reset |-> WindowEnd, sentAt |-> time]

(* Poll sends its request. A status like 502 may or may not be counted;    *)
(* "failed" also stands for a 200 whose body does not decode.              *)
Request ==
  /\ poll = "sleep" /\ time >= wakeAt
  /\ poll' = "answer"
  /\ \/ /\ Spent < Quota
        /\ Answer("ok", 1) \/ Answer("failed", 1) \/ Answer("notModified", 0)
     \/ /\ Spent = Quota
        /\ Answer("limited", 0)
     \/ Answer("failed", 0)
  /\ UNCHANGED <<time, offset, wakeAt, last, wait, faults>>
-----------------------------------------------------------------------------
(* backoffInterval, by the process's own clock. *)
UntilReset(resetAt) == resetAt - (time + offset)

UntilResetExactly(untilReset) == IF untilReset < 0 THEN 0 ELSE untilReset
UntilResetAndMargin(untilReset) == (IF untilReset < 0 THEN 0 ELSE untilReset) + ResetMargin

WholeRest(untilReset, remaining) == IF untilReset <= 0 THEN 0 ELSE untilReset
EvenShare(untilReset, remaining) == IF untilReset <= 0 THEN 0 ELSE untilReset \div remaining

Backoff(remaining, untilReset) ==
  IF remaining <= 0 THEN UntilResetAndMargin(untilReset)
                    ELSE EvenShare(untilReset, remaining)

Sleep(pause) ==
  /\ poll' = "sleep"
  /\ wait' = pause
  /\ wakeAt' = time + pause
  /\ answer' = NoAnswer

Interval(kind) == IF kind \in {"ok", "notModified"} THEN PollInterval ELSE RetryInterval

(* The answer arrives: the larger of the interval and the backoff. *)
ReceiveAnswer ==
  /\ poll = "answer"
  /\ Sleep(Larger(Interval(answer.kind),
                  Backoff(answer.remaining, UntilReset(answer.reset))))
  /\ last' = answer.kind
  /\ UNCHANGED <<time, offset, used, reset, faults>>

(* No answer, or one without headers: none remaining, and no reset time. *)
Lost ==
  /\ poll = "answer" /\ faults < MaxFaults
  /\ Sleep(Larger(RetryInterval, ResetMargin))
  /\ last' = "lost"
  /\ faults' = faults + 1
  /\ UNCHANGED <<time, offset, used, reset>>

(* The process ends and is started again; it polls at once. *)
Restart ==
  /\ faults < MaxFaults
  /\ Sleep(0)
  /\ last' = "none"
  /\ faults' = faults + 1
  /\ UNCHANGED <<time, offset, used, reset>>

(* Run may be late: it hands over the events of a page before it sleeps. *)
Tick ==
  /\ time < MaxTime
  /\ poll = "answer" => time < answer.sentAt + Latency
  /\ time' = time + 1
  /\ UNCHANGED <<offset, used, reset, poll, wakeAt, answer, last, wait, faults>>

PacingNext == Request \/ ReceiveAnswer \/ Lost \/ Restart \/ Tick

PacingSpec == PacingInit /\ [][PacingNext]_pacingVars
-----------------------------------------------------------------------------
LongestPause ==
  Larger(PollInterval, Larger(RetryInterval, Window + ResetMargin + Skew))

(* Shape of the state; no pause is longer than a window and the margins,   *)
(* whatever the headers, however late (events.go:374-386).                 *)
PacingTypeOK ==
  /\ time \in 0 .. MaxTime
  /\ offset \in -Skew .. Skew
  /\ used \in 0 .. Quota
  /\ reset \in 0 .. MaxTime + Window
  /\ poll \in {"sleep", "answer"}
  /\ wakeAt \in Nat
  /\ answer \in [kind : Kinds, remaining : 0 .. Quota,
                 reset : 0 .. MaxTime + Window, sentAt : 0 .. MaxTime]
  /\ last \in Kinds \cup {"none", "lost"}
  /\ wait \in 0 .. LongestPause
  /\ faults \in 0 .. MaxFaults

(* GitHub refuses a request only if the process has not seen the answer to *)
(* the one before it: it was lost, or the process has just started. In     *)
(* particular a refused process is never refused a second time in a row,   *)
(* although its clock may be fast by as much as the margin                 *)
(* (events.go:60-63, 371-373).                                             *)
RefusedOnlyWhenBlind ==
  poll = "answer" /\ answer.kind = "limited" => last \in {"none", "lost"}

(* An even share of a whole window, rounded up: the process may see the    *)
(* window end later by the error of its clock.                             *)
FullShare == (Window + Skew + Quota - 2) \div (Quota - 1)

(* No pause starves the feed: a process that has been answered all along   *)
(* never sleeps longer than the interval it was asked for, or one even     *)
(* share of a window, or the margin when the quota is spent: however it    *)
(* divides and rounds, no share grows beyond the first (events.go:361-370).*)
NoLongPause ==
  poll = "sleep" /\ last \in {"ok", "notModified"} /\ faults = 0 =>
    wait <= Larger(PollInterval, Larger(ResetMargin, FullShare))

(* The inductive invariant of GhCollector_proofs. What is left of a window,*)
(* by the process's clock, is never more than its even share for each      *)
(* request that is left; and a process that has seen the last answer wakes *)
(* with a request to spend, or after the reset.                            *)
Left(now) == reset - offset - now

PacingInv ==
  /\ PacingTypeOK
  /\ reset <= time + Window
  /\ poll = "answer" => answer.remaining = Quota - used /\ answer.reset = reset
  /\ poll = "sleep" /\ last \notin {"none", "lost"} => used < Quota \/ reset <= wakeAt
  /\ RefusedOnlyWhenBlind
  /\ faults = 0 =>
       /\ poll = "answer" => Left(time) <= (Quota - used) * FullShare
       /\ poll = "sleep" => \/ reset <= wakeAt
                            \/ used < Quota /\ Left(wakeAt) <= (Quota - used - 1) * FullShare
  /\ NoLongPause
=============================================================================
