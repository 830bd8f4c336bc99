---------------------------- MODULE ProducerStage ----------------------------
(***************************************************************************)
(* The half of gh-collector that orchestrate and runLive have in common    *)
(* (services/gh-collector/cmd/gh-collector/main.go): a bounded channel of  *)
(* events, the loop that reads it until it is closed and hands every event *)
(* to the Kafka client, the flush with its own timeout, and the exit code. *)
(* A source fills the channel (Collector, LiveCollector) and leaves its    *)
(* error in `result` when it closes it.                                    *)
(***************************************************************************)
EXTENDS Integers, Sequences, FiniteSets

CONSTANTS NoEvent,     (* nothing in hand *)
          QueueSize,   (* eventQueueSize, the capacity of the channel *)
          BufferMax    (* kgo.MaxBufferedRecords *)

ASSUME StageAssumption == /\ QueueSize \in Nat \ {0}
                          /\ BufferMax \in Nat \ {0}

VARIABLES signalled,   (* ctx is cancelled: SIGINT or SIGTERM has arrived *)
          queue,       (* the channel *)
          result,      (* "pending" until the source has ended and closed the channel *)
          main,        (* where orchestrate or runLive is, or the exit code *)
          hand,        (* the event the loop is passing to Produce *)
          buffered,    (* records in the Kafka client, neither acknowledged nor failed *)
          delivered,   (* records the broker acknowledged *)
          failed,      (* records whose promise got an error: logged and counted, no more *)
          dropped      (* records the client still held when it was closed *)

stageVars == <<signalled, queue, result, main, hand, buffered, delivered, failed, dropped>>

Results == {"ok", "canceled", "error"}
Exited == main \in {"exit0", "exit1"}
Outcome == IF Exited THEN IF main = "exit0" THEN "success" ELSE "failure"
                     ELSE "running"

StageInit ==
  /\ signalled = FALSE
  /\ queue = <<>>
  /\ result = "pending"
  /\ main = "drain"
  /\ hand = NoEvent
  /\ buffered = {} /\ delivered = {} /\ failed = {} /\ dropped = {}
-----------------------------------------------------------------------------
(* What a source does to the stage. *)

QueueNeverFull == TRUE
QueueHasRoom == Len(queue) < QueueSize

Push(e) ==
  /\ QueueHasRoom
  /\ queue' = Append(queue, e)
  /\ UNCHANGED <<signalled, result, main, hand, buffered, delivered, failed, dropped>>

(* fetchDone <- err and close(events), in this order. *)
CloseQueue(err) ==
  /\ result = "pending"
  /\ result' = err
  /\ UNCHANGED <<signalled, queue, main, hand, buffered, delivered, failed, dropped>>
-----------------------------------------------------------------------------
(* A first signal cancels ctx, a second one changes nothing. *)
Signal ==
  /\ ~signalled /\ ~Exited
  /\ signalled' = TRUE
  /\ UNCHANGED <<queue, result, main, hand, buffered, delivered, failed, dropped>>

(* for evt := range events *)
Receive ==
  /\ main = "drain"
  /\ queue # <<>>
  /\ hand' = Head(queue)
  /\ queue' = Tail(queue)
  /\ main' = "produce"
  /\ UNCHANGED <<signalled, result, buffered, delivered, failed, dropped>>

(* Produce returns once the client has taken the record. Its context is    *)
(* never cancelled: no record is given up, and it waits for room for ever. *)
BufferedUnlessSignalled(e) == IF signalled THEN buffered ELSE buffered \cup {e}
Buffered(e) == buffered \cup {e}

Produce ==
  /\ main = "produce"
  /\ Cardinality(buffered) < BufferMax
  /\ buffered' = Buffered(hand)
  /\ hand' = NoEvent
  /\ main' = "drain"
  /\ UNCHANGED <<signalled, queue, result, delivered, failed, dropped>>

(* The Kafka client settles a record, one way or the other. *)
Acknowledged(e) ==
  /\ e \in buffered
  /\ buffered' = buffered \ {e}
  /\ delivered' = delivered \cup {e}
  /\ UNCHANGED <<signalled, queue, result, main, hand, failed, dropped>>

Rejected(e) ==
  /\ e \in buffered
  /\ buffered' = buffered \ {e}
  /\ failed' = failed \cup {e}
  /\ UNCHANGED <<signalled, queue, result, main, hand, delivered, dropped>>

DrainedOrSignalled == signalled \/ (queue = <<>> /\ result # "pending")
Drained == queue = <<>> /\ result # "pending"

StartFlush ==
  /\ main = "drain"
  /\ Drained
  /\ main' = "flush"
  /\ UNCHANGED <<signalled, queue, result, hand, buffered, delivered, failed, dropped>>

(* Flush returns nil as soon as nothing is buffered; the exit code then    *)
(* depends on the source's error only, and a cancelled source is none.     *)
FlushDone ==
  /\ main = "flush"
  /\ buffered = {}
  /\ main' = IF result = "error" THEN "exit1" ELSE "exit0"
  /\ UNCHANGED <<signalled, queue, result, hand, buffered, delivered, failed, dropped>>

(* --shutdown-timeout: an error, and Close abandons what is buffered. *)
FlushTimeout ==
  /\ main = "flush"
  /\ buffered # {}
  /\ main' = "exit1"
  /\ dropped' = dropped \cup buffered
  /\ buffered' = {}
  /\ UNCHANGED <<signalled, queue, result, hand, delivered, failed>>
-----------------------------------------------------------------------------
StageTypeOK(Event) ==
  /\ signalled \in BOOLEAN
  /\ queue \in Seq(Event) /\ Len(queue) <= QueueSize
  /\ result \in Results \cup {"pending"}
  /\ main \in {"drain", "produce", "flush", "exit0", "exit1"}
  /\ hand \in Event \cup {NoEvent}
  /\ buffered \subseteq Event /\ Cardinality(buffered) <= BufferMax
  /\ delivered \subseteq Event /\ failed \subseteq Event /\ dropped \subseteq Event

Queued == {queue[i] : i \in 1 .. Len(queue)}
InHand == {hand} \ {NoEvent}
Settled == delivered \cup failed
InStage == Queued \cup InHand \cup buffered \cup Settled \cup dropped

(* Why the stage loses nothing and repeats nothing: its places share no    *)
(* event, and the loop leaves a place only when it is empty.               *)
PlacesDisjoint ==
  /\ \A i, j \in 1 .. Len(queue) : queue[i] = queue[j] => i = j
  /\ Queued \cap (InHand \cup buffered \cup Settled \cup dropped) = {}
  /\ InHand \cap (buffered \cup Settled \cup dropped) = {}
  /\ buffered \cap (Settled \cup dropped) = {}
  /\ delivered \cap failed = {}
  /\ Settled \cap dropped = {}

StageInOrder ==
  /\ hand # NoEvent <=> main = "produce"
  /\ main \in {"flush", "exit0", "exit1"} => Drained
  /\ main # "exit1" => dropped = {}
  /\ Exited => buffered = {}
  /\ main = "exit0" => result # "error"
=============================================================================
