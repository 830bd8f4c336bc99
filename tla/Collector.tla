------------------------------ MODULE Collector ------------------------------
(***************************************************************************)
(* gh-collector --hour / --backfill: orchestrate of                        *)
(* services/gh-collector/cmd/gh-collector/main.go with the archive client  *)
(* it runs. A dispatcher goroutine starts one FetchHour per hour, at most  *)
(* `Workers` at a time (errgroup.SetLimit); each streams its hour into the *)
(* channel of ProducerStage; the first error cancels the others; when all  *)
(* have returned the channel is closed.                                    *)
(*                                                                         *)
(* An event is <<hour, n>>, the n-th event that parses in the dump of the  *)
(* hour. What a dump holds, and where the network fails, is decided step   *)
(* by step. MaxLines bounds the length of a dump, for model checking only. *)
(***************************************************************************)
EXTENDS ProducerStage

CONSTANTS NumHours,    (* length of the range [from, to) *)
          Workers,     (* --workers *)
          MaxLines

Hours == 1 .. NumHours
Event == Hours \X (1 .. MaxLines)

ASSUME CollectorAssumption == /\ NumHours \in Nat \ {0}
                              /\ Workers \in Nat \ {0}
                              /\ MaxLines \in Nat
                              /\ NoEvent \notin Event

VARIABLES dispatched,   (* how many hours fetchGroup.Go has been called for *)
          task,         (* where the FetchHour of each hour is, or how it ended *)
          sent,         (* how many events of each hour are in the channel or beyond *)
          groupErr      (* the error errgroup keeps, "none" so far *)

fetchVars == <<dispatched, task, sent, groupErr>>

vars == <<stageVars, fetchVars>>

Active == {"request", "reading", "sending"}
Running == {h \in Hours : task[h] \in Active}

Init ==
  /\ StageInit
  /\ dispatched = 0
  /\ task = [h \in Hours |-> "idle"]
  /\ sent = [h \in Hours |-> 0]
  /\ groupErr = "none"
-----------------------------------------------------------------------------
(* The errgroup. *)

(* fetchCtx: cancelled with ctx, and by the first error of any task. *)
CanceledByErrorOnly == groupErr # "none"
Canceled == signalled \/ groupErr # "none"

(* errOnce: the first error is the one Wait returns. *)
LastError(err) == err
FirstError(err) == IF groupErr = "none" THEN err ELSE groupErr

(* fetchGroup.Go blocks while `Workers` tasks are running. *)
SlotFree == Cardinality(Running) < Workers

Dispatch ==
  /\ dispatched < NumHours
  /\ SlotFree
  /\ dispatched' = dispatched + 1
  /\ task' = [task EXCEPT ![dispatched + 1] = "request"]
  /\ UNCHANGED <<stageVars, sent, groupErr>>

Return(h, outcome) ==
  /\ task' = [task EXCEPT ![h] = outcome]
  /\ groupErr' = IF outcome = "ok" THEN groupErr ELSE FirstError(outcome)
  /\ UNCHANGED <<stageVars, dispatched, sent>>

(* fetchGroup.Wait() has returned: the channel is closed. *)
CloseEvents ==
  /\ dispatched = NumHours /\ Running = {}
  /\ CloseQueue(IF groupErr = "none" THEN "ok" ELSE groupErr)
  /\ UNCHANGED fetchVars
-----------------------------------------------------------------------------
(* archive.Client.FetchHour and decodeLines. *)

RequestOk(h) ==
  /\ task[h] = "request"
  /\ task' = [task EXCEPT ![h] = "reading"]
  /\ UNCHANGED <<stageVars, dispatched, sent, groupErr>>

(* No connection, a status other than 200, or not a gzip stream. *)
RequestFails(h) ==
  /\ task[h] = "request"
  /\ Return(h, "error")

(* Do returns the cancellation of fetchCtx. *)
RequestCanceled(h) ==
  /\ task[h] = "request" /\ Canceled
  /\ Return(h, "canceled")

(* A line that parses; lines that do not are skipped before it. *)
ReadEvent(h) ==
  /\ task[h] = "reading" /\ sent[h] < MaxLines
  /\ task' = [task EXCEPT ![h] = "sending"]
  /\ UNCHANGED <<stageVars, dispatched, sent, groupErr>>

ReadEnd(h) ==
  /\ task[h] = "reading"
  /\ Return(h, "ok")

(* The stream breaks or a line exceeds maxLineSize. *)
ReadFails(h) ==
  /\ task[h] = "reading" /\ ~Canceled
  /\ Return(h, "error")

(* Any read error under a cancelled fetchCtx is reported as its error. *)
ReadCanceled(h) ==
  /\ task[h] = "reading" /\ Canceled
  /\ Return(h, "canceled")

(* select: out <- evt ... *)
Send(h) ==
  /\ task[h] = "sending"
  /\ Push(<<h, sent[h] + 1>>)
  /\ sent' = [sent EXCEPT ![h] = @ + 1]
  /\ task' = [task EXCEPT ![h] = "reading"]
  /\ UNCHANGED <<dispatched, groupErr>>

(* ... or <-ctx.Done(): the event in hand is given up. *)
SendCanceled(h) ==
  /\ task[h] = "sending" /\ Canceled
  /\ Return(h, "canceled")
-----------------------------------------------------------------------------
(* The drain loop runs while the dispatcher is still dispatching. *)
DrainAfterDispatch == Receive /\ dispatched = NumHours
Drain == Receive

Next ==
  \/ Dispatch \/ CloseEvents
  \/ \E h \in Hours : \/ RequestOk(h) \/ RequestFails(h) \/ RequestCanceled(h)
                      \/ ReadEvent(h) \/ ReadEnd(h) \/ ReadFails(h) \/ ReadCanceled(h)
                      \/ Send(h) \/ SendCanceled(h)
  \/ /\ \/ Signal
        \/ Drain \/ Produce
        \/ \E e \in Event : Acknowledged(e) \/ Rejected(e)
        \/ StartFlush \/ FlushDone \/ FlushTimeout
     /\ UNCHANGED fetchVars

Spec == Init /\ [][Next]_vars

(* The Go scheduler runs what can run, a cancelled request or read comes   *)
(* back, and the flush timeout expires.                                    *)
ProcessFairness ==
  /\ WF_vars(Dispatch) /\ WF_vars(CloseEvents)
  /\ \A h \in Hours : /\ WF_vars(RequestCanceled(h))
                      /\ WF_vars(ReadCanceled(h))
                      /\ WF_vars(Send(h) \/ SendCanceled(h))
  /\ WF_vars(Drain /\ UNCHANGED fetchVars)
  /\ WF_vars(Produce /\ UNCHANGED fetchVars)
  /\ WF_vars(StartFlush /\ UNCHANGED fetchVars)
  /\ WF_vars((FlushDone \/ FlushTimeout) /\ UNCHANGED fetchVars)

(* The broker answers: every record is acknowledged or rejected. *)
KafkaFairness ==
  WF_vars((\E e \in Event : Acknowledged(e) \/ Rejected(e)) /\ UNCHANGED fetchVars)

(* GH Archive answers, and a dump has an end. *)
ArchiveFairness ==
  \A h \in Hours : /\ WF_vars(RequestOk(h) \/ RequestFails(h))
                   /\ WF_vars(ReadEvent(h) \/ ReadEnd(h) \/ ReadFails(h))

FairSpec == Spec /\ ProcessFairness /\ KafkaFairness
-----------------------------------------------------------------------------
(* Shape of the state. The channel never holds more than eventQueueSize    *)
(* and the client never more than MaxBufferedRecords (main.go:46-67), so   *)
(* the memory of a backfill does not grow with the dump.                   *)
TypeOK ==
  /\ StageTypeOK(Event)
  /\ dispatched \in 0 .. NumHours
  /\ task \in [Hours -> Active \cup Results \cup {"idle"}]
  /\ sent \in [Hours -> 0 .. MaxLines]
  /\ groupErr \in {"none", "canceled", "error"}

Sent == {e \in Event : e[2] <= sent[e[1]]}

(* No event that entered the channel disappears, whatever is cancelled and *)
(* whoever fails (main.go:384-392): until the process ends it is in the    *)
(* channel, in the hand of the loop or with the client, and in one of      *)
(* these places only, so it is produced once.                              *)
SentIsSomewhereOnce ==
  /\ InStage = Sent
  /\ Cardinality(Sent) = Len(queue) + Cardinality(InHand) + Cardinality(buffered)
                         + Cardinality(delivered) + Cardinality(failed)
                         + Cardinality(dropped)

(* Exit code 0 without a signal means that every hour of the range was     *)
(* read to its end. In particular the cancellations that follow the        *)
(* failure of one hour never hide that failure (main.go:400-413, 474-498). *)
CleanExitIsComplete ==
  main = "exit0" /\ ~signalled => \A h \in Hours : task[h] = "ok"

(* Exit code 0, after a signal or without one, means that Kafka has        *)
(* answered on everything that ever entered the channel: neither the drain *)
(* nor the flush looks at ctx (main.go:384-392, 448-463).                  *)
ExitZeroIsSettled == main = "exit0" => Settled = Sent

(* orchestrate keeps the promise of BoundedHandOver to the hours: nothing  *)
(* they send is lost or answered twice, exit code 0 leaves nothing open,   *)
(* and at no time is more open than the channel, the hand of the loop and  *)
(* the client's buffer hold (main.go:46-67, 384-392, 448-463).             *)
HandOver == INSTANCE BoundedHandOver
              WITH Item <- Event, Capacity <- QueueSize + 1 + BufferMax,
                   accepted <- Sent, answered <- Settled, abandoned <- dropped,
                   outcome <- Outcome

ImplementsHandOver == HandOver!Spec

(* The errgroup and its tasks: what was not dispatched is idle, a failed   *)
(* task has left its error, an error before any other is no cancellation   *)
(* unless there was a signal, and the channel is closed behind all tasks.  *)
TasksInOrder ==
  /\ \A h \in Hours : h > dispatched <=> task[h] = "idle"
  /\ \A h \in Hours : task[h] = "sending" => sent[h] < MaxLines
  /\ groupErr = "none" => \A h \in Hours : task[h] \notin {"canceled", "error"}
  /\ groupErr = "canceled" => signalled
  /\ result # "pending" =>
       /\ dispatched = NumHours /\ Running = {}
       /\ result = IF groupErr = "none" THEN "ok" ELSE groupErr

(* The inductive invariant of GhCollector_proofs.                          *)
CollectorInv ==
  /\ TypeOK
  /\ InStage = Sent
  /\ PlacesDisjoint
  /\ StageInOrder
  /\ TasksInOrder

(* While GH Archive answers a backfill ends: the dispatcher, the workers   *)
(* and the drain loop never wait for each other in a circle                *)
(* (main.go:415-427).                                                      *)
RunEnds == ArchiveFairness => <>Exited

(* After SIGINT the process ends, even if GH Archive has stalled           *)
(* (main.go:380-392; archive.go:146-149).                                  *)
StopEnds == signalled ~> Exited
=============================================================================
