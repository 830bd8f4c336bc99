---------------------------- MODULE GhCollector_proofs ----------------------------
(***************************************************************************)
(* What gh-collector promises, proved for every size of its channel and of *)
(* the Kafka client's buffer. First the backfill, for every range of       *)
(* hours, every number of workers and every dump (CollectorInv); then the  *)
(* live collector, for every size of a page and of the dedup window that   *)
(* LiveAssumption admits, every feed and every bound (LiveInv), and its    *)
(* pauses, for every quota, length of a window, poll interval, error of    *)
(* the clock within the margin and latency (PacingInv). What both sources  *)
(* share is in ProducerStage_proofs.                                       *)
(***************************************************************************)
EXTENDS Collector, LiveCollector, RatePacing, ProducerStage_proofs

(* The events of a backfill can be counted.                                *)
LEMMA EventsCount == AreEvents(Event)
<1>1. IsFiniteSet(Hours) /\ IsFiniteSet(1 .. MaxLines)
  BY CollectorAssumption, FS_Interval DEF Hours
<1> QED BY <1>1, CollectorAssumption, FS_Product DEF Event, AreEvents

(* CollectorInv, with what ProducerStage_proofs speaks of taken together.  *)
TasksTypeOK ==
  /\ dispatched \in 0 .. NumHours
  /\ task \in [Hours -> Active \cup Results \cup {"idle"}]
  /\ sent \in [Hours -> 0 .. MaxLines]
  /\ groupErr \in {"none", "canceled", "error"}

LEMMA CollectorInvParts ==
  CollectorInv <=> StageInv(Event) /\ TasksTypeOK /\ InStage = Sent /\ TasksInOrder
BY DEF CollectorInv, TypeOK, TasksTypeOK, StageInv

LEMMA CollectorInit == Init => CollectorInv
<1> SUFFICES ASSUME Init PROVE CollectorInv OBVIOUS
<1> USE CollectorAssumption DEF Init
<1>1. StageInv(Event) /\ InStage = {} BY EventsCount, StageStarts
<1>2. Sent = {} BY DEF Sent, Event
<1>3. TasksTypeOK BY DEF TasksTypeOK
<1>4. TasksInOrder BY DEF TasksInOrder, Hours, StageInit
<1> QED BY <1>1, <1>2, <1>3, <1>4, CollectorInvParts

(* The loop, the Kafka client and the signal leave the tasks as they are.  *)
LEMMA StageStepKeeps ==
  ASSUME CollectorInv, UNCHANGED fetchVars,
         \/ Signal \/ Drain \/ Produce \/ StartFlush \/ FlushDone \/ FlushTimeout
         \/ \E e \in Event : Acknowledged(e) \/ Rejected(e)
  PROVE  CollectorInv'
<1>1. /\ StageInv(Event)' /\ InStage' = InStage /\ result' = result
      /\ signalled => signalled'
  <2> USE EventsCount, CollectorInvParts
  <2>1. CASE Signal BY <2>1, SignalInStage DEF Signal
  <2>2. CASE Drain BY <2>2, ReceiveInStage DEF Drain
  <2>3. CASE Produce BY <2>3, ProduceInStage
  <2>4. CASE StartFlush \/ FlushDone \/ FlushTimeout BY <2>4, FlushInStage
  <2>5. ASSUME NEW e \in Event, Acknowledged(e) \/ Rejected(e)
        PROVE  StageInv(Event)' /\ InStage' = InStage /\ signalled' = signalled /\ result' = result
    BY <2>5, SettleInStage
  <2> QED BY <2>1, <2>2, <2>3, <2>4, <2>5
<1>2. UNCHANGED <<dispatched, task, sent, groupErr>> BY DEF fetchVars
<1>3. Sent' = Sent /\ Running' = Running BY <1>2 DEF Sent, Running
<1>4. TasksTypeOK' BY <1>2, CollectorInvParts DEF TasksTypeOK
<1>5. TasksInOrder' BY <1>1, <1>2, <1>3 DEF CollectorInv, TasksInOrder
<1>6. InStage' = Sent' BY <1>1, <1>3, CollectorInvParts
<1>7. (StageInv(Event) /\ TasksTypeOK /\ InStage = Sent /\ TasksInOrder)' BY <1>1, <1>4, <1>5, <1>6
<1> QED BY <1>7 DEF CollectorInv, TypeOK, TasksTypeOK, StageInv

-----------------------------------------------------------------------------
(* What the tasks do leaves the stage as it is, a send excepted.           *)
LEMMA StageKept ==
  ASSUME CollectorInv, UNCHANGED stageVars
  PROVE  /\ StageTypeOK(Event)' /\ InStage' = InStage /\ PlacesDisjoint' /\ StageInOrder'
         /\ signalled' = signalled /\ result' = result
<1>1. StageInv(Event) BY CollectorInvParts
<1>2. StageInv(Event)' /\ InStage' = InStage /\ signalled' = signalled /\ result' = result
  BY <1>1, StageUntouched
<1> QED BY <1>2 DEF StageInv

(* While a task runs the channel is open, and the loop does not leave it.  *)
LEMMA RunningKeepsOpen ==
  ASSUME CollectorInv, NEW h \in Hours, task[h] \in Active
  PROVE  result = "pending" /\ main \in {"drain", "produce"} /\ h <= dispatched
<1>1. h \in Running BY DEF Running
<1>2. result = "pending" BY <1>1 DEF CollectorInv, TasksInOrder
<1>3. main \in {"drain", "produce"}
  BY <1>2 DEF CollectorInv, StageInOrder, Drained, TypeOK, StageTypeOK
<1>4. task[h] # "idle" BY DEF Active
<1> QED BY <1>2, <1>3, <1>4, CollectorAssumption DEF CollectorInv, TasksInOrder, TypeOK, Hours

LEMMA DispatchStep == CollectorInv /\ Dispatch => CollectorInv'
<1> SUFFICES ASSUME CollectorInv, Dispatch PROVE CollectorInv' OBVIOUS
<1> USE CollectorAssumption DEF CollectorInv
<1>1. /\ UNCHANGED stageVars /\ sent' = sent /\ groupErr' = groupErr
      /\ dispatched \in Nat /\ dispatched + 1 \in Hours
      /\ dispatched' = dispatched + 1
      /\ task' = [task EXCEPT ![dispatched + 1] = "request"]
  BY DEF Dispatch, TypeOK, Hours
<1>2. Sent' = Sent BY <1>1 DEF Sent
<1>3. TypeOK' BY <1>1, StageKept DEF TypeOK, Active, Hours
<1>4. \A h \in Hours : h > dispatched' <=> task'[h] = "idle"
  BY <1>1 DEF TypeOK, TasksInOrder, Hours
<1>5. result' = "pending"
  BY <1>1, StageKept DEF TasksInOrder, Hours, TypeOK
<1>6. TasksInOrder'
  <2>1. \A h \in Hours : task'[h] = task[h] \/ task'[h] = "request" BY <1>1 DEF TypeOK
  <2> QED BY <1>1, <1>4, <1>5, <2>1, StageKept DEF TasksInOrder
<1> QED BY <1>1, <1>2, <1>3, <1>6, StageKept

LEMMA CloseEventsStep == CollectorInv /\ CloseEvents => CollectorInv'
<1> SUFFICES ASSUME CollectorInv, CloseEvents PROVE CollectorInv' OBVIOUS
<1> DEFINE err == IF groupErr = "none" THEN "ok" ELSE groupErr
<1>1. CloseQueue(err) /\ UNCHANGED fetchVars /\ dispatched = NumHours /\ Running = {}
  BY DEF CloseEvents
<1>2. err \in Results BY DEF CollectorInv, TypeOK, Results
<1>3. UNCHANGED <<dispatched, task, sent, groupErr>> BY <1>1 DEF fetchVars
<1>4. Sent' = Sent /\ Running' = Running BY <1>3 DEF Sent, Running
<1>5. StageInv(Event)' /\ InStage' = InStage /\ signalled' = signalled /\ result' = err
  <2> HIDE DEF err
  <2> QED BY <1>1, <1>2, CollectorInvParts, CloseKeeps
<1>6. TasksInOrder' BY <1>1, <1>3, <1>4, <1>5 DEF CollectorInv, TasksInOrder
<1>7. TasksTypeOK' BY <1>3, CollectorInvParts DEF TasksTypeOK
<1>8. InStage' = Sent' BY <1>4, <1>5, CollectorInvParts
<1> QED BY <1>5, <1>6, <1>7, <1>8 DEF CollectorInv, TypeOK, TasksTypeOK, StageInv

(* A task that goes on: its place changes, and nothing else.               *)
LEMMA TaskMoves ==
  ASSUME NEW h \in Hours, NEW place \in Active, task[h] \in Active,
         place = "sending" => sent[h] < MaxLines
  PROVE  CollectorInv /\ task' = [task EXCEPT ![h] = place]
           /\ UNCHANGED <<stageVars, dispatched, sent, groupErr>> => CollectorInv'
<1> SUFFICES ASSUME CollectorInv, task' = [task EXCEPT ![h] = place],
                    UNCHANGED <<stageVars, dispatched, sent, groupErr>>
             PROVE  CollectorInv'
  OBVIOUS
<1> USE DEF CollectorInv
<1>1. result' = "pending" BY RunningKeepsOpen, StageKept
<1>2. Sent' = Sent BY DEF Sent
<1>3. TypeOK' BY StageKept DEF TypeOK
<1>4. TasksInOrder'
  <2>1. \A g \in Hours : g # h => task'[g] = task[g] BY DEF TypeOK
  <2>2. task'[h] = place BY DEF TypeOK
  <2> QED BY <1>1, <2>1, <2>2, StageKept DEF TasksInOrder, Active
<1> QED BY <1>2, <1>3, <1>4, StageKept

(* A task that returns; it returns a cancellation only if it met one.      *)
LEMMA TaskReturns ==
  ASSUME NEW h \in Hours, NEW outcome \in Results, task[h] \in Active,
         outcome = "canceled" => Canceled
  PROVE  CollectorInv /\ Return(h, outcome) => CollectorInv'
<1> SUFFICES ASSUME CollectorInv, Return(h, outcome) PROVE CollectorInv' OBVIOUS
<1> USE DEF CollectorInv
<1>1. /\ task' = [task EXCEPT ![h] = outcome] /\ UNCHANGED <<stageVars, dispatched, sent>>
      /\ groupErr' = IF outcome = "ok" THEN groupErr ELSE FirstError(outcome)
  BY DEF Return
<1>2. result' = "pending" BY <1>1, RunningKeepsOpen, StageKept
<1>3. Sent' = Sent BY <1>1 DEF Sent
<1>4. groupErr' \in {"none", "canceled", "error"} BY <1>1 DEF FirstError, TypeOK, Results
<1>5. TypeOK' BY <1>1, <1>4, StageKept DEF TypeOK
<1>6. TasksInOrder'
  <2>1. \A g \in Hours : g # h => task'[g] = task[g] BY <1>1 DEF TypeOK
  <2>2. task'[h] = outcome BY <1>1 DEF TypeOK
  <2>3. groupErr' = "none" => groupErr = "none" /\ outcome = "ok"
    BY <1>1 DEF FirstError, Results
  <2>4. groupErr' = "canceled" => signalled'
    BY <1>1, StageKept DEF FirstError, Canceled, TasksInOrder
  <2>5. outcome \notin {"idle", "sending"} BY DEF Results
  <2>6. h <= dispatched BY RunningKeepsOpen
  <2>7. \A g \in Hours : g > dispatched' <=> task'[g] = "idle"
    BY <1>1, <2>1, <2>2, <2>5, <2>6 DEF TasksInOrder, TypeOK, Hours
  <2> QED BY <1>1, <1>2, <2>1, <2>2, <2>3, <2>4, <2>5, <2>7 DEF TasksInOrder
<1> QED BY <1>1, <1>3, <1>5, <1>6, StageKept

(* A send adds one event, which is new to the stage.                       *)
LEMMA SendAddsOne ==
  ASSUME CollectorInv, NEW h \in Hours, task[h] = "sending", sent' = [sent EXCEPT ![h] = @ + 1]
  PROVE  LET e == <<h, sent[h] + 1>>
         IN  e \in Event /\ e \notin Sent /\ Sent' = Sent \cup {e}
<1> DEFINE e == <<h, sent[h] + 1>>
<1>1. /\ sent \in [Hours -> 0 .. MaxLines] /\ sent[h] \in Nat /\ MaxLines \in Nat
      /\ sent[h] + 1 \in 1 .. MaxLines
  BY CollectorAssumption DEF CollectorInv, TypeOK, TasksInOrder
<1>2. e \in Event /\ e \notin Sent BY <1>1 DEF Event, Sent
<1>3. \A g \in Hours : sent'[g] = IF g = h THEN sent[h] + 1 ELSE sent[g] BY <1>1
<1>4. \A g \in Hours : \A n \in 1 .. MaxLines :
        n <= sent'[g] <=> n <= sent[g] \/ (g = h /\ n = sent[h] + 1)
  BY <1>1, <1>3
<1>5. \A f \in Event : f \in Sent' <=> f \in Sent \/ f = e BY <1>4 DEF Event, Sent
<1>6. Sent' = Sent \cup {e} BY <1>2, <1>5 DEF Sent
<1> QED BY <1>2, <1>6

LEMMA SendStep ==
  ASSUME NEW h \in Hours
  PROVE  CollectorInv /\ Send(h) => CollectorInv'
<1> SUFFICES ASSUME CollectorInv, Send(h) PROVE CollectorInv' OBVIOUS
<1> USE CollectorAssumption DEF CollectorInv
<1> DEFINE e == <<h, sent[h] + 1>>
<1>1. /\ Push(e) /\ task[h] = "sending" /\ task' = [task EXCEPT ![h] = "reading"]
      /\ sent' = [sent EXCEPT ![h] = @ + 1] /\ dispatched' = dispatched /\ groupErr' = groupErr
  BY DEF Send
<1>2. result = "pending" BY <1>1, RunningKeepsOpen DEF Active
<1>3. /\ sent[h] \in Nat /\ sent[h] < MaxLines /\ sent[h] + 1 \in 1 .. MaxLines
  BY <1>1 DEF TypeOK, TasksInOrder
<1>4. e \in Event /\ e \notin Sent /\ Sent' = Sent \cup {e} BY <1>1, SendAddsOne
<1>5. Sent' = Sent \cup {e} BY <1>4
<1>6. /\ StageInv(Event)' /\ InStage' = InStage \cup {e}
      /\ signalled' = signalled /\ result' = result
  <2> HIDE DEF e
  <2>1. e \notin InStage BY <1>4
  <2>2. StageInv(Event) BY CollectorInvParts
  <2> QED BY <1>1, <1>2, <1>4, <2>1, <2>2, EventsCount, PushAdds
<1>7. sent' \in [Hours -> 0 .. MaxLines] BY <1>1, <1>3 DEF TypeOK
<1>8. TypeOK' BY <1>1, <1>6, <1>7 DEF TypeOK, Active, StageInv
<1>9. TasksInOrder'
  <2>1. \A g \in Hours : g # h => task'[g] = task[g] /\ sent'[g] = sent[g] BY <1>1 DEF TypeOK
  <2>2. task'[h] = "reading" BY <1>1 DEF TypeOK
  <2> QED BY <1>1, <1>2, <1>6, <2>1, <2>2 DEF TasksInOrder
<1> QED BY <1>5, <1>6, <1>8, <1>9 DEF StageInv

LEMMA FetchStep ==
  ASSUME NEW h \in Hours
  PROVE  CollectorInv /\ (\/ RequestOk(h) \/ RequestFails(h) \/ RequestCanceled(h)
                          \/ ReadEvent(h) \/ ReadEnd(h) \/ ReadFails(h) \/ ReadCanceled(h)
                          \/ Send(h) \/ SendCanceled(h)) => CollectorInv'
<1> SUFFICES ASSUME CollectorInv PROVE
      (\/ RequestOk(h) \/ RequestFails(h) \/ RequestCanceled(h)
       \/ ReadEvent(h) \/ ReadEnd(h) \/ ReadFails(h) \/ ReadCanceled(h)
       \/ Send(h) \/ SendCanceled(h)) => CollectorInv'
  OBVIOUS
<1> USE DEF Active, Results
<1>1. CASE RequestOk(h) BY <1>1, TaskMoves DEF RequestOk
<1>2. CASE RequestFails(h) BY <1>2, TaskReturns DEF RequestFails
<1>3. CASE RequestCanceled(h) BY <1>3, TaskReturns DEF RequestCanceled
<1>4. CASE ReadEvent(h) BY <1>4, TaskMoves DEF ReadEvent
<1>5. CASE ReadEnd(h) BY <1>5, TaskReturns DEF ReadEnd
<1>6. CASE ReadFails(h) BY <1>6, TaskReturns DEF ReadFails
<1>7. CASE ReadCanceled(h) BY <1>7, TaskReturns DEF ReadCanceled
<1>8. CASE Send(h) BY <1>8, SendStep
<1>9. CASE SendCanceled(h) BY <1>9, TaskReturns DEF SendCanceled
<1> QED BY <1>1, <1>2, <1>3, <1>4, <1>5, <1>6, <1>7, <1>8, <1>9

LEMMA CollectorStep == CollectorInv /\ [Next]_vars => CollectorInv'
<1> SUFFICES ASSUME CollectorInv, [Next]_vars PROVE CollectorInv' OBVIOUS
<1>1. CASE Dispatch BY <1>1, DispatchStep
<1>2. CASE CloseEvents BY <1>2, CloseEventsStep
<1>3. ASSUME NEW h \in Hours,
             \/ RequestOk(h) \/ RequestFails(h) \/ RequestCanceled(h)
             \/ ReadEvent(h) \/ ReadEnd(h) \/ ReadFails(h) \/ ReadCanceled(h)
             \/ Send(h) \/ SendCanceled(h)
      PROVE  CollectorInv'
  BY <1>3, FetchStep
<1>4. CASE /\ \/ Signal \/ Drain \/ Produce \/ StartFlush \/ FlushDone \/ FlushTimeout
              \/ \E e \in Event : Acknowledged(e) \/ Rejected(e)
           /\ UNCHANGED fetchVars
  BY <1>4, StageStepKeeps
<1>5. CASE UNCHANGED vars
  <2>1. UNCHANGED stageVars /\ UNCHANGED <<dispatched, task, sent, groupErr>>
    BY <1>5 DEF vars, fetchVars
  <2>2. TypeOK' BY <2>1, StageKept DEF CollectorInv, TypeOK
  <2>3. Sent' = Sent /\ Running' = Running BY <2>1 DEF Sent, Running
  <2>4. TasksInOrder' BY <2>1, <2>3, StageKept DEF CollectorInv, TasksInOrder
  <2> QED BY <2>1, <2>2, <2>3, <2>4, StageKept DEF CollectorInv
<1> QED BY <1>1, <1>2, <1>3, <1>4, <1>5 DEF Next

(* The invariant holds in every reachable state.                           *)
THEOREM CollectorInvariant == Spec => []CollectorInv
BY CollectorInit, CollectorStep, PTL DEF Spec

(* Type correctness: the channel and the client's buffer keep their bounds *)
(* whatever the dumps hold, so the memory of a backfill is bounded         *)
(* (main.go:46-67).                                                        *)
THEOREM CollectorTypeCorrect == Spec => []TypeOK
<1>1. CollectorInv => TypeOK BY DEF CollectorInv
<1> QED BY <1>1, CollectorInvariant, PTL

(* No event that entered the channel disappears or is produced twice,      *)
(* whatever is cancelled and whoever fails (main.go:384-392).              *)
THEOREM NothingLostOrDoubled == Spec => []SentIsSomewhereOnce
<1>1. CollectorInv => SentIsSomewhereOnce
  BY EventsCount, CollectorInvParts, PlacesAddUp DEF SentIsSomewhereOnce
<1> QED BY <1>1, CollectorInvariant, PTL

(* Exit code 0 without a signal: every hour was read to its end            *)
(* (main.go:400-413, 474-498).                                             *)
THEOREM CleanExitMeansComplete == Spec => []CleanExitIsComplete
<1>1. CollectorInv => CleanExitIsComplete
  <2> SUFFICES ASSUME CollectorInv, main = "exit0", ~signalled, NEW h \in Hours
               PROVE  task[h] = "ok"
    BY DEF CleanExitIsComplete
  <2>1. result # "pending" /\ result # "error"
    BY DEF CollectorInv, StageInOrder, Drained
  <2>2. dispatched = NumHours /\ Running = {} /\ groupErr = "none"
    BY <2>1 DEF CollectorInv, TasksInOrder, TypeOK
  <2>3. task[h] \notin {"canceled", "error"} BY <2>2 DEF CollectorInv, TasksInOrder
  <2>4. task[h] # "idle"
    BY <2>2, CollectorAssumption DEF CollectorInv, TasksInOrder, Hours
  <2>5. task[h] \notin Active BY <2>2 DEF Running
  <2> QED BY <2>3, <2>4, <2>5 DEF CollectorInv, TypeOK, Results
<1> QED BY <1>1, CollectorInvariant, PTL

(* Exit code 0 in any case: Kafka has answered on everything that was sent *)
(* (main.go:384-392, 448-463).                                             *)
THEOREM ExitZeroMeansSettled == Spec => []ExitZeroIsSettled
<1>1. CollectorInv => ExitZeroIsSettled
  <2> SUFFICES ASSUME CollectorInv, main = "exit0" PROVE Settled = Sent
    BY DEF ExitZeroIsSettled
  <2>1. queue = <<>> /\ hand = NoEvent /\ buffered = {} /\ dropped = {}
    BY DEF CollectorInv, StageInOrder, Drained, Exited
  <2>2. Queued = {} /\ InHand = {} BY <2>1 DEF Queued, InHand
  <2> QED BY <2>1, <2>2 DEF CollectorInv, InStage
<1> QED BY <1>1, CollectorInvariant, PTL

LEMMA SameCount == \A S : HandOver!Cardinality(S) = Cardinality(S)
BY DEF HandOver!Cardinality, Cardinality

(* A step of the backfill is a step of BoundedHandOver or none of it.      *)
LEMMA CollectorStepHandsOver ==
  ASSUME CollectorInv, [Next]_vars
  PROVE  [HandOver!Next]_HandOver!handOverVars
<1> USE DEF HandOver!Next, HandOver!handOverVars
<1>1. StageInv(Event) /\ InStage = Sent BY CollectorInvParts
<1>2. HandOver!Open = Held BY <1>1, OpenIsHeld DEF HandOver!Open
<1>3. ASSUME NEW h \in Hours, Send(h) PROVE HandOver!Next
  <2> DEFINE e == <<h, sent[h] + 1>>
  <2>1. /\ Push(e) /\ task[h] = "sending" /\ sent' = [sent EXCEPT ![h] = @ + 1] BY <1>3 DEF Send
  <2>2. e \in Event /\ e \notin Sent /\ Sent' = Sent \cup {e} BY <2>1, SendAddsOne
  <2>3. Outcome = "running"
    BY <2>1, RunningKeepsOpen DEF Active, Outcome, Exited
  <2>4. UNCHANGED <<Settled, dropped, Outcome>> BY <2>1 DEF Push, Settled, Outcome, Exited
  <2>5. Cardinality(Held) < QueueSize + 1 + BufferMax
    BY <1>1, <2>1, EventsCount, RoomForOneMore DEF Push
  <2> HIDE DEF e
  <2>6. HandOver!Accept(e) BY <1>2, <2>2, <2>3, <2>4, <2>5, SameCount DEF HandOver!Accept
  <2> QED BY <2>2, <2>6
<1>4. CASE /\ \/ Signal \/ Drain \/ Produce \/ StartFlush \/ FlushDone \/ FlushTimeout
              \/ \E e \in Event : Acknowledged(e) \/ Rejected(e)
           /\ UNCHANGED fetchVars
  <2>1. Sent' = Sent BY <1>4 DEF Sent, fetchVars
  <2> DEFINE Same == UNCHANGED <<Settled, dropped, Outcome>>
  <2>2. \/ Same
        \/ /\ Outcome = "running"
           /\ \E e \in Event : e \in Held /\ Settled' = Settled \cup {e}
           /\ UNCHANGED <<dropped, Outcome>>
        \/ /\ Outcome = "running" /\ Held = {} /\ Outcome' = "success"
           /\ UNCHANGED <<Settled, dropped>>
        \/ /\ Outcome = "running" /\ Outcome' = "failure" /\ dropped' = Held
           /\ UNCHANGED Settled
    BY <1>1, <1>4, EventsCount, StageHandsOver DEF Drain
  <2> QED BY <1>2, <2>1, <2>2 DEF HandOver!Answer, HandOver!Succeed, HandOver!Fail
<1>5. CASE \/ Dispatch \/ CloseEvents \/ UNCHANGED vars
           \/ \E h \in Hours : \/ RequestOk(h) \/ RequestFails(h) \/ RequestCanceled(h)
                               \/ ReadEvent(h) \/ ReadEnd(h) \/ ReadFails(h) \/ ReadCanceled(h)
                               \/ SendCanceled(h)
  <2>1. UNCHANGED <<sent, main, delivered, failed, dropped>>
    BY <1>5 DEF Dispatch, CloseEvents, CloseQueue, RequestOk, RequestFails, RequestCanceled,
                ReadEvent, ReadEnd, ReadFails, ReadCanceled, SendCanceled, Return, vars, stageVars,
                fetchVars
  <2> QED BY <2>1 DEF Sent, Settled, Outcome, Exited
<1> QED BY <1>3, <1>4, <1>5 DEF Next

(* orchestrate keeps the promise of BoundedHandOver: nothing the hours     *)
(* send is lost or answered twice, exit code 0 leaves nothing open, and    *)
(* what is open is bounded by the channel, the hand of the loop and the    *)
(* client's buffer (main.go:46-67, 384-392, 448-463).                      *)
THEOREM BackfillHandsOver == Spec => ImplementsHandOver
<1>1. Init => HandOver!Init
  BY DEF Init, StageInit, HandOver!Init, Sent, Event, Settled, Outcome, Exited
<1>2. CollectorInv /\ [Next]_vars => [HandOver!Next]_HandOver!handOverVars
  BY CollectorStepHandsOver
<1> QED BY <1>1, <1>2, CollectorInvariant, PTL DEF Spec, ImplementsHandOver, HandOver!Spec
-----------------------------------------------------------------------------
(* The live collector. A record is an event and the number of its sending. *)
LEMMA RecordsCount == AreEvents(Record)
<1>1. IsFiniteSet(1 .. MaxEvents) /\ IsFiniteSet(1 .. MaxSends) BY LiveAssumption, FS_Interval
<1> QED BY <1>1, LiveAssumption, FS_Product DEF Record, Ids, AreEvents

(* LiveInv, with what ProducerStage_proofs speaks of taken together.       *)
StageServesRun ==
  /\ StageTypeOK(Record) /\ PlacesDisjoint /\ StageInOrder
  /\ InStage = SentRecords
  /\ result # "pending" => run = "returned"

LEMMA LiveInvParts ==
  LiveInv => StageInv(Record) /\ StageServesRun
BY DEF LiveInv, LiveTypeOK, StageInv, StageServesRun

(* A page has at most PageSize events, from `published` downwards.         *)
LEMMA PageProperties ==
  ASSUME published \in 0 .. MaxEvents
  PROVE  /\ Page \in Seq(Ids) /\ Len(Page) <= PageSize
         /\ \A k \in 1 .. Len(Page) : Page[k] \in published - PageSize + 1 .. published
<1> USE LiveAssumption
<1>1. OnPage \subseteq published - PageSize + 1 .. published /\ OnPage \subseteq 1 .. published
  BY DEF OnPage
<1>2. /\ IsFiniteSet(published - PageSize + 1 .. published)
      /\ Cardinality(published - PageSize + 1 .. published) = PageSize
      /\ IsFiniteSet(1 .. published) /\ Cardinality(1 .. published) = published
  <2>1. published - PageSize + 1 \in Int /\ published \in Int /\ 1 \in Int OBVIOUS
  <2> QED BY <2>1, FS_Interval
<1>3. /\ IsFiniteSet(OnPage)
      /\ Cardinality(OnPage) <= PageSize /\ Cardinality(OnPage) <= published
  <2>1. OnPage \in SUBSET (published - PageSize + 1 .. published) /\ OnPage \in SUBSET (1 .. published)
    BY <1>1
  <2>2. IsFiniteSet(OnPage) /\ Cardinality(OnPage) <= Cardinality(published - PageSize + 1 .. published)
    BY <1>2, <2>1, FS_Subset
  <2>3. Cardinality(OnPage) <= Cardinality(1 .. published) BY <1>2, <2>1, FS_Subset
  <2> QED BY <1>2, <2>2, <2>3
<1> DEFINE n == Cardinality(OnPage)
<1>4. n \in Nat BY <1>3, FS_CardinalityType
<1>5. \A k \in 1 .. n : published - k + 1 \in Ids /\ published - k + 1 \in published - PageSize + 1 .. published
  BY <1>3, <1>4 DEF Ids
<1>6. Page = [k \in 1 .. n |-> published - k + 1] BY DEF Page
<1> HIDE DEF n
<1>7. Page \in Seq(Ids) /\ Len(Page) = n BY <1>4, <1>5, <1>6
<1> QED BY <1>3, <1>4, <1>5, <1>6, <1>7 DEF n

-----------------------------------------------------------------------------
(* The window.                                                             *)

(* Fewer than two pages of events lie around an event of the page.         *)
LEMMA FewAround ==
  ASSUME NEW i \in Int, NEW top \in Int, i <= top, i > top - PageSize,
         NEW n \in Nat, NEW f \in [1 .. n -> (i - PageSize + 1 .. top) \ {i}],
         \A a, b \in 1 .. n : f[a] = f[b] => a = b
  PROVE  n <= 2 * PageSize - 2
<1> USE LiveAssumption
<1> DEFINE Around == i - PageSize + 1 .. top
<1>1. i - PageSize + 1 \in Int /\ i - PageSize + 1 <= top /\ i \in Around BY LiveAssumption
<1>2. IsFiniteSet(Around) /\ Cardinality(Around) = top - (i - PageSize + 1) + 1
  BY <1>1, FS_Interval
<1>3. IsFiniteSet(Around \ {i}) /\ Cardinality(Around \ {i}) = Cardinality(Around) - 1
  BY <1>1, <1>2, FS_RemoveElement
<1>4. IsFiniteSet(1 .. n) /\ Cardinality(1 .. n) = n
  <2>1. 1 \in Int /\ n \in Int OBVIOUS
  <2> QED BY <2>1, FS_Interval
<1>5. ~(Cardinality(Around \ {i}) < Cardinality(1 .. n)) BY <1>3, <1>4, FS_PigeonHole
<1> QED BY <1>2, <1>3, <1>4, <1>5

(* An event that leaves the window has left the page: otherwise the others *)
(* of the window and the new one, all different, lie around it.            *)
LEMMA EvictedHasLeftPage ==
  ASSUME LiveTypeOK, WindowCovers, Len(seen) = DedupWindow,
         NEW x \in Ids, ~Seen(x), x \in etag - PageSize + 1 .. etag
  PROVE  seen[1] <= etag - PageSize
<1> USE LiveAssumption
<1>1. \A k \in 1 .. DedupWindow : seen[k] \in Ids /\ seen[k] \in Int /\ seen[k] <= etag /\ seen[k] # x
  <2>1. \A k \in 1 .. DedupWindow : seen[k] \in Ids BY ElementOfSeq DEF LiveTypeOK
  <2>2. Ids \subseteq Int BY DEF Ids
  <2>3. \A k \in 1 .. DedupWindow : seen[k] <= etag /\ seen[k] # x BY DEF WindowCovers, Seen
  <2> QED BY <2>1, <2>2, <2>3
<1>2. 1 \in 1 .. DedupWindow /\ etag \in Int /\ x \in Int /\ x <= etag /\ x > etag - PageSize
  BY DEF LiveTypeOK, Ids
<1> SUFFICES ASSUME seen[1] > etag - PageSize PROVE FALSE BY <1>1, <1>2
<1>3. PICK i \in Int : i = seen[1] BY <1>1, <1>2
<1>4. i <= etag /\ i > etag - PageSize /\ i # x BY <1>1, <1>2, <1>3
<1>5. \A k \in 1 .. DedupWindow - 1 :
        /\ k + 1 \in 1 .. DedupWindow
        /\ seen[k + 1] \in (i - PageSize + 1 .. etag) \ {i}
  <2> SUFFICES ASSUME NEW k \in 1 .. DedupWindow - 1
               PROVE  /\ k + 1 \in 1 .. DedupWindow
                      /\ seen[k + 1] \in (i - PageSize + 1 .. etag) \ {i}
    OBVIOUS
  <2>1. k + 1 \in 1 .. DedupWindow /\ 1 < k + 1 OBVIOUS
  <2>2. seen[k + 1] > seen[1] - PageSize /\ seen[k + 1] # seen[1]
    BY <1>2, <2>1 DEF WindowCovers
  <2> QED BY <1>1, <1>3, <2>1, <2>2
<1> DEFINE f == [k \in 1 .. DedupWindow |-> IF k = DedupWindow THEN x ELSE seen[k + 1]]
<1>6. f \in [1 .. DedupWindow -> (i - PageSize + 1 .. etag) \ {i}]
  <2>1. x \in (i - PageSize + 1 .. etag) \ {i} BY <1>2, <1>4
  <2> QED BY <1>5, <2>1
<1>7. \A a, b \in 1 .. DedupWindow : f[a] = f[b] => a = b
  <2> SUFFICES ASSUME NEW a \in 1 .. DedupWindow, NEW b \in 1 .. DedupWindow, f[a] = f[b]
               PROVE  a = b
    OBVIOUS
  <2>1. CASE a = DedupWindow \/ b = DedupWindow BY <1>1, <1>5, <2>1
  <2>2. CASE a # DedupWindow /\ b # DedupWindow
    <3>1. seen[a + 1] = seen[b + 1] BY <2>2
    <3>2. a + 1 \in 1 .. DedupWindow /\ b + 1 \in 1 .. DedupWindow BY <2>2
    <3>3. a + 1 = b + 1 BY <3>1, <3>2 DEF WindowCovers
    <3> QED BY <3>3
  <2> QED BY <2>1, <2>2
<1> HIDE DEF f
<1>8. DedupWindow <= 2 * PageSize - 2 BY <1>2, <1>4, <1>6, <1>7, FewAround
<1> QED BY <1>8

(* The window after a new event.                                           *)
LEMMA RememberedProperties ==
  ASSUME LiveTypeOK, NEW x \in Ids
  PROVE  /\ Remembered(x) \in Seq(Ids)
         /\ Len(Remembered(x)) <= DedupWindow /\ Len(Remembered(x)) \in Nat \ {0}
         /\ Remembered(x)[Len(Remembered(x))] = x
         /\ \/ /\ Len(Remembered(x)) = Len(seen) + 1
               /\ \A k \in 1 .. Len(seen) : Remembered(x)[k] = seen[k]
            \/ /\ Len(seen) = DedupWindow /\ Len(Remembered(x)) = DedupWindow
               /\ \A k \in 1 .. DedupWindow - 1 : Remembered(x)[k] = seen[k + 1]
<1> USE LiveAssumption
<1>1. seen \in Seq(Ids) /\ Len(seen) \in Nat /\ Len(seen) <= DedupWindow BY LenProperties DEF LiveTypeOK
<1>2. CASE Len(seen) < DedupWindow
  <2>1. Remembered(x) = Append(seen, x) BY <1>2 DEF Remembered
  <2> QED BY <1>1, <1>2, <2>1, AppendProperties
<1>3. CASE ~(Len(seen) < DedupWindow)
  <2>1. Remembered(x) = Append(Tail(seen), x) BY <1>3 DEF Remembered
  <2>2. Len(seen) = DedupWindow /\ seen # <<>> BY <1>1, <1>3, EmptySeq
  <2>3. /\ Tail(seen) \in Seq(Ids) /\ Len(Tail(seen)) = DedupWindow - 1
        /\ \A k \in 1 .. DedupWindow - 1 : Tail(seen)[k] = seen[k + 1]
    BY <1>1, <2>2, HeadTailProperties
  <2> DEFINE t == Tail(seen)
  <2>4. t \in Seq(Ids) /\ Len(t) = DedupWindow - 1 /\ \A k \in 1 .. DedupWindow - 1 : t[k] = seen[k + 1]
    BY <2>3
  <2>5. Remembered(x) = Append(t, x) BY <2>1
  <2> HIDE DEF t
  <2>6. /\ Append(t, x) \in Seq(Ids) /\ Len(Append(t, x)) = DedupWindow
        /\ \A k \in 1 .. DedupWindow - 1 : Append(t, x)[k] = t[k]
        /\ Append(t, x)[DedupWindow] = x
    BY <2>4, AppendProperties
  <2> QED BY <2>2, <2>4, <2>5, <2>6
<1> QED BY <1>2, <1>3

-----------------------------------------------------------------------------
LEMMA LiveStarts == LiveInit => LiveInv
<1> SUFFICES ASSUME LiveInit PROVE LiveInv OBVIOUS
<1> USE LiveAssumption DEF LiveInit
<1>1. StageInv(Record) /\ InStage = {} BY RecordsCount, StageStarts
<1>2. SentRecords = {} BY DEF SentRecords, Record
<1>3. result = "pending" BY DEF StageInit
<1>4. page \in Seq(Ids) /\ Len(page) <= PageSize /\ seen \in Seq(Ids) /\ Len(seen) <= DedupWindow
  BY EmptySeq
<1>5. LiveTypeOK BY <1>1, <1>4 DEF LiveTypeOK, NoEtag, StageInv
<1>6. WindowCovers BY DEF WindowCovers, NoEtag
<1>7. SentAtMostOnce BY DEF SentAtMostOnce
<1> QED BY <1>1, <1>2, <1>3, <1>5, <1>6, <1>7 DEF LiveInv, StageInv

(* The loop, the Kafka client and the signal leave Run as it is.           *)
LEMMA LiveStageKeeps ==
  LiveInv /\ (Signal \/ StageStep \/ Settle) /\ UNCHANGED pollVars => LiveInv'
<1> SUFFICES ASSUME LiveInv, Signal \/ StageStep \/ Settle, UNCHANGED pollVars PROVE LiveInv'
  OBVIOUS
<1>1. StageInv(Record) BY LiveInvParts
<1>2. StageInv(Record)' /\ InStage' = InStage /\ result' = result
  <2> USE RecordsCount, <1>1
  <2>1. CASE Signal BY <2>1, SignalInStage
  <2>2. CASE Receive BY <2>2, ReceiveInStage
  <2>3. CASE Produce BY <2>3, ProduceInStage
  <2>4. CASE StartFlush \/ FlushDone \/ FlushTimeout BY <2>4, FlushInStage
  <2>5. ASSUME NEW e \in Record, Acknowledged(e) \/ Rejected(e)
        PROVE  StageInv(Record)' /\ InStage' = InStage /\ result' = result
    BY <2>5, SettleInStage
  <2> QED BY <2>1, <2>2, <2>3, <2>4, <2>5 DEF StageStep, Settle
<1>3. UNCHANGED <<published, run, etag, page, seen, sends, badBodies>> BY DEF pollVars
<1>4. SentRecords' = SentRecords BY <1>3 DEF SentRecords
<1>5. StageServesRun' BY <1>2, <1>3, <1>4, LiveInvParts DEF StageServesRun, StageInv
<1>6. LiveTypeOK' BY <1>2, <1>3 DEF LiveInv, LiveTypeOK, StageInv
<1>7. WindowCovers' /\ SentAtMostOnce'
  BY <1>3 DEF LiveInv, WindowCovers, SentAtMostOnce, Seen
<1> QED BY <1>5, <1>6, <1>7 DEF LiveInv, StageServesRun

-----------------------------------------------------------------------------
-----------------------------------------------------------------------------
(* The steps of Run that leave the window and the channel as they are.     *)
LEMMA StageSame ==
  ASSUME LiveInv, UNCHANGED stageVars, UNCHANGED sends, run = "returned" => run' = "returned"
  PROVE  StageServesRun'
<1>1. StageInv(Record)' /\ InStage' = InStage /\ result' = result
  BY LiveInvParts, StageUntouched
<1>2. SentRecords' = SentRecords BY DEF SentRecords
<1> QED BY <1>1, <1>2, LiveInvParts DEF StageServesRun, StageInv

LEMMA PublishStep == LiveInv /\ Publish => LiveInv'
<1> SUFFICES ASSUME LiveInv, Publish PROVE LiveInv' OBVIOUS
<1> USE LiveAssumption DEF Publish, LiveInv
<1>1. StageServesRun' BY StageSame
<1>2. LiveTypeOK' BY <1>1 DEF LiveTypeOK, StageServesRun
<1>3. WindowCovers' BY DEF WindowCovers, LiveTypeOK, Seen
<1>4. SentAtMostOnce' BY DEF SentAtMostOnce
<1> QED BY <1>1, <1>2, <1>3, <1>4 DEF StageServesRun

LEMMA StillShown ==
  \A i, p, old, new \in Int : old <= new /\ ~(i <= new - p) => ~(i <= old - p)
OBVIOUS

(* A later poll: what has left the page has not come back.                 *)
LEMMA NewerEtag ==
  ASSUME LiveInv, UNCHANGED <<stageVars, seen, sends, published>>,
         etag' = published \/ etag' = etag, run' \in {"poll", "send", "sleep", "returned"},
         badBodies' \in 0 .. MaxBadBodies, run # "returned",
         page' \in Seq(Ids), Len(page') <= PageSize,
         run' = "send" => \A k \in 1 .. Len(page') : page'[k] \in etag' - PageSize + 1 .. etag'
  PROVE  LiveInv'
<1> USE LiveAssumption DEF LiveInv
<1>1. StageServesRun' BY StageSame
<1>2. LiveTypeOK' BY <1>1 DEF LiveTypeOK, StageServesRun
<1>3. /\ etag \in Int /\ published \in Int /\ etag' \in Int /\ etag <= etag' /\ etag' <= published'
      /\ \A k \in 1 .. Len(seen) : seen[k] \in Int
  <2>1. \A k \in 1 .. Len(seen) : seen[k] \in Ids BY ElementOfSeq DEF LiveTypeOK
  <2>2. Ids \subseteq Int BY DEF Ids
  <2>3. etag \in Int /\ published \in Int /\ etag <= published BY DEF LiveTypeOK, WindowCovers
  <2>4. etag' \in Int /\ etag <= etag' /\ etag' <= published' BY <2>3
  <2> QED BY <2>1, <2>2, <2>3, <2>4
<1>4. WindowCovers'
  <2>1. \A k \in 1 .. Len(seen') : seen'[k] <= etag' BY <1>3 DEF WindowCovers
  <2>2. \A i \in Ids : sends'[i] > 0 => Seen(i)' \/ i <= etag' - PageSize'
    <3> SUFFICES ASSUME NEW i \in Ids, sends[i] > 0, ~(i <= etag' - PageSize)
                 PROVE  Seen(i)'
      OBVIOUS
    <3>1. i \in Int /\ PageSize \in Int BY DEF Ids
    <3>2. etag <= etag' /\ etag \in Int /\ etag' \in Int BY <1>3
    <3>3. ~(i <= etag - PageSize) BY <3>1, <3>2, StillShown
    <3>4. Seen(i) BY <3>3 DEF WindowCovers
    <3> QED BY <3>4 DEF Seen
  <2> QED BY <1>3, <2>1, <2>2 DEF WindowCovers
<1>5. SentAtMostOnce' BY DEF SentAtMostOnce
<1> QED BY <1>1, <1>2, <1>4, <1>5 DEF StageServesRun

LEMMA PollStep ==
  LiveInv /\ (PollNotModified \/ PollOk \/ PollBadBody \/ PollFails) => LiveInv'
<1> SUFFICES ASSUME LiveInv, PollNotModified \/ PollOk \/ PollBadBody \/ PollFails PROVE LiveInv'
  OBVIOUS
<1> USE LiveAssumption
<1>1. /\ page \in Seq(Ids) /\ Len(page) <= PageSize /\ badBodies \in 0 .. MaxBadBodies
      /\ published \in 0 .. MaxEvents
  BY DEF LiveInv, LiveTypeOK
<1>2. CASE PollOk
  <2>1. /\ Page \in Seq(Ids) /\ Len(Page) <= PageSize
        /\ \A k \in 1 .. Len(Page) : Page[k] \in published - PageSize + 1 .. published
    BY <1>1, PageProperties
  <2> QED BY <1>1, <1>2, <2>1, NewerEtag DEF PollOk, Polling
<1>3. CASE PollNotModified BY <1>1, <1>3, NewerEtag DEF PollNotModified, Polling
<1>4. CASE PollBadBody BY <1>1, <1>4, NewerEtag DEF PollBadBody, Polling
<1>5. CASE PollFails BY <1>1, <1>5, NewerEtag DEF PollFails, EtagOfFailure, Polling
<1> QED BY <1>2, <1>3, <1>4, <1>5

LEMMA PauseStep == LiveInv /\ (PageDone \/ Wake \/ Stop) => LiveInv'
<1> SUFFICES ASSUME LiveInv, PageDone \/ Wake \/ Stop PROVE LiveInv' OBVIOUS
<1>1. page \in Seq(Ids) /\ Len(page) <= PageSize /\ badBodies \in 0 .. MaxBadBodies
  BY DEF LiveInv, LiveTypeOK
<1> QED BY <1>1, NewerEtag DEF PageDone, Wake, Stop

(* The rest of the page.                                                   *)
LEMMA PageTail ==
  ASSUME LiveInv, run = "send", page # <<>>
  PROVE  /\ Head(page) \in Ids /\ Head(page) \in etag - PageSize + 1 .. etag
         /\ Tail(page) \in Seq(Ids) /\ Len(Tail(page)) <= PageSize
         /\ \A k \in 1 .. Len(Tail(page)) : Tail(page)[k] \in etag - PageSize + 1 .. etag
<1> USE LiveAssumption
<1>1. /\ page \in Seq(Ids) /\ Len(page) <= PageSize
      /\ \A k \in 1 .. Len(page) : page[k] \in etag - PageSize + 1 .. etag
  BY DEF LiveInv, LiveTypeOK, WindowCovers
<1>2. Len(page) \in Nat \ {0} /\ Head(page) = page[1] BY <1>1, EmptySeq
<1>3. /\ Tail(page) \in Seq(Ids) /\ Len(Tail(page)) = Len(page) - 1 /\ Head(page) \in Ids
      /\ \A k \in 1 .. Len(Tail(page)) : Tail(page)[k] = page[k + 1]
  BY <1>1, HeadTailProperties
<1>4. \A k \in 1 .. Len(Tail(page)) : k + 1 \in 1 .. Len(page) BY <1>2, <1>3
<1> QED BY <1>1, <1>2, <1>3, <1>4

LEMMA SkipStep == LiveInv /\ SkipDuplicate => LiveInv'
<1> SUFFICES ASSUME LiveInv, SkipDuplicate PROVE LiveInv' OBVIOUS
<1>1. /\ Tail(page) \in Seq(Ids) /\ Len(Tail(page)) <= PageSize
      /\ \A k \in 1 .. Len(Tail(page)) : Tail(page)[k] \in etag - PageSize + 1 .. etag
      /\ badBodies \in 0 .. MaxBadBodies
  BY PageTail DEF SkipDuplicate, LiveInv, LiveTypeOK
<1> QED BY <1>1, NewerEtag DEF SkipDuplicate

LEMMA CloseOutStep == LiveInv /\ CloseOut => LiveInv'
<1> SUFFICES ASSUME LiveInv, CloseOut PROVE LiveInv' OBVIOUS
<1>1. CloseQueue("canceled") /\ run = "returned" /\ "canceled" \in Results
  BY DEF CloseOut, Results
<1>2. UNCHANGED <<published, run, etag, page, seen, sends, badBodies>>
  BY DEF CloseOut, pollVars
<1>3. StageInv(Record)' /\ InStage' = InStage BY <1>1, LiveInvParts, CloseKeeps
<1>4. SentRecords' = SentRecords BY <1>2 DEF SentRecords
<1>5. StageServesRun' BY <1>1, <1>2, <1>3, <1>4, LiveInvParts DEF StageServesRun, StageInv
<1>6. LiveTypeOK' BY <1>2, <1>3 DEF LiveInv, LiveTypeOK, StageInv
<1>7. WindowCovers' /\ SentAtMostOnce'
  BY <1>2 DEF LiveInv, WindowCovers, SentAtMostOnce, Seen
<1> QED BY <1>5, <1>6, <1>7 DEF LiveInv, StageServesRun

-----------------------------------------------------------------------------
(* A send adds one record, which is new to the stage.                      *)
LEMMA SendAddsRecord ==
  ASSUME LiveInv, NEW x \in Ids, sends[x] < MaxSends, sends' = [sends EXCEPT ![x] = @ + 1]
  PROVE  LET e == <<x, sends[x] + 1>>
         IN  e \in Record /\ e \notin SentRecords /\ SentRecords' = SentRecords \cup {e}
<1> DEFINE e == <<x, sends[x] + 1>>
<1>1. /\ sends \in [Ids -> 0 .. MaxSends] /\ sends[x] \in Nat /\ MaxSends \in Nat
      /\ sends[x] + 1 \in 1 .. MaxSends
  BY LiveAssumption DEF LiveInv, LiveTypeOK
<1>2. e \in Record /\ e \notin SentRecords BY <1>1 DEF Record, SentRecords
<1>3. \A g \in Ids : sends'[g] = IF g = x THEN sends[x] + 1 ELSE sends[g] BY <1>1
<1>4. \A g \in Ids : \A n \in 1 .. MaxSends :
        n <= sends'[g] <=> n <= sends[g] \/ (g = x /\ n = sends[x] + 1)
  BY <1>1, <1>3
<1>5. \A f \in Record : f \in SentRecords' <=> f \in SentRecords \/ f = e
  BY <1>4 DEF Record, SentRecords
<1>6. SentRecords' = SentRecords \cup {e} BY <1>2, <1>5 DEF SentRecords
<1> QED BY <1>2, <1>6

(* An event is sent: it is new to the window, so it was never sent before. *)
LEMMA RunSends == LiveInv /\ SendEvent => LiveInv'
<1> SUFFICES ASSUME LiveInv, SendEvent PROVE LiveInv' OBVIOUS
<1> USE LiveAssumption, StageAssumption DEF LiveInv
<1>1. PICK x \in Ids : x = Head(page) BY PageTail DEF SendEvent
<1> DEFINE n == sends[x] + 1
<1>2. /\ UNCHANGED <<published, run, etag, badBodies>>
      /\ UNCHANGED <<signalled, result, main, hand, buffered, delivered, failed, dropped>>
      /\ run = "send" /\ page' = Tail(page) /\ seen' = Remembered(x)
      /\ queue' = Append(queue, <<x, n>>) /\ Len(queue) < QueueSize
      /\ ~Seen(x) /\ sends[x] < MaxSends /\ sends' = [sends EXCEPT ![x] = @ + 1]
  BY <1>1 DEF SendEvent, Push, QueueHasRoom
<1>3. /\ x \in etag - PageSize + 1 .. etag
      /\ page' \in Seq(Ids) /\ Len(page') <= PageSize
      /\ \A k \in 1 .. Len(page') : page'[k] \in etag - PageSize + 1 .. etag
  BY <1>1, <1>2, PageTail DEF SendEvent
<1>4. sends[x] = 0
  <2>1. sends[x] \in Nat BY DEF LiveTypeOK
  <2>2. etag \in Int /\ x \in Int /\ x > etag - PageSize BY <1>3 DEF LiveTypeOK, Ids
  <2>3. ~(sends[x] > 0) BY <1>2, <2>2 DEF WindowCovers
  <2> QED BY <2>1, <2>3
<1>5. /\ seen \in Seq(Ids) /\ Len(seen) \in Nat /\ Len(seen) <= DedupWindow
      /\ \A k \in 1 .. Len(seen) : seen[k] \in Int /\ seen[k] # x
  <2>1. \A k \in 1 .. Len(seen) : seen[k] \in Ids BY ElementOfSeq DEF LiveTypeOK
  <2>2. Ids \subseteq Int BY DEF Ids
  <2>3. \A k \in 1 .. Len(seen) : seen[k] # x BY <1>2 DEF Seen
  <2> QED BY <2>1, <2>2, <2>3, LenProperties DEF LiveTypeOK
<1>6. /\ seen' \in Seq(Ids) /\ Len(seen') <= DedupWindow /\ Len(seen') \in Nat \ {0}
      /\ seen'[Len(seen')] = x
      /\ \/ /\ Len(seen') = Len(seen) + 1
            /\ \A k \in 1 .. Len(seen) : seen'[k] = seen[k]
         \/ /\ Len(seen) = DedupWindow /\ Len(seen') = DedupWindow
            /\ \A k \in 1 .. DedupWindow - 1 : seen'[k] = seen[k + 1]
  BY <1>2, RememberedProperties
<1>7. StageServesRun' /\ LiveTypeOK'
  <2>1. Push(<<x, n>>) /\ result = "pending" BY <1>1, <1>2, LiveInvParts DEF SendEvent, StageServesRun
  <2>2. <<x, n>> \in Record /\ <<x, n>> \notin SentRecords /\ SentRecords' = SentRecords \cup {<<x, n>>}
    BY <1>2, <1>4, SendAddsRecord
  <2>3. StageInv(Record) /\ <<x, n>> \notin InStage BY <2>2, LiveInvParts DEF StageServesRun
  <2>4. StageInv(Record)' /\ InStage' = InStage \cup {<<x, n>>} /\ result' = result
    <3> DEFINE e == <<x, n>>
    <3>1. Push(e) /\ e \in Record /\ e \notin InStage BY <2>1, <2>2, <2>3
    <3> HIDE DEF e
    <3>2. StageInv(Record)' /\ InStage' = InStage \cup {e} /\ result' = result
      BY <2>1, <2>3, <3>1, RecordsCount, PushAdds
    <3> QED BY <3>2 DEF e
  <2>5. StageServesRun' BY <2>1, <2>2, <2>4, LiveInvParts DEF StageServesRun, StageInv
  <2>6. sends' \in [Ids -> 0 .. MaxSends] BY <1>2, <1>4 DEF LiveTypeOK
  <2> QED BY <1>2, <1>3, <1>6, <2>4, <2>5, <2>6 DEF LiveTypeOK, StageInv
<1>8. SentAtMostOnce' BY <1>2, <1>4 DEF SentAtMostOnce, LiveTypeOK
<1>9. /\ etag \in Int /\ x \in Int /\ x <= etag /\ x > etag - PageSize /\ PageSize \in Int
  BY <1>3 DEF LiveTypeOK, Ids
(* Each place but the last holds what one place of the old window held. *)
<1>10. \E d \in {0, 1} : /\ Len(seen') = Len(seen) + 1 - d
                         /\ \A k \in 1 .. Len(seen') - 1 : k + d \in 1 .. Len(seen) /\ seen'[k] = seen[k + d]
                         /\ d = 1 => Len(seen) = DedupWindow
  <2>1. CASE /\ Len(seen') = Len(seen) + 1
             /\ \A k \in 1 .. Len(seen) : seen'[k] = seen[k]
    <3>1. \A k \in 1 .. Len(seen') - 1 : k + 0 \in 1 .. Len(seen) /\ seen'[k] = seen[k + 0]
      BY <1>5, <2>1
    <3> QED BY <1>5, <2>1, <3>1
  <2>2. CASE /\ Len(seen) = DedupWindow /\ Len(seen') = DedupWindow
             /\ \A k \in 1 .. DedupWindow - 1 : seen'[k] = seen[k + 1]
    <3>1. \A k \in 1 .. Len(seen') - 1 : k + 1 \in 1 .. Len(seen) /\ seen'[k] = seen[k + 1]
      BY <1>5, <2>2
    <3> QED BY <1>5, <2>2, <3>1
  <2> QED BY <1>6, <2>1, <2>2
<1>11. PICK d \in {0, 1} : /\ Len(seen') = Len(seen) + 1 - d
                           /\ \A k \in 1 .. Len(seen') - 1 : k + d \in 1 .. Len(seen) /\ seen'[k] = seen[k + d]
                           /\ d = 1 => Len(seen) = DedupWindow
  BY <1>10
<1>12. \A k \in 1 .. Len(seen') : k = Len(seen') \/ k \in 1 .. Len(seen') - 1 BY <1>6
<1>13. \A k \in 1 .. Len(seen') : seen'[k] \in Int /\ seen'[k] <= etag'
  BY <1>2, <1>5, <1>6, <1>9, <1>11, <1>12 DEF WindowCovers
<1>14. \A j, k \in 1 .. Len(seen') : seen'[j] = seen'[k] => j = k
  <2> SUFFICES ASSUME NEW j \in 1 .. Len(seen'), NEW k \in 1 .. Len(seen'), seen'[j] = seen'[k]
               PROVE  j = k
    OBVIOUS
  <2>1. CASE j = Len(seen') \/ k = Len(seen') BY <1>5, <1>6, <1>11, <1>12, <2>1
  <2>2. CASE j # Len(seen') /\ k # Len(seen')
    <3>1. seen[j + d] = seen[k + d] /\ j + d \in 1 .. Len(seen) /\ k + d \in 1 .. Len(seen)
      BY <1>11, <1>12, <2>2
    <3>2. j + d = k + d BY <3>1 DEF WindowCovers
    <3> QED BY <3>2
  <2> QED BY <2>1, <2>2
<1>15. \A j, k \in 1 .. Len(seen') : j < k => seen'[k] > seen'[j] - PageSize
  <2> SUFFICES ASSUME NEW j \in 1 .. Len(seen'), NEW k \in 1 .. Len(seen'), j < k
               PROVE  seen'[k] > seen'[j] - PageSize
    OBVIOUS
  <2>1. j \in 1 .. Len(seen') - 1 BY <1>6
  <2>2. CASE k = Len(seen')
    <3>1. seen'[k] = x /\ seen'[j] \in Int /\ seen'[j] <= etag BY <1>2, <1>6, <1>13, <2>2
    <3> QED BY <1>9, <3>1
  <2>3. CASE k # Len(seen')
    <3>1. /\ seen'[j] = seen[j + d] /\ seen'[k] = seen[k + d]
          /\ j + d \in 1 .. Len(seen) /\ k + d \in 1 .. Len(seen)
      BY <1>11, <1>12, <2>1, <2>3
    <3>2. j + d < k + d OBVIOUS
    <3> QED BY <3>1, <3>2 DEF WindowCovers
  <2> QED BY <2>2, <2>3
<1>16. \A i \in Ids : sends'[i] > 0 => Seen(i)' \/ i <= etag' - PageSize
  <2> SUFFICES ASSUME NEW i \in Ids, sends'[i] > 0, ~Seen(i)' PROVE i <= etag - PageSize
    BY <1>2
  <2>1. i # x BY <1>6 DEF Seen
  <2>2. sends[i] > 0 BY <1>2, <2>1 DEF LiveTypeOK
  <2>3. CASE Seen(i)
    <3>1. PICK k \in 1 .. Len(seen) : seen[k] = i BY <2>3 DEF Seen
    <3>2. ~(k - d \in 1 .. Len(seen') - 1)
      <4>1. (k - d) + d = k OBVIOUS
      <4>2. k - d \in 1 .. Len(seen') - 1 => seen'[k - d] = i BY <1>11, <3>1, <4>1
      <4>3. k - d \in 1 .. Len(seen') - 1 => k - d \in 1 .. Len(seen') BY <1>6
      <4> QED BY <4>2, <4>3 DEF Seen
    <3>3. k = 1 /\ d = 1 BY <1>5, <1>11, <3>2
    <3>4. seen[1] <= etag - PageSize BY <1>2, <1>3, <1>11, <3>3, EvictedHasLeftPage
    <3> QED BY <3>1, <3>3, <3>4
  <2>4. CASE ~Seen(i) BY <2>2, <2>4 DEF WindowCovers
  <2> QED BY <2>3, <2>4
<1>17. WindowCovers' BY <1>2, <1>3, <1>13, <1>14, <1>15, <1>16 DEF WindowCovers
<1> QED BY <1>7, <1>8, <1>17 DEF StageServesRun

LEMMA LiveStep == LiveInv /\ [LiveNext]_liveVars => LiveInv'
<1> SUFFICES ASSUME LiveInv, [LiveNext]_liveVars PROVE LiveInv' OBVIOUS
<1>1. CASE Publish BY <1>1, PublishStep
<1>2. CASE PollNotModified \/ PollOk \/ PollBadBody \/ PollFails BY <1>2, PollStep
<1>3. CASE SkipDuplicate BY <1>3, SkipStep
<1>4. CASE SendEvent BY <1>4, RunSends
<1>5. CASE PageDone \/ Wake \/ Stop BY <1>5, PauseStep
<1>6. CASE CloseOut BY <1>6, CloseOutStep
<1>7. CASE (Signal \/ StageStep \/ Settle) /\ UNCHANGED pollVars BY <1>7, LiveStageKeeps
<1>8. CASE UNCHANGED liveVars
  <2>1. UNCHANGED <<stageVars, pollVars>> BY <1>8 DEF liveVars
  <2>2. UNCHANGED <<published, run, etag, page, seen, sends, badBodies>> BY <2>1 DEF pollVars
  <2>3. StageServesRun' BY <2>1, <2>2, StageSame
  <2> QED BY <2>2, <2>3 DEF LiveInv, StageServesRun, LiveTypeOK, WindowCovers, SentAtMostOnce, Seen
<1> QED BY <1>1, <1>2, <1>3, <1>4, <1>5, <1>6, <1>7, <1>8 DEF LiveNext, PollerStep

(* The invariant holds in every reachable state.                           *)
THEOREM LiveInvariant == LiveSpec => []LiveInv
BY LiveStarts, LiveStep, PTL DEF LiveSpec

(* Type correctness: the dedup window, a page, the channel and the buffer  *)
(* of the Kafka client keep their bounds (events.go:388-426).              *)
THEOREM LiveTypeCorrect == LiveSpec => []LiveTypeOK
<1>1. LiveInv => LiveTypeOK BY DEF LiveInv
<1> QED BY <1>1, LiveInvariant, PTL

(* With a window of two pages, as the code has it, no event of the feed is *)
(* sent twice, however the feed moves between the polls, whichever of them *)
(* fail, and wherever the run is stopped (events.go:65-70, 411-426).       *)
THEOREM TwoPagesAreEnough == LiveSpec => []SentAtMostOnce
<1>1. LiveInv => SentAtMostOnce BY DEF LiveInv
<1> QED BY <1>1, LiveInvariant, PTL

LEMMA LiveSameCount == \A S : LiveHandOver!Cardinality(S) = Cardinality(S)
BY DEF LiveHandOver!Cardinality, Cardinality

(* A step of the live collector is a step of BoundedHandOver or none of it. *)
LEMMA LiveStepHandsOver ==
  ASSUME LiveInv, [LiveNext]_liveVars
  PROVE  [LiveHandOver!Next]_LiveHandOver!handOverVars
<1> USE DEF LiveHandOver!Next, LiveHandOver!handOverVars
<1>1. StageInv(Record) /\ StageServesRun BY LiveInvParts
<1>2. LiveHandOver!Open = Held BY <1>1, OpenIsHeld DEF LiveHandOver!Open, StageServesRun
<1>3. CASE SendEvent
  <2>1. PICK x \in Ids : x = Head(page) BY <1>3, PageTail DEF SendEvent
  <2> DEFINE e == <<x, sends[x] + 1>>
  <2>2. /\ run = "send" /\ Push(e) /\ sends[x] < MaxSends /\ sends' = [sends EXCEPT ![x] = @ + 1]
    BY <1>3, <2>1 DEF SendEvent
  <2>3. e \in Record /\ e \notin SentRecords /\ SentRecords' = SentRecords \cup {e}
    BY <2>2, SendAddsRecord
  <2>4. Outcome = "running"
    BY <1>1, <2>2 DEF StageServesRun, StageInOrder, Drained, Outcome, Exited
  <2>5. UNCHANGED <<Settled, dropped, Outcome>> BY <2>2 DEF Push, Settled, Outcome, Exited
  <2>6. Cardinality(Held) < QueueSize + 1 + BufferMax
    BY <1>1, <2>2, RecordsCount, RoomForOneMore DEF Push
  <2> HIDE DEF e
  <2>7. LiveHandOver!Accept(e)
    BY <1>2, <2>3, <2>4, <2>5, <2>6, LiveSameCount DEF LiveHandOver!Accept
  <2> QED BY <2>3, <2>7
<1>4. CASE (Signal \/ StageStep \/ Settle) /\ UNCHANGED pollVars
  <2>1. SentRecords' = SentRecords BY <1>4 DEF SentRecords, pollVars
  <2> DEFINE Same == UNCHANGED <<Settled, dropped, Outcome>>
  <2>2. \/ Same
        \/ /\ Outcome = "running"
           /\ \E e \in Record : e \in Held /\ Settled' = Settled \cup {e}
           /\ UNCHANGED <<dropped, Outcome>>
        \/ /\ Outcome = "running" /\ Held = {} /\ Outcome' = "success"
           /\ UNCHANGED <<Settled, dropped>>
        \/ /\ Outcome = "running" /\ Outcome' = "failure" /\ dropped' = Held
           /\ UNCHANGED Settled
    BY <1>1, <1>4, RecordsCount, StageHandsOver DEF StageStep, Settle
  <2> QED BY <1>2, <2>1, <2>2
          DEF LiveHandOver!Answer, LiveHandOver!Succeed, LiveHandOver!Fail
<1>5. CASE \/ Publish \/ PollNotModified \/ PollOk \/ PollBadBody \/ PollFails
           \/ SkipDuplicate \/ PageDone \/ Wake \/ Stop \/ CloseOut \/ UNCHANGED liveVars
  <2>1. UNCHANGED <<sends, main, delivered, failed, dropped>>
    BY <1>5 DEF Publish, PollNotModified, PollOk, PollBadBody, PollFails, SkipDuplicate, PageDone,
                Wake, Stop, CloseOut, CloseQueue, liveVars, stageVars, pollVars
  <2> QED BY <2>1 DEF SentRecords, Settled, Outcome, Exited
<1> QED BY <1>3, <1>4, <1>5 DEF LiveNext, PollerStep

(* runLive keeps the promise of BoundedHandOver: nothing Run sends is lost *)
(* or answered twice, exit code 0 leaves nothing open, and what is open is *)
(* bounded (main.go:46-67, 520-561).                                       *)
THEOREM LiveHandsOver == LiveSpec => LiveImplementsHandOver
<1>1. LiveInit => LiveHandOver!Init
  BY DEF LiveInit, StageInit, LiveHandOver!Init, SentRecords, Record, Settled, Outcome, Exited
<1>2. LiveInv /\ [LiveNext]_liveVars => [LiveHandOver!Next]_LiveHandOver!handOverVars
  BY LiveStepHandsOver
<1> QED BY <1>1, <1>2, LiveInvariant, PTL DEF LiveSpec, LiveImplementsHandOver, LiveHandOver!Spec
-----------------------------------------------------------------------------
(* The pauses. *)

(* What \div is, by multiplication.                                        *)
LEMMA DivBounds ==
  ASSUME NEW n \in Nat, NEW d \in Nat \ {0}
  PROVE  /\ n \div d \in Nat
         /\ (n \div d) * d <= n
         /\ n <= (n \div d) * d + d - 1
OBVIOUS

LEMMA DivAtMost ==
  ASSUME NEW n \in Nat, NEW d \in Nat \ {0}
  PROVE  n \div d <= n
OBVIOUS

(* If n is at most a share of c for each of the d requests left, the pause *)
(* n \div d is no longer than c, and after it n is at most that share for  *)
(* each of the other requests.                                             *)
LEMMA ShareShrinks ==
  ASSUME NEW n \in Nat, NEW d \in Nat \ {0}, NEW c \in Nat, n <= d * c
  PROVE  n \div d <= c /\ n - n \div d <= (d - 1) * c
<1> DEFINE q == n \div d
<1>1. q \in Nat /\ q * d <= n /\ n <= q * d + d - 1 BY DivBounds
<1> HIDE DEF q
<1>2. q <= c
  <2> SUFFICES ASSUME q >= c + 1 PROVE FALSE BY <1>1
  <2>1. q * d >= (c + 1) * d BY <1>1
  <2>2. (c + 1) * d = d * c + d OBVIOUS
  <2>3. d * c \in Nat /\ q * d \in Nat BY <1>1
  <2> QED BY <1>1, <2>1, <2>2, <2>3
<1>3. CASE q = c
  <2>1. (d - 1) * c = d * c - c OBVIOUS
  <2>2. d * c \in Nat OBVIOUS
  <2> QED BY <1>1, <1>2, <1>3, <2>1, <2>2 DEF q
<1>4. CASE q < c
  <2>1. n - q <= q * d + d - 1 - q BY <1>1
  <2>2. q * d + d - 1 - q = (q + 1) * (d - 1) BY <1>1
  <2>3. (q + 1) * (d - 1) <= c * (d - 1) BY <1>1, <1>4
  <2>4. c * (d - 1) = (d - 1) * c OBVIOUS
  <2>5. q * d \in Nat /\ (q + 1) * (d - 1) \in Nat /\ (d - 1) * c \in Nat BY <1>1
  <2>6. n - q <= (d - 1) * c BY <1>1, <2>1, <2>2, <2>3, <2>4, <2>5
  <2> QED BY <1>2, <2>6 DEF q
<1> QED BY <1>1, <1>2, <1>3, <1>4

LEMMA FullShareCovers ==
  FullShare \in Nat /\ Window + Skew <= (Quota - 1) * FullShare
<1> DEFINE n == Window + Skew + Quota - 2
           d == Quota - 1
<1>1. n \in Nat /\ d \in Nat \ {0} BY PacingAssumption
<1>2. n \div d \in Nat /\ n <= (n \div d) * d + d - 1
  <2> HIDE DEF n, d
  <2> QED BY <1>1, DivBounds
<1>3. FullShare = n \div d BY DEF FullShare
<1>4. FullShare \in Nat /\ n <= FullShare * d + d - 1 BY <1>2, <1>3
<1>5. FullShare * d = (Quota - 1) * FullShare BY <1>4, PacingAssumption
<1>6. FullShare * d \in Nat BY <1>1, <1>4
<1>7. n - (d - 1) = Window + Skew BY PacingAssumption
<1>8. n - (d - 1) <= FullShare * d BY <1>1, <1>4, <1>6
<1> QED BY <1>4, <1>5, <1>7, <1>8
LEMMA LargerIsMonotone ==
  \A a, b, c \in Nat : b <= c => Larger(a, b) <= Larger(a, c)
BY DEF Larger

(* A request more or less at a time.                                       *)
LEMMA MoreRequestsMoreTime ==
  ASSUME NEW i \in Int, NEW j \in Int, i <= j
  PROVE  i * FullShare <= j * FullShare
BY FullShareCovers

(* A pause, as TypeOK bounds it: never negative, and never longer than the *)
(* longest interval or the rest of the window and the margins.             *)
LEMMA PauseType ==
  ASSUME NEW remaining \in 0 .. Quota, NEW left \in Int, left <= Window + Skew, NEW kind \in Kinds
  PROVE  /\ Backoff(remaining, left) \in Nat
         /\ Larger(Interval(kind), Backoff(remaining, left)) \in 0 .. LongestPause
<1> USE PacingAssumption
<1>1. Backoff(remaining, left) \in Nat /\ Backoff(remaining, left) <= Window + ResetMargin + Skew
  <2>1. CASE remaining = 0 BY <2>1 DEF Backoff, UntilResetAndMargin
  <2>2. CASE remaining > 0 /\ left <= 0 BY <2>2 DEF Backoff, EvenShare
  <2>3. CASE remaining > 0 /\ left > 0
    <3>1. left \in Nat /\ remaining \in Nat \ {0} BY <2>3
    <3>2. left \div remaining \in Nat /\ left \div remaining <= left BY <3>1, DivAtMost, DivBounds
    <3>3. Backoff(remaining, left) = left \div remaining BY <2>3 DEF Backoff, EvenShare
    <3> QED BY <3>1, <3>2, <3>3
  <2> QED BY <2>1, <2>2, <2>3
<1>2. Interval(kind) \in {PollInterval, RetryInterval} BY DEF Interval
<1> QED BY <1>1, <1>2 DEF Larger, LongestPause

(* A pause that follows an answer with something left: it ends after the   *)
(* reset, or leaves an even share for each request but one.                *)
LEMMA PauseShares ==
  ASSUME NEW remaining \in 0 .. Quota, NEW left \in Int, left <= remaining * FullShare
  PROVE  /\ Backoff(remaining, left) <= Larger(ResetMargin, FullShare)
         /\ remaining > 0 => left - Backoff(remaining, left) <= (remaining - 1) * FullShare
<1> USE PacingAssumption
<1>1. FullShare \in Nat BY FullShareCovers
<1>2. CASE remaining = 0
  <2>1. remaining * FullShare = 0 BY <1>1, <1>2
  <2>2. left <= 0 BY <2>1
  <2>3. Backoff(remaining, left) = ResetMargin BY <1>2, <2>2 DEF Backoff, UntilResetAndMargin
  <2> QED BY <1>1, <1>2, <2>3 DEF Larger
<1>3. CASE remaining > 0 /\ left <= 0
  <2>1. Backoff(remaining, left) = 0 BY <1>3 DEF Backoff, EvenShare
  <2>2. remaining - 1 \in Nat BY <1>3
  <2>3. (remaining - 1) * FullShare \in Nat BY <2>2, <1>1
  <2> QED BY <1>1, <1>3, <2>1, <2>3 DEF Larger
<1>4. CASE remaining > 0 /\ left > 0
  <2>1. left \in Nat /\ remaining \in Nat \ {0} BY <1>4
  <2>2. Backoff(remaining, left) = left \div remaining BY <1>4 DEF Backoff, EvenShare
  <2>3. left \div remaining <= FullShare /\ left - left \div remaining <= (remaining - 1) * FullShare
    BY <1>1, <2>1, ShareShrinks
  <2>4. left \div remaining \in Nat BY <2>1, DivBounds
  <2> QED BY <1>1, <2>2, <2>3, <2>4 DEF Larger
<1> QED BY <1>2, <1>3, <1>4
-----------------------------------------------------------------------------
LEMMA PacingStarts == PacingInit => PacingInv
<1> SUFFICES ASSUME PacingInit PROVE PacingInv OBVIOUS
<1> USE PacingAssumption DEF PacingInit
<1>1. 0 <= LongestPause BY DEF LongestPause, Larger
<1>2. PacingTypeOK
  <2>1. LongestPause \in Int BY DEF LongestPause, Larger
  <2>2. NoAnswer \in [kind : Kinds, remaining : 0 .. Quota,
                      reset : 0 .. MaxTime + Window, sentAt : 0 .. MaxTime]
    BY DEF NoAnswer, Kinds
  <2> QED BY <1>1, <2>1, <2>2 DEF PacingTypeOK
<1> QED BY <1>2 DEF PacingInv, RefusedOnlyWhenBlind, NoLongPause

(* What GitHub answers. `cost` is what it counts.                          *)
LEMMA AnswerKeeps ==
  ASSUME PacingInv, poll = "sleep", time >= wakeAt, poll' = "answer",
         UNCHANGED <<time, offset, wakeAt, last, wait, faults>>,
         NEW kind \in Kinds, NEW cost \in {0, 1}, Spent + cost <= Quota, Answer(kind, cost),
         kind = "limited" => Spent = Quota
  PROVE  PacingInv'
<1> USE PacingAssumption
<1> DEFINE u == Spent + cost
           e == WindowEnd
<1>1. /\ time \in 0 .. MaxTime /\ used \in 0 .. Quota /\ reset \in 0 .. MaxTime + Window
      /\ reset <= time + Window /\ offset \in -Skew .. Skew /\ wakeAt \in Nat
  BY DEF PacingInv, PacingTypeOK
<1>2. Spent \in 0 .. Quota BY <1>1 DEF Spent
<1>3. u \in 0 .. Quota BY <1>2
<1>4. e \in 0 .. MaxTime + Window /\ e <= time + Window BY <1>1 DEF WindowEnd
<1>5. used' = u /\ reset' = e
      /\ answer' = [kind |-> kind, remaining |-> Quota - u, reset |-> e, sentAt |-> time]
  BY DEF Answer
<1> HIDE DEF u, e
<1>6. PacingTypeOK'
  <2>1. Quota - u \in 0 .. Quota BY <1>3
  <2>2. answer' \in [kind : Kinds, remaining : 0 .. Quota,
                     reset : 0 .. MaxTime + Window, sentAt : 0 .. MaxTime]
    BY <1>1, <1>4, <1>5, <2>1
  <2> QED BY <1>3, <1>4, <1>5, <2>2 DEF PacingInv, PacingTypeOK, LongestPause, Larger
<1>7. RefusedOnlyWhenBlind'
  <2> SUFFICES ASSUME kind = "limited", last \notin {"none", "lost"} PROVE FALSE
    BY <1>5 DEF RefusedOnlyWhenBlind
  <2>1. Spent = Quota OBVIOUS
  <2>2. time < reset /\ used = Quota BY <1>1, <2>1 DEF Spent
  <2>3. used < Quota \/ reset <= wakeAt BY DEF PacingInv
  <2> QED BY <1>1, <2>2, <2>3
<1>8. ASSUME faults = 0 PROVE Left(time)' <= (Quota - used') * FullShare
  <2>1. FullShare \in Nat /\ Window + Skew <= (Quota - 1) * FullShare BY FullShareCovers
  <2>2. Left(time)' = e - offset - time BY <1>5 DEF Left
  <2>3. CASE time >= reset
    <3>1. u = cost /\ e = time + Window BY <1>1, <2>3 DEF u, e, Spent, WindowEnd
    <3>2. e - offset - time <= Window + Skew BY <1>1, <3>1
    <3>3. (Quota - 1) * FullShare <= (Quota - u) * FullShare
      BY <3>1, <1>3, MoreRequestsMoreTime
    <3>4. (Quota - 1) * FullShare \in Int /\ (Quota - u) * FullShare \in Int BY <1>3, <2>1
    <3>5. e - offset - time \in Int /\ Window + Skew \in Int BY <1>1, <1>4
    <3>6. e - offset - time <= (Quota - u) * FullShare BY <2>1, <3>2, <3>3, <3>4, <3>5
    <3> QED BY <1>5, <2>2, <3>6
  <2>4. CASE time < reset
    <3>1. u = used + cost /\ e = reset BY <1>1, <2>4 DEF u, e, Spent, WindowEnd
    <3>2. used < Quota /\ Left(wakeAt) <= (Quota - used - 1) * FullShare
      BY <1>1, <1>8, <2>4 DEF PacingInv
    <3>3. e - offset - time <= Left(wakeAt) BY <1>1, <3>1 DEF Left
    <3>4. (Quota - used - 1) * FullShare <= (Quota - u) * FullShare
      BY <1>1, <1>3, <3>1, MoreRequestsMoreTime
    <3>5. (Quota - used - 1) * FullShare \in Int /\ (Quota - u) * FullShare \in Int
      BY <1>1, <1>3, <2>1
    <3>6. e - offset - time \in Int /\ Left(wakeAt) \in Int BY <1>1, <1>4 DEF Left
    <3>7. e - offset - time <= (Quota - u) * FullShare BY <3>2, <3>3, <3>4, <3>5, <3>6
    <3> QED BY <1>5, <2>2, <3>7
  <2> QED BY <1>1, <2>3, <2>4
<1> QED BY <1>4, <1>5, <1>6, <1>7, <1>8 DEF PacingInv, NoLongPause

LEMMA RequestKeeps ==
  ASSUME PacingInv, Request
  PROVE  PacingInv'
<1>1. Spent \in 0 .. Quota BY PacingAssumption DEF PacingInv, PacingTypeOK, Spent
<1>2. \E kind \in Kinds, cost \in {0, 1} :
        /\ Spent + cost <= Quota /\ Answer(kind, cost)
        /\ kind = "limited" => Spent = Quota
  <2>1. Spent + 0 <= Quota /\ (Spent < Quota => Spent + 1 <= Quota) BY <1>1, PacingAssumption
  <2>2. "ok" \in Kinds /\ "failed" \in Kinds /\ "notModified" \in Kinds /\ "limited" \in Kinds
    BY DEF Kinds
  <2>3. CASE Spent < Quota /\ Answer("ok", 1) BY <2>1, <2>2, <2>3
  <2>4. CASE Spent < Quota /\ Answer("failed", 1) BY <2>1, <2>2, <2>4
  <2>5. CASE Spent < Quota /\ Answer("notModified", 0) BY <2>1, <2>2, <2>5
  <2>6. CASE Spent = Quota /\ Answer("limited", 0) BY <2>1, <2>2, <2>6
  <2>7. CASE Answer("failed", 0) BY <2>1, <2>2, <2>7
  <2> QED BY <2>3, <2>4, <2>5, <2>6, <2>7 DEF Request
<1> QED BY <1>2, AnswerKeeps DEF Request

LEMMA ReceiveKeeps ==
  ASSUME PacingInv, ReceiveAnswer
  PROVE  PacingInv'
<1> USE PacingAssumption
<1> DEFINE left == UntilReset(answer.reset)
           pause == Backoff(answer.remaining, left)
<1>1. /\ time \in 0 .. MaxTime /\ used \in 0 .. Quota /\ reset \in 0 .. MaxTime + Window
      /\ reset <= time + Window /\ offset \in -Skew .. Skew
      /\ answer.remaining = Quota - used /\ answer.reset = reset
      /\ answer.remaining \in 0 .. Quota /\ answer.kind \in Kinds
  BY DEF PacingInv, PacingTypeOK, ReceiveAnswer
<1>2. left = reset - offset - time /\ left \in Int /\ left <= Window + Skew
  BY <1>1 DEF UntilReset
<1>3. pause \in Nat /\ Larger(Interval(answer.kind), pause) \in 0 .. LongestPause
  <2> HIDE DEF left
  <2> QED BY <1>1, <1>2, PauseType
<1>4. /\ poll' = "sleep" /\ wait' = Larger(Interval(answer.kind), pause)
      /\ wakeAt' = time + wait' /\ answer' = NoAnswer /\ last' = answer.kind
      /\ UNCHANGED <<time, offset, used, reset, faults>>
  BY DEF ReceiveAnswer, Sleep
<1>5. Interval(answer.kind) \in Nat BY DEF Interval
<1>6. wait' \in 0 .. LongestPause /\ wait' >= pause /\ wait' \in Nat
  BY <1>3, <1>4, <1>5 DEF Larger
<1>7. PacingTypeOK'
  <2>1. NoAnswer \in [kind : Kinds, remaining : 0 .. Quota,
                      reset : 0 .. MaxTime + Window, sentAt : 0 .. MaxTime]
    BY DEF NoAnswer, Kinds
  <2>2. wakeAt' \in Nat BY <1>1, <1>4, <1>6
  <2>3. last' \in Kinds \cup {"none", "lost"} BY <1>1, <1>4
  <2> QED BY <1>4, <1>6, <2>1, <2>2, <2>3 DEF PacingInv, PacingTypeOK, LongestPause, Larger
<1>8. used = Quota => reset <= wakeAt'
  <2> SUFFICES ASSUME used = Quota PROVE reset <= wakeAt' OBVIOUS
  <2>1. answer.remaining = 0 BY <1>1
  <2>2. pause = UntilResetAndMargin(left) BY <2>1 DEF Backoff
  <2>3. pause >= left + ResetMargin BY <1>2, <2>2 DEF UntilResetAndMargin
  <2>4. wait' >= reset - offset - time + ResetMargin BY <1>2, <1>3, <1>6, <2>3
  <2> QED BY <1>1, <1>4, <1>6, <2>4
<1>9. ASSUME faults = 0
      PROVE  /\ pause <= Larger(ResetMargin, FullShare)
             /\ used < Quota => reset - offset - wakeAt' <= (Quota - used - 1) * FullShare
  <2>1. left <= answer.remaining * FullShare
    BY <1>1, <1>2, <1>9 DEF PacingInv, ReceiveAnswer, Left
  <2>2. /\ pause <= Larger(ResetMargin, FullShare)
        /\ answer.remaining > 0 => left - pause <= (answer.remaining - 1) * FullShare
    <3> HIDE DEF left
    <3> QED BY <1>1, <1>2, <2>1, PauseShares
  <2>3. ASSUME used < Quota PROVE reset - offset - wakeAt' <= (Quota - used - 1) * FullShare
    <3>1. left - pause <= (Quota - used - 1) * FullShare BY <1>1, <2>2, <2>3
    <3>2. reset - offset - wakeAt' <= left - pause BY <1>1, <1>2, <1>3, <1>4, <1>6
    <3>3. (Quota - used - 1) * FullShare \in Int BY <1>1, FullShareCovers
    <3> HIDE DEF left, pause
    <3> QED BY <1>1, <1>2, <1>3, <1>4, <1>6, <3>1, <3>2, <3>3
  <2> QED BY <2>2, <2>3
<1>10. NoLongPause'
  <2> SUFFICES ASSUME answer.kind \in {"ok", "notModified"}, faults = 0
               PROVE  wait' <= Larger(PollInterval, Larger(ResetMargin, FullShare))
    BY <1>4 DEF NoLongPause, FullShare, Larger
  <2>1. wait' = Larger(PollInterval, pause) BY <1>4 DEF Interval
  <2>2. pause <= Larger(ResetMargin, FullShare) BY <1>9
  <2>3. Larger(ResetMargin, FullShare) \in Nat BY FullShareCovers DEF Larger
  <2>4. PollInterval \in Nat /\ pause \in Nat BY <1>3
  <2> QED BY <2>1, <2>2, <2>3, <2>4, LargerIsMonotone
<1>11. RefusedOnlyWhenBlind' BY <1>4 DEF RefusedOnlyWhenBlind
<1>12. used < Quota \/ reset <= wakeAt' BY <1>1, <1>8
<1>13. faults = 0 => \/ reset <= wakeAt'
                     \/ used < Quota /\ reset - offset - wakeAt' <= (Quota - used - 1) * FullShare
  BY <1>9, <1>12
<1> QED BY <1>1, <1>4, <1>7, <1>10, <1>11, <1>12, <1>13 DEF PacingInv, Left, FullShare

(* The process sleeps and knows nothing: after a lost answer or a start.   *)
LEMMA BlindKeeps ==
  ASSUME PacingInv, NEW pause \in 0 .. LongestPause, Sleep(pause), last' \in {"none", "lost"},
         faults < MaxFaults, faults' = faults + 1, UNCHANGED <<time, offset, used, reset>>
  PROVE  PacingInv'
<1> USE PacingAssumption DEF Sleep
<1>1. faults' \in 0 .. MaxFaults /\ faults' # 0 BY DEF PacingInv, PacingTypeOK
<1>2. PacingTypeOK'
  <2>1. NoAnswer \in [kind : Kinds, remaining : 0 .. Quota,
                      reset : 0 .. MaxTime + Window, sentAt : 0 .. MaxTime]
    BY DEF NoAnswer, Kinds
  <2>2. LongestPause \in Int BY DEF LongestPause, Larger
  <2>3. wakeAt' \in Nat BY <2>2 DEF PacingInv, PacingTypeOK
  <2> QED BY <1>1, <2>1, <2>3 DEF PacingInv, PacingTypeOK, LongestPause, Larger
<1> QED BY <1>1, <1>2 DEF PacingInv, RefusedOnlyWhenBlind, NoLongPause

LEMMA TickKeeps ==
  ASSUME PacingInv, Tick
  PROVE  PacingInv'
<1> USE PacingAssumption DEF Tick
<1>1. time \in 0 .. MaxTime /\ used \in 0 .. Quota /\ reset \in 0 .. MaxTime + Window
      /\ offset \in -Skew .. Skew /\ reset <= time + Window /\ time' = time + 1
  BY DEF PacingInv, PacingTypeOK
<1>2. PacingTypeOK' BY <1>1 DEF PacingInv, PacingTypeOK, LongestPause, Larger
<1>3. reset' <= time' + Window BY <1>1
<1>4. ASSUME faults = 0, poll = "answer" PROVE Left(time)' <= (Quota - used) * FullShare
  <2>1. Left(time) <= (Quota - used) * FullShare BY <1>4 DEF PacingInv
  <2>2. Left(time)' <= Left(time) /\ Left(time)' \in Int /\ Left(time) \in Int BY <1>1 DEF Left
  <2>3. (Quota - used) * FullShare \in Int BY <1>1, FullShareCovers
  <2> QED BY <2>1, <2>2, <2>3
<1>5. RefusedOnlyWhenBlind' /\ NoLongPause'
  BY DEF PacingInv, RefusedOnlyWhenBlind, NoLongPause, FullShare, Larger
<1>6. Left(wakeAt)' = Left(wakeAt) BY DEF Left
<1> QED BY <1>2, <1>3, <1>4, <1>5, <1>6 DEF PacingInv, FullShare

LEMMA PacingStep == PacingInv /\ [PacingNext]_pacingVars => PacingInv'
<1> SUFFICES ASSUME PacingInv, [PacingNext]_pacingVars PROVE PacingInv' OBVIOUS
<1> USE PacingAssumption
<1>1. CASE Request BY <1>1, RequestKeeps
<1>2. CASE ReceiveAnswer BY <1>2, ReceiveKeeps
<1>3. CASE Lost
  <2>1. Larger(RetryInterval, ResetMargin) \in 0 .. LongestPause BY DEF Larger, LongestPause
  <2> QED BY <1>3, <2>1, BlindKeeps DEF Lost
<1>4. CASE Restart
  <2>1. 0 \in 0 .. LongestPause BY DEF Larger, LongestPause
  <2> QED BY <1>4, <2>1, BlindKeeps DEF Restart
<1>5. CASE Tick BY <1>5, TickKeeps
<1>6. CASE UNCHANGED pacingVars
  BY <1>6 DEF pacingVars, PacingInv, PacingTypeOK, RefusedOnlyWhenBlind, NoLongPause, Left, LongestPause
<1> QED BY <1>1, <1>2, <1>3, <1>4, <1>5, <1>6 DEF PacingNext

(* PacingInv holds in every state of every run (events.go).                *)
THEOREM PacingInvariant == PacingSpec => []PacingInv
<1>1. PacingInit => PacingInv BY PacingStarts
<1>2. PacingInv /\ [PacingNext]_pacingVars => PacingInv' BY PacingStep
<1> QED BY <1>1, <1>2, PTL DEF PacingSpec

(* Every state has its shape, and no pause is longer than a window and the *)
(* margins, whatever the headers and however late (events.go:374-386).     *)
THEOREM PacingTypeCorrect == PacingSpec => []PacingTypeOK
<1>1. PacingInv => PacingTypeOK BY DEF PacingInv
<1> QED BY <1>1, PacingInvariant, PTL

(* RefusedOnlyWhenBlind, for any quota and window: a request is refused    *)
(* only after a lost answer or a start, if the clock of the process is     *)
(* fast by no more than the margin (events.go:60-63, 371-373).             *)
THEOREM NeverRefusedKnowingly == PacingSpec => []RefusedOnlyWhenBlind
<1>1. PacingInv => RefusedOnlyWhenBlind BY DEF PacingInv
<1> QED BY <1>1, PacingInvariant, PTL

(* NoLongPause, for any quota and window: dividing what is left by how     *)
(* many are left, after every answer anew and rounded down, never makes a  *)
(* pause longer than the first even share (events.go:361-370).             *)
THEOREM PausesStayShort == PacingSpec => []NoLongPause
<1>1. PacingInv => NoLongPause BY DEF PacingInv
<1> QED BY <1>1, PacingInvariant, PTL
=============================================================================
