-------------------------- MODULE ProducerStage_proofs --------------------------
(***************************************************************************)
(* Lemmas about ProducerStage, for every source of events: what the loop   *)
(* and the Kafka client do to the places an event can be in, and which     *)
(* step of BoundedHandOver each of their steps is. GhCollector_proofs uses *)
(* them for both sources.                                                  *)
(***************************************************************************)
EXTENDS ProducerStage, FiniteSetTheorems, SequenceTheorems, TLAPS

(* Events a stage can count; NoEvent is none of them.                      *)
AreEvents(E) == IsFiniteSet(E) /\ NoEvent \notin E

StageInv(E) == StageTypeOK(E) /\ PlacesDisjoint /\ StageInOrder

LEMMA SubsetsCount ==
  ASSUME NEW E, AreEvents(E), NEW S \in SUBSET E
  PROVE  IsFiniteSet(S) /\ Cardinality(S) \in Nat
BY FS_Subset, FS_CardinalityType DEF AreEvents

(* What the channel holds after a send ...                                 *)
LEMMA QueuedAfterAppend ==
  ASSUME NEW E, NEW e \in E, queue \in Seq(E), queue' = Append(queue, e), e \notin Queued,
         \A i, j \in 1 .. Len(queue) : queue[i] = queue[j] => i = j
  PROVE  /\ queue' \in Seq(E) /\ Len(queue') = Len(queue) + 1
         /\ Queued' = Queued \cup {e}
         /\ \A i, j \in 1 .. Len(queue') : queue'[i] = queue'[j] => i = j
<1>1. /\ queue' \in Seq(E) /\ Len(queue') = Len(queue) + 1 /\ Len(queue) \in Nat
      /\ \A i \in 1 .. Len(queue) : queue'[i] = queue[i]
      /\ queue'[Len(queue) + 1] = e
  BY AppendProperties, LenProperties
<1>2. 1 .. Len(queue') = (1 .. Len(queue)) \cup {Len(queue) + 1} BY <1>1
<1>3. Queued' = Queued \cup {e} BY <1>1, <1>2 DEF Queued
<1>4. \A i \in 1 .. Len(queue) : queue[i] # e BY DEF Queued
<1>5. \A i, j \in 1 .. Len(queue') : queue'[i] = queue'[j] => i = j BY <1>1, <1>2, <1>4
<1> QED BY <1>1, <1>3, <1>5

(* ... and after a receive.                                                *)
LEMMA QueuedAfterTail ==
  ASSUME NEW E, queue \in Seq(E), queue # <<>>, queue' = Tail(queue),
         \A i, j \in 1 .. Len(queue) : queue[i] = queue[j] => i = j
  PROVE  /\ queue' \in Seq(E) /\ Len(queue') = Len(queue) - 1
         /\ Head(queue) \in E
         /\ Queued = Queued' \cup {Head(queue)} /\ Head(queue) \notin Queued'
         /\ \A i, j \in 1 .. Len(queue') : queue'[i] = queue'[j] => i = j
<1>1. /\ queue' \in Seq(E) /\ Len(queue') = Len(queue) - 1 /\ Head(queue) \in E
      /\ \A i \in 1 .. Len(queue') : queue'[i] = queue[i + 1]
  BY HeadTailProperties
<1>2. Len(queue) \in Nat \ {0} /\ Head(queue) = queue[1] BY EmptySeq
<1>3. \A i \in 1 .. Len(queue') : i + 1 \in 1 .. Len(queue) /\ i + 1 # 1 BY <1>1, <1>2
<1>4. \A i \in 1 .. Len(queue) : i = 1 \/ i - 1 \in 1 .. Len(queue') BY <1>1, <1>2
<1>5. \A i, j \in 1 .. Len(queue') : queue'[i] = queue'[j] => i = j
  <2> SUFFICES ASSUME NEW i \in 1 .. Len(queue'), NEW j \in 1 .. Len(queue'), queue'[i] = queue'[j]
               PROVE  i = j
    OBVIOUS
  <2>1. i + 1 = j + 1 BY <1>1, <1>3
  <2> QED BY <2>1
<1>6. Queued \subseteq Queued' \cup {Head(queue)}
  <2> SUFFICES ASSUME NEW i \in 1 .. Len(queue), i # 1 PROVE queue[i] \in Queued'
    BY <1>2 DEF Queued
  <2>1. i - 1 \in 1 .. Len(queue') /\ (i - 1) + 1 = i BY <1>4
  <2>2. queue'[i - 1] = queue[i] BY <1>1, <2>1
  <2> QED BY <2>1, <2>2 DEF Queued
<1>7. Queued' \subseteq Queued BY <1>1, <1>3 DEF Queued
<1>8. Head(queue) \in Queued BY <1>2 DEF Queued
<1>9. Head(queue) \notin Queued'
  <2> SUFFICES ASSUME NEW i \in 1 .. Len(queue'), queue'[i] = Head(queue) PROVE FALSE
    BY DEF Queued
  <2>1. queue[i + 1] = queue[1] /\ i + 1 \in 1 .. Len(queue) /\ 1 \in 1 .. Len(queue)
    BY <1>1, <1>2, <1>3
  <2> QED BY <2>1, <1>3
<1> QED BY <1>1, <1>5, <1>6, <1>7, <1>8, <1>9

(* A channel without repetitions holds as many events as it is long.       *)
LEMMA QueueCounts ==
  ASSUME NEW E, queue \in Seq(E), \A i, j \in 1 .. Len(queue) : queue[i] = queue[j] => i = j
  PROVE  IsFiniteSet(Queued) /\ Cardinality(Queued) = Len(queue)
<1>1. Len(queue) \in Nat BY LenProperties
<1>2. [i \in 1 .. Len(queue) |-> queue[i]] \in Bijection(1 .. Len(queue), Queued)
  BY DEF Bijection, Injection, Surjection, IsInjective, Queued
<1>3. ExistsBijection(1 .. Len(queue), Queued) BY <1>2 DEF ExistsBijection
<1> QED BY <1>1, <1>3, FS_CountingElements, FS_NatBijection

-----------------------------------------------------------------------------
(* The stage before anything was sent.                                     *)
LEMMA StageStarts ==
  ASSUME NEW E, AreEvents(E), StageInit
  PROVE  StageInv(E) /\ InStage = {}
<1> USE StageAssumption DEF StageInit
<1>1. queue \in Seq(E) /\ Len(queue) = 0 BY EmptySeq
<1>2. Cardinality(buffered) <= BufferMax BY FS_EmptySet
<1>3. Queued = {} /\ InHand = {} BY <1>1 DEF Queued, InHand
<1>4. StageTypeOK(E)
  <2>1. signalled \in BOOLEAN /\ result \in Results \cup {"pending"} /\ hand \in E \cup {NoEvent}
    OBVIOUS
  <2>2. main \in {"drain", "produce", "flush", "exit0", "exit1"} OBVIOUS
  <2>3. Len(queue) <= QueueSize BY <1>1
  <2> QED BY <1>1, <1>2, <2>1, <2>2, <2>3 DEF StageTypeOK
<1>5. PlacesDisjoint BY <1>1, <1>3 DEF PlacesDisjoint, Settled
<1>6. StageInOrder BY DEF StageInOrder, Exited
<1>7. InStage = {} BY <1>3 DEF InStage, Settled
<1> QED BY <1>4, <1>5, <1>6, <1>7 DEF StageInv

(* Steps of a source that do not touch the stage.                          *)
LEMMA StageUntouched ==
  ASSUME NEW E, StageInv(E), UNCHANGED stageVars
  PROVE  /\ StageInv(E)' /\ InStage' = InStage
         /\ signalled' = signalled /\ result' = result
<1>1. UNCHANGED <<signalled, queue, result, main, hand, buffered, delivered, failed, dropped>>
  BY DEF stageVars
<1>2. Queued' = Queued /\ InHand' = InHand /\ Settled' = Settled /\ Drained' = Drained
  BY <1>1 DEF Queued, InHand, Settled, Drained
<1>3. StageTypeOK(E)' BY <1>1 DEF StageInv, StageTypeOK
<1>4. PlacesDisjoint' BY <1>1, <1>2 DEF StageInv, PlacesDisjoint
<1>5. StageInOrder' BY <1>1, <1>2 DEF StageInv, StageInOrder, Exited
<1> QED BY <1>1, <1>2, <1>3, <1>4, <1>5 DEF InStage, StageInv

(* A source hands over an event the stage has not seen; it does so before  *)
(* it closes the channel.                                                  *)
LEMMA PushAdds ==
  ASSUME NEW E, AreEvents(E), StageInv(E), NEW e \in E, e \notin InStage,
         result = "pending", Push(e)
  PROVE  /\ StageInv(E)' /\ InStage' = InStage \cup {e}
         /\ signalled' = signalled /\ result' = result
<1> USE DEF StageInv
<1>1. /\ UNCHANGED <<signalled, result, main, hand, buffered, delivered, failed, dropped>>
      /\ queue' = Append(queue, e) /\ Len(queue) < QueueSize
  BY DEF Push, QueueHasRoom
<1>2. /\ queue' \in Seq(E) /\ Len(queue') = Len(queue) + 1 /\ Len(queue) \in Nat
      /\ Queued' = Queued \cup {e}
      /\ \A i, j \in 1 .. Len(queue') : queue'[i] = queue'[j] => i = j
  <2>1. e \notin Queued BY DEF InStage
  <2>2. queue \in Seq(E) /\ \A i, j \in 1 .. Len(queue) : queue[i] = queue[j] => i = j
    BY DEF StageTypeOK, PlacesDisjoint
  <2> QED BY <1>1, <2>1, <2>2, QueuedAfterAppend, LenProperties
<1>3. StageTypeOK(E)' BY <1>1, <1>2, StageAssumption DEF StageTypeOK
<1>4. InHand' = InHand /\ Settled' = Settled BY <1>1 DEF InHand, Settled
<1>5. InStage' = InStage \cup {e} BY <1>1, <1>2, <1>4 DEF InStage
<1>6. PlacesDisjoint'
  <2>1. e \notin InHand \cup buffered \cup Settled \cup dropped BY DEF InStage
  <2>2. Queued' \cap (InHand \cup buffered \cup Settled \cup dropped) = {}
    BY <1>2, <2>1 DEF PlacesDisjoint
  <2> QED BY <1>1, <1>2, <1>4, <2>2 DEF PlacesDisjoint
<1>7. StageInOrder' BY <1>1 DEF StageInOrder, Exited, Drained
<1> QED BY <1>1, <1>3, <1>5, <1>6, <1>7

(* A source closes the channel.                                            *)
LEMMA CloseKeeps ==
  ASSUME NEW E, StageInv(E), NEW err \in Results, CloseQueue(err)
  PROVE  /\ StageInv(E)' /\ InStage' = InStage
         /\ signalled' = signalled /\ result' = err
<1> USE DEF StageInv
<1>1. /\ UNCHANGED <<signalled, queue, main, hand, buffered, delivered, failed, dropped>>
      /\ result = "pending" /\ result' = err
  BY DEF CloseQueue
<1>2. Queued' = Queued /\ InHand' = InHand /\ Settled' = Settled
  BY <1>1 DEF Queued, InHand, Settled
<1>3. StageTypeOK(E)' BY <1>1 DEF StageTypeOK
<1>4. PlacesDisjoint' BY <1>1, <1>2 DEF PlacesDisjoint
<1>5. StageInOrder'
  <2>1. main \notin {"flush", "exit0", "exit1"} BY <1>1 DEF StageInOrder, Exited, Drained
  <2> QED BY <1>1, <2>1 DEF StageInOrder, Exited
<1> QED BY <1>1, <1>2, <1>3, <1>4, <1>5 DEF InStage

-----------------------------------------------------------------------------
(* The loop, the Kafka client and the signal: every event stays in the     *)
(* stage, and in one place of it.                                          *)
LEMMA SignalInStage ==
  ASSUME NEW E, StageInv(E), Signal
  PROVE  StageInv(E)' /\ InStage' = InStage /\ result' = result
<1> USE DEF Signal, StageInv
<1>1. Queued' = Queued /\ InHand' = InHand /\ Settled' = Settled /\ Drained' = Drained
  BY DEF Queued, InHand, Settled, Drained
<1>2. StageTypeOK(E)' BY DEF StageTypeOK
<1>3. PlacesDisjoint' BY <1>1 DEF PlacesDisjoint
<1>4. StageInOrder' BY <1>1 DEF StageInOrder, Exited
<1> QED BY <1>1, <1>2, <1>3, <1>4 DEF InStage

LEMMA ReceiveInStage ==
  ASSUME NEW E, AreEvents(E), StageInv(E), Receive
  PROVE  StageInv(E)' /\ InStage' = InStage /\ signalled' = signalled /\ result' = result
<1> USE DEF StageInv
<1>1. /\ UNCHANGED <<signalled, result, buffered, delivered, failed, dropped>>
      /\ queue # <<>> /\ queue' = Tail(queue) /\ hand' = Head(queue)
      /\ main = "drain" /\ main' = "produce" /\ hand = NoEvent
  BY DEF Receive, StageInOrder
<1>2. /\ queue' \in Seq(E) /\ Len(queue') = Len(queue) - 1 /\ hand' \in E
      /\ Queued = Queued' \cup {hand'} /\ hand' \notin Queued'
      /\ \A i, j \in 1 .. Len(queue') : queue'[i] = queue'[j] => i = j
  BY <1>1, QueuedAfterTail DEF StageTypeOK, PlacesDisjoint
<1>3. Len(queue) \in Nat BY LenProperties DEF StageTypeOK
<1>4. StageTypeOK(E)' BY <1>1, <1>2, <1>3, StageAssumption DEF StageTypeOK
<1>5. InHand = {} /\ InHand' = {hand'} BY <1>1, <1>2 DEF InHand, AreEvents
<1>6. Settled' = Settled BY <1>1 DEF Settled
<1>7. InStage' = InStage BY <1>1, <1>2, <1>5, <1>6 DEF InStage
<1>8. PlacesDisjoint' BY <1>1, <1>2, <1>5, <1>6 DEF PlacesDisjoint
<1>9. StageInOrder' BY <1>1, <1>2 DEF StageInOrder, Exited, AreEvents
<1> QED BY <1>1, <1>4, <1>7, <1>8, <1>9

LEMMA ProduceInStage ==
  ASSUME NEW E, AreEvents(E), StageInv(E), Produce
  PROVE  StageInv(E)' /\ InStage' = InStage /\ signalled' = signalled /\ result' = result
<1> USE StageAssumption DEF StageInv
<1>1. /\ UNCHANGED <<signalled, queue, result, delivered, failed, dropped>>
      /\ main = "produce" /\ main' = "drain" /\ hand # NoEvent /\ hand' = NoEvent
      /\ buffered' = buffered \cup {hand} /\ Cardinality(buffered) < BufferMax
  BY DEF Produce, Buffered, StageInOrder
<1>2. hand \in E /\ buffered \in SUBSET E BY <1>1 DEF StageTypeOK
<1>3. Cardinality(buffered') <= BufferMax
  <2>1. IsFiniteSet(buffered) /\ Cardinality(buffered) \in Nat BY <1>2, SubsetsCount
  <2>2. \/ Cardinality(buffered \cup {hand}) = Cardinality(buffered)
        \/ Cardinality(buffered \cup {hand}) = Cardinality(buffered) + 1
    BY <2>1, FS_AddElement
  <2> QED BY <1>1, <2>1, <2>2
<1>4. StageTypeOK(E)' BY <1>1, <1>2, <1>3 DEF StageTypeOK
<1>5. InHand = {hand} /\ InHand' = {} BY <1>1 DEF InHand
<1>6. Queued' = Queued /\ Settled' = Settled BY <1>1 DEF Queued, Settled
<1>7. InStage' = InStage BY <1>1, <1>5, <1>6 DEF InStage
<1>8. PlacesDisjoint' BY <1>1, <1>5, <1>6 DEF PlacesDisjoint
<1>9. StageInOrder' BY <1>1 DEF StageInOrder, Exited, Drained
<1> QED BY <1>1, <1>4, <1>7, <1>8, <1>9

LEMMA SettleInStage ==
  ASSUME NEW E, AreEvents(E), StageInv(E), NEW e \in E, Acknowledged(e) \/ Rejected(e)
  PROVE  StageInv(E)' /\ InStage' = InStage /\ signalled' = signalled /\ result' = result
<1> USE StageAssumption DEF StageInv
<1>1. /\ UNCHANGED <<signalled, queue, result, main, hand, dropped>>
      /\ e \in buffered /\ buffered' = buffered \ {e}
      /\ \/ delivered' = delivered \cup {e} /\ failed' = failed
         \/ failed' = failed \cup {e} /\ delivered' = delivered
  BY DEF Acknowledged, Rejected
<1>2. Cardinality(buffered') <= BufferMax
  <2>1. IsFiniteSet(buffered) /\ Cardinality(buffered) \in Nat /\ Cardinality(buffered) <= BufferMax
    BY SubsetsCount DEF StageTypeOK
  <2>2. Cardinality(buffered \ {e}) = Cardinality(buffered) - 1 BY <1>1, <2>1, FS_RemoveElement
  <2> QED BY <1>1, <2>1, <2>2
<1>3. StageTypeOK(E)' BY <1>1, <1>2 DEF StageTypeOK
<1>4. Queued' = Queued /\ InHand' = InHand BY <1>1 DEF Queued, InHand
<1>5. Settled' = Settled \cup {e} BY <1>1 DEF Settled
<1>6. InStage' = InStage BY <1>1, <1>4, <1>5 DEF InStage
<1>7. PlacesDisjoint' BY <1>1, <1>4, <1>5 DEF PlacesDisjoint, Settled
<1>8. StageInOrder' BY <1>1 DEF StageInOrder, Exited, Drained
<1> QED BY <1>1, <1>3, <1>6, <1>7, <1>8

LEMMA FlushInStage ==
  ASSUME NEW E, AreEvents(E), StageInv(E), StartFlush \/ FlushDone \/ FlushTimeout
  PROVE  StageInv(E)' /\ InStage' = InStage /\ signalled' = signalled /\ result' = result
<1> USE StageAssumption DEF StageInv
<1>1. UNCHANGED <<signalled, queue, result, hand, delivered, failed>>
  BY DEF StartFlush, FlushDone, FlushTimeout
<1>2. Queued' = Queued /\ InHand' = InHand /\ Settled' = Settled /\ Drained' = Drained
  BY <1>1 DEF Queued, InHand, Settled, Drained
<1>3. CASE StartFlush \/ FlushDone
  <2>1. /\ UNCHANGED <<buffered, dropped>> /\ main # "exit1" /\ main # "produce"
        /\ \/ Drained /\ main' = "flush"
           \/ main = "flush" /\ buffered = {} /\ main' = IF result = "error" THEN "exit1" ELSE "exit0"
    BY <1>3 DEF StartFlush, FlushDone
  <2>2. StageTypeOK(E)' BY <1>1, <2>1 DEF StageTypeOK
  <2>3. InStage' = InStage BY <1>2, <2>1 DEF InStage
  <2>4. PlacesDisjoint' BY <1>1, <1>2, <2>1 DEF PlacesDisjoint
  <2>5. StageInOrder' BY <1>1, <1>2, <2>1 DEF StageInOrder, Exited
  <2> QED BY <1>1, <2>2, <2>3, <2>4, <2>5
<1>4. CASE FlushTimeout
  <2>1. main = "flush" /\ main' = "exit1" /\ buffered' = {} /\ dropped' = dropped \cup buffered
    BY <1>4 DEF FlushTimeout
  <2>2. Cardinality(buffered') <= BufferMax BY <2>1, FS_EmptySet
  <2>3. StageTypeOK(E)' BY <1>1, <2>1, <2>2 DEF StageTypeOK
  <2>4. InStage' = InStage BY <1>2, <2>1 DEF InStage
  <2>5. PlacesDisjoint' BY <1>1, <1>2, <2>1 DEF PlacesDisjoint
  <2>6. StageInOrder' BY <1>1, <1>2, <2>1 DEF StageInOrder, Exited
  <2> QED BY <1>1, <2>3, <2>4, <2>5, <2>6
<1> QED BY <1>3, <1>4

-----------------------------------------------------------------------------
(* The sizes of disjoint places add up.                                    *)
LEMMA DisjointAddUp ==
  ASSUME NEW E, AreEvents(E), NEW S \in SUBSET E, NEW T \in SUBSET E, S \cap T = {}
  PROVE  Cardinality(S \cup T) = Cardinality(S) + Cardinality(T)
<1>1. IsFiniteSet(S) /\ IsFiniteSet(T) /\ Cardinality(S) \in Nat /\ Cardinality(T) \in Nat
  BY SubsetsCount
<1>2. Cardinality(S \cap T) = 0 BY FS_EmptySet
<1>3. Cardinality(S \cup T) = Cardinality(S) + Cardinality(T) - Cardinality(S \cap T)
  BY <1>1, FS_Union
<1> QED BY <1>1, <1>2, <1>3

LEMMA PlacesType ==
  ASSUME NEW E, StageInv(E)
  PROVE  /\ Queued \in SUBSET E /\ InHand \in SUBSET E /\ buffered \in SUBSET E
         /\ delivered \in SUBSET E /\ failed \in SUBSET E /\ dropped \in SUBSET E
BY ElementOfSeq DEF StageInv, StageTypeOK, Queued, InHand

LEMMA PlacesAddUp ==
  ASSUME NEW E, AreEvents(E), StageInv(E)
  PROVE  Cardinality(InStage) = Len(queue) + Cardinality(InHand) + Cardinality(buffered)
           + Cardinality(delivered) + Cardinality(failed) + Cardinality(dropped)
<1> DEFINE A == delivered \cup failed
           B == A \cup dropped
           C == buffered \cup B
           D == InHand \cup C
<1>1. Cardinality(Queued) = Len(queue)
  BY QueueCounts DEF StageInv, StageTypeOK, PlacesDisjoint
<1>2. /\ delivered \cap failed = {} /\ A \cap dropped = {} /\ buffered \cap B = {}
      /\ InHand \cap C = {} /\ Queued \cap D = {} /\ InStage = Queued \cup D
  BY DEF StageInv, PlacesDisjoint, InStage, Settled
<1>3. /\ A \in SUBSET E /\ B \in SUBSET E /\ C \in SUBSET E /\ D \in SUBSET E
      /\ B = A \cup dropped /\ C = buffered \cup B /\ D = InHand \cup C
  BY PlacesType
<1> HIDE DEF B, C, D
<1>4. Cardinality(A) = Cardinality(delivered) + Cardinality(failed) BY <1>2, PlacesType, DisjointAddUp
<1> HIDE DEF A
<1>5. Cardinality(B) = Cardinality(A) + Cardinality(dropped) BY <1>2, <1>3, PlacesType, DisjointAddUp
<1>6. Cardinality(C) = Cardinality(buffered) + Cardinality(B) BY <1>2, <1>3, PlacesType, DisjointAddUp
<1>7. Cardinality(D) = Cardinality(InHand) + Cardinality(C) BY <1>2, <1>3, PlacesType, DisjointAddUp
<1>8. Cardinality(InStage) = Cardinality(Queued) + Cardinality(D) BY <1>2, <1>3, PlacesType, DisjointAddUp
<1>9. /\ Cardinality(delivered) \in Nat /\ Cardinality(failed) \in Nat /\ Cardinality(dropped) \in Nat
      /\ Cardinality(buffered) \in Nat /\ Cardinality(InHand) \in Nat /\ Cardinality(Queued) \in Nat
  BY PlacesType, SubsetsCount
<1>10. Cardinality(C) = Cardinality(buffered) + Cardinality(delivered) + Cardinality(failed)
                        + Cardinality(dropped)
  BY <1>4, <1>5, <1>6, <1>9
<1>11. Cardinality(D) = Cardinality(InHand) + Cardinality(buffered) + Cardinality(delivered)
                        + Cardinality(failed) + Cardinality(dropped)
  BY <1>7, <1>9, <1>10
<1>12. Cardinality(C) \in Nat /\ Cardinality(D) \in Nat BY <1>3, SubsetsCount
<1>13. Cardinality(InStage) = Cardinality(Queued) + Cardinality(InHand) + Cardinality(buffered)
         + Cardinality(delivered) + Cardinality(failed) + Cardinality(dropped)
  BY <1>8, <1>9, <1>11, <1>12
<1> QED BY <1>1, <1>13

-----------------------------------------------------------------------------
(* The stage as a BoundedHandOver: what is held is what is still open.     *)
Held == Queued \cup InHand \cup buffered

LEMMA OpenIsHeld ==
  ASSUME NEW E, StageInv(E)
  PROVE  InStage \ (Settled \cup dropped) = Held
BY DEF StageInv, PlacesDisjoint, InStage, Held

(* Room in the channel is room in the stage.                               *)
LEMMA RoomForOneMore ==
  ASSUME NEW E, AreEvents(E), StageInv(E), QueueHasRoom
  PROVE  Cardinality(Held) < QueueSize + 1 + BufferMax
<1> DEFINE D == InHand \cup buffered
<1>1. Cardinality(Queued) = Len(queue) /\ Len(queue) \in Nat
  BY QueueCounts, LenProperties DEF StageInv, StageTypeOK, PlacesDisjoint
<1>2. Cardinality(InHand) <= 1 /\ Cardinality(InHand) \in Nat
  <2>1. InHand = {} \/ InHand = {hand} BY DEF InHand
  <2>2. Cardinality({}) = 0 /\ Cardinality({hand}) = 1 BY FS_EmptySet, FS_Singleton
  <2> QED BY <2>1, <2>2
<1>3. Cardinality(buffered) <= BufferMax /\ Cardinality(buffered) \in Nat
  BY PlacesType, SubsetsCount DEF StageInv, StageTypeOK
<1>4. /\ InHand \cap buffered = {} /\ Queued \cap D = {} /\ D \in SUBSET E
      /\ Held = Queued \cup D
  BY PlacesType DEF StageInv, PlacesDisjoint, Held
<1>5. Cardinality(D) = Cardinality(InHand) + Cardinality(buffered)
  BY <1>4, PlacesType, DisjointAddUp
<1> HIDE DEF D
<1>6. Cardinality(Held) = Cardinality(Queued) + Cardinality(D) BY <1>4, PlacesType, DisjointAddUp
<1> QED BY <1>1, <1>2, <1>3, <1>5, <1>6, StageAssumption DEF QueueHasRoom

(* What leaves the stage: an answer at a time while it runs, everything    *)
(* that is held when it fails, and nothing is held when it succeeds.       *)
LEMMA StageHandsOver ==
  ASSUME NEW E, AreEvents(E), StageInv(E),
         \/ Signal \/ Receive \/ Produce \/ StartFlush \/ FlushDone \/ FlushTimeout
         \/ \E e \in E : Acknowledged(e) \/ Rejected(e)
  PROVE  \/ UNCHANGED <<Settled, dropped, Outcome>>
         \/ /\ Outcome = "running"
            /\ \E e \in E : e \in Held /\ Settled' = Settled \cup {e}
            /\ UNCHANGED <<dropped, Outcome>>
         \/ /\ Outcome = "running" /\ Held = {} /\ Outcome' = "success"
            /\ UNCHANGED <<Settled, dropped>>
         \/ /\ Outcome = "running" /\ Outcome' = "failure" /\ dropped' = Held
            /\ UNCHANGED Settled
<1> USE DEF StageInv, Outcome, Exited
<1>1. CASE Signal \/ Receive \/ Produce \/ StartFlush
  BY <1>1 DEF Signal, Receive, Produce, StartFlush, Settled
<1>2. ASSUME NEW e \in E, Acknowledged(e) \/ Rejected(e)
      PROVE  /\ Outcome = "running" /\ e \in Held /\ Settled' = Settled \cup {e}
             /\ UNCHANGED <<dropped, Outcome>>
  <2>1. e \in buffered /\ UNCHANGED <<main, dropped>>
    BY <1>2 DEF Acknowledged, Rejected
  <2>2. Settled' = Settled \cup {e} BY <1>2 DEF Acknowledged, Rejected, Settled
  <2>3. ~Exited BY <2>1 DEF StageInOrder
  <2> QED BY <2>1, <2>2, <2>3 DEF Held
<1>3. CASE FlushDone \/ FlushTimeout
  <2>1. /\ main = "flush" /\ UNCHANGED <<delivered, failed>>
        /\ queue = <<>> /\ hand = NoEvent /\ dropped = {}
    BY <1>3 DEF FlushDone, FlushTimeout, StageInOrder, Drained
  <2>2. Settled' = Settled /\ Held = buffered BY <2>1 DEF Settled, Held, Queued, InHand
  <2>3. CASE FlushDone BY <2>1, <2>2, <2>3 DEF FlushDone
  <2>4. CASE FlushTimeout BY <2>1, <2>2, <2>4 DEF FlushTimeout
  <2> QED BY <1>3, <2>3, <2>4
<1> QED BY <1>1, <1>2, <1>3
=============================================================================
