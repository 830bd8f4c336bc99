------------------------- MODULE PulseConsumer_proofs -------------------------
(***************************************************************************)
(* Proofs about PulseConsumer for every value of its constants: the type   *)
(* invariant, and that the inductive invariant ConsumerInv holds of every  *)
(* reachable state, hence at-least-once delivery.                          *)
(***************************************************************************)
EXTENDS PulseConsumer, TLAPS

(* A message is its partition and its offset. *)
LEMMA MessageShape ==
  /\ \A msg \in Message : msg[1] \in Partitions /\ msg[2] \in Offsets
  /\ Offsets \subseteq Int /\ Offsets \subseteq 0 .. MaxOffset
BY ConsumerAssumption DEF Message, Offsets

(* What the sets cut out of Message are. *)
LEMMA CutsOfMessage ==
  /\ \A P : InFlight(P) \subseteq Message
  /\ \A m, upTo : Taken(m, upTo) \subseteq Message
BY DEF InFlight, Taken

(* Doubling with a cap stays between the two settings. *)
LEMMA DelayInRange ==
  /\ BackoffInitial \in BackoffInitial .. BackoffMax
  /\ \A d \in BackoffInitial .. BackoffMax : NextDelay(d) \in BackoffInitial .. BackoffMax
BY ConsumerAssumption DEF NextDelay, Smaller

LEMMA TypeInit == Init => TypeOK
BY ConsumerAssumption, DelayInRange DEF Init, TypeOK, None

(* The end of a process, however it comes, keeps the types. *)
LEMMA TypeLeave ==
  ASSUME TypeOK, NEW m \in Members, Leave(m), faults' \in 0 .. MaxFaults
  PROVE  TypeOK'
<1>1. InFlight(Owned(m)) \subseteq Message
  BY CutsOfMessage
<1>2. /\ owner' \in [Partitions -> Members \cup {NoMember}]
      /\ position' \in [Partitions -> None .. MaxOffset]
  BY ConsumerAssumption DEF TypeOK, Leave, None
<1>3. /\ pc' \in [Members -> {"down", "poll", "batch", "sleep"}]
      /\ stop' \in [Members -> BOOLEAN]
      /\ rows' \in [Members -> SUBSET Message]
      /\ poison' \in [Members -> SUBSET Message]
      /\ backpressure' \in [Members -> BOOLEAN]
  BY DEF TypeOK, Leave
<1>4. delay' \in [Members -> BackoffInitial .. BackoffMax]
  BY DelayInRange DEF TypeOK, Leave
<1>5. paused' \subseteq Partitions /\ exposed' \subseteq Message
  BY <1>1 DEF TypeOK, Leave
<1> QED BY <1>2, <1>3, <1>4, <1>5 DEF TypeOK, Leave, brokerVars, sinkVars

LEMMA TypeAssign ==
  ASSUME TypeOK, NEW f \in [Partitions -> Up], Assign(f), faults' \in 0 .. MaxFaults
  PROVE  TypeOK'
BY ConsumerAssumption, CutsOfMessage
   DEF TypeOK, Assign, None, Up, brokerVars, batchVars, retryVars, sinkVars

LEMMA TypeProduce ==
  ASSUME TypeOK, NEW p \in Partitions, NEW c \in Classes, Produce(p, c)
  PROVE  TypeOK'
<1>1. log' \in [Partitions -> Seq(Classes)]
  BY DEF TypeOK, Produce
<1>2. \A q \in Partitions : Len(log'[q]) <= MaxOffset
  <2> SUFFICES ASSUME NEW q \in Partitions PROVE Len(log'[q]) <= MaxOffset
    OBVIOUS
  <2>1. CASE q = p
    <3>1. log[p] \in Seq(Classes) /\ log'[p] = Append(log[p], c)
      BY DEF TypeOK, Produce
    <3>2. Len(log'[p]) = Len(log[p]) + 1 /\ Len(log[p]) < MaxOffset /\ Len(log[p]) \in Nat
      BY <3>1 DEF Produce
    <3> QED BY <3>2, <2>1, ConsumerAssumption
  <2>2. CASE q # p
    BY <2>2 DEF TypeOK, Produce
  <2> QED BY <2>1, <2>2
<1> QED BY <1>1, <1>2 DEF TypeOK, Produce, groupVars, batchVars, retryVars, sinkVars

LEMMA TypeTrim ==
  ASSUME TypeOK, NEW p \in Partitions, Trim(p)
  PROVE  TypeOK'
<1>1. log[p] \in Seq(Classes) /\ Len(log[p]) \in Nat /\ Len(log[p]) <= MaxOffset
  BY DEF TypeOK
<1>2. start[p] + 1 \in 0 .. MaxOffset
  BY <1>1, ConsumerAssumption DEF TypeOK, Trim, Smaller
<1>3. start' \in [Partitions -> 0 .. MaxOffset]
  BY <1>2 DEF TypeOK, Trim
<1> QED BY <1>3 DEF TypeOK, Trim, groupVars, batchVars, retryVars, sinkVars

LEMMA TypeFetch ==
  ASSUME TypeOK, NEW m \in Members, Fetch(m)
  PROVE  TypeOK'
<1>1. PICK upTo \in [Partitions -> None .. MaxOffset] : Fetch(m)!(upTo)
  BY DEF Fetch
<1>2. /\ position' \in [Partitions -> None .. MaxOffset]
      /\ rows' \in [Members -> SUBSET Message]
      /\ poison' \in [Members -> SUBSET Message]
      /\ pc' \in [Members -> {"down", "poll", "batch", "sleep"}]
  BY <1>1, CutsOfMessage DEF TypeOK
<1> QED BY <1>1, <1>2 DEF TypeOK, brokerVars, retryVars, sinkVars

LEMMA TypeBatch ==
  ASSUME TypeOK, NEW m \in Members,
         SendPoison(m) \/ InsertOk(m) \/ InsertError(m) \/ InsertAmbiguous(m)
  PROVE  TypeOK'
<1>1. CASE SendPoison(m)
  BY <1>1 DEF TypeOK, SendPoison, brokerVars, groupVars, retryVars
<1>2. CASE InsertOk(m)
  BY <1>2, DelayInRange DEF TypeOK, InsertOk, Store, Resumed, brokerVars
<1>3. CASE InsertError(m)
  BY <1>3 DEF TypeOK, InsertError, StartBackoff, Owned, brokerVars, batchVars, sinkVars
<1>4. CASE InsertAmbiguous(m)
  BY <1>4, ConsumerAssumption
     DEF TypeOK, InsertAmbiguous, Store, StartBackoff, Owned, brokerVars, batchVars
<1> QED BY <1>1, <1>2, <1>3, <1>4

LEMMA TypeCommit ==
  ASSUME TypeOK, NEW m \in Members, Commit(m)
  PROVE  TypeOK'
BY DEF TypeOK, Commit, CommitOf, groupVars, batchVars, retryVars, sinkVars

LEMMA TypeNext == TypeOK /\ [Next]_vars => TypeOK'
<1> SUFFICES ASSUME TypeOK, [Next]_vars PROVE TypeOK'
  OBVIOUS
<1>1. CASE \E p \in Partitions, c \in Classes : Produce(p, c)
  BY <1>1, TypeProduce
<1>2. CASE \E p \in Partitions : Trim(p)
  BY <1>2, TypeTrim
<1>3. CASE \E p \in Partitions : ResolvePosition(p)
  BY <1>3 DEF TypeOK, ResolvePosition, brokerVars, batchVars, retryVars, sinkVars
<1>4. CASE ExpireOffsets
  BY <1>4, ConsumerAssumption, SMTT(30)
     DEF TypeOK, ExpireOffsets, None, groupVars, batchVars, retryVars, sinkVars
<1>5. CASE RebalanceDue
  BY <1>5, TypeAssign DEF RebalanceDue, TypeOK
<1>6. CASE RebalanceAgain
  <2>1. faults' \in 0 .. MaxFaults
    BY <1>6, ConsumerAssumption DEF RebalanceAgain, TypeOK
  <2> QED BY <1>6, <2>1, TypeAssign DEF RebalanceAgain
<1>7. ASSUME NEW m \in Members, Launch(m) PROVE TypeOK'
  BY <1>7 DEF TypeOK, Launch, brokerVars, groupVars, batchVars, retryVars, sinkVars
<1>8. ASSUME NEW m \in Members, Signal(m) PROVE TypeOK'
  BY <1>8, ConsumerAssumption
     DEF TypeOK, Signal, brokerVars, groupVars, batchVars, retryVars, sinkVars
<1>9. ASSUME NEW m \in Members, Crash(m) PROVE TypeOK'
  <2>1. faults' \in 0 .. MaxFaults
    BY <1>9, ConsumerAssumption DEF Crash, TypeOK
  <2> QED BY <1>9, <2>1, TypeLeave DEF Crash
<1>10. ASSUME NEW m \in Members,
              Exit(m) \/ FetchBadHeader(m) \/ \E p \in Partitions : OffsetOutOfRange(m, p)
       PROVE  TypeOK'
  <2>1. Leave(m) /\ UNCHANGED faults
    BY <1>10 DEF Exit, FetchBadHeader, OffsetOutOfRange
  <2> QED BY <2>1, TypeLeave DEF TypeOK
<1>11. ASSUME NEW m \in Members, NEW p \in Partitions, SeekToBeginning(m, p) PROVE TypeOK'
  BY <1>11, ConsumerAssumption
     DEF TypeOK, SeekToBeginning, None, brokerVars, batchVars, retryVars, sinkVars
<1>12. ASSUME NEW m \in Members, Fetch(m) PROVE TypeOK'
  BY <1>12, TypeFetch
<1>13. ASSUME NEW m \in Members,
              SendPoison(m) \/ InsertOk(m) \/ InsertError(m) \/ InsertAmbiguous(m)
       PROVE  TypeOK'
  BY <1>13, TypeBatch
<1>14. ASSUME NEW m \in Members, Retry(m) PROVE TypeOK'
  BY <1>14, DelayInRange
     DEF TypeOK, Retry, brokerVars, groupVars, batchVars, sinkVars
<1>15. ASSUME NEW m \in Members, Commit(m) PROVE TypeOK'
  BY <1>15, TypeCommit
<1>16. CASE UNCHANGED vars
  BY <1>16 DEF TypeOK, vars, brokerVars, groupVars, batchVars, retryVars, sinkVars
<1> QED
  BY <1>1, <1>2, <1>3, <1>4, <1>5, <1>6, <1>7, <1>8, <1>9, <1>10, <1>11, <1>12,
     <1>13, <1>14, <1>15, <1>16 DEF Next

(* Every reachable state of the consumer group is well typed; in particular *)
(* the backoff never leaves its interval (consumer.py:88-103).              *)
THEOREM TypeCorrect == Spec => []TypeOK
BY TypeInit, TypeNext, PTL DEF Spec
-----------------------------------------------------------------------------
(* No step rewrites the log, empties a sink or un-handles a message. *)
LogKept(msg) == Written(msg) => Written(msg)' /\ ClassOf(msg)' = ClassOf(msg)
StaysHandled(msg) == Handled(msg) => Handled(msg)'

(* A stop at the top of the loop, message by message. *)
Idle(m) == \A msg \in Message :
             owner[msg[1]] = m => \/ position[msg[1]] <= msg[2]
                                  \/ msg[2] < committed[msg[1]]
                                  \/ msg[2] < origin[msg[1]]

LEMMA IdleIsNothingInFlight ==
  ASSUME TypeOK, NEW m \in Members
  PROVE  InFlight(Owned(m)) = {} <=> Idle(m)
<1>1. ASSUME NEW msg \in Message
      PROVE  (msg \in InFlight(Owned(m))) <=>
               /\ owner[msg[1]] = m
               /\ Larger(committed[msg[1]], origin[msg[1]]) <= msg[2]
               /\ msg[2] < position[msg[1]]
  BY MessageShape DEF InFlight, Owned
<1>2. ASSUME NEW msg \in Message
      PROVE  /\ msg[2] \in Int
             /\ committed[msg[1]] \in Int /\ origin[msg[1]] \in Int /\ position[msg[1]] \in Int
  <2>1. msg[1] \in Partitions /\ msg[2] \in Int
    BY MessageShape
  <2>2. /\ committed \in [Partitions -> -1 .. MaxOffset]
        /\ position \in [Partitions -> -1 .. MaxOffset]
        /\ origin \in [Partitions -> 0 .. MaxOffset]
    BY DEF TypeOK, None
  <2> QED BY <2>1, <2>2, ConsumerAssumption
<1>3. ASSUME NEW msg \in Message
      PROVE  (msg \in InFlight(Owned(m))) <=>
               ~(owner[msg[1]] = m => \/ position[msg[1]] <= msg[2]
                                      \/ msg[2] < committed[msg[1]]
                                      \/ msg[2] < origin[msg[1]])
  BY <1>1, <1>2 DEF Larger
<1>4. InFlight(Owned(m)) \subseteq Message
  BY DEF InFlight
<1> QED BY <1>3, <1>4 DEF Idle

LEMMA IdleIsNothingInFlightNext ==
  ASSUME TypeOK', NEW m \in Members
  PROVE  InFlight(Owned(m))' = {} <=> Idle(m)'
<1>1. ASSUME NEW msg \in Message
      PROVE  (msg \in InFlight(Owned(m)))' <=>
               /\ owner'[msg[1]] = m
               /\ Larger(committed'[msg[1]], origin'[msg[1]]) <= msg[2]
               /\ msg[2] < position'[msg[1]]
  BY MessageShape DEF InFlight, Owned
<1>2. ASSUME NEW msg \in Message
      PROVE  /\ msg[2] \in Int
             /\ committed'[msg[1]] \in Int /\ origin'[msg[1]] \in Int /\ position'[msg[1]] \in Int
  <2>1. msg[1] \in Partitions /\ msg[2] \in Int
    BY MessageShape
  <2>2. /\ committed' \in [Partitions -> -1 .. MaxOffset]
        /\ position' \in [Partitions -> -1 .. MaxOffset]
        /\ origin' \in [Partitions -> 0 .. MaxOffset]
    BY DEF TypeOK, None
  <2> QED BY <2>1, <2>2, ConsumerAssumption
<1>3. ASSUME NEW msg \in Message
      PROVE  (msg \in InFlight(Owned(m)))' <=>
               ~(owner'[msg[1]] = m => \/ position'[msg[1]] <= msg[2]
                                      \/ msg[2] < committed'[msg[1]]
                                      \/ msg[2] < origin'[msg[1]])
  BY <1>1, <1>2 DEF Larger
<1>4. InFlight(Owned(m))' \subseteq Message
  BY DEF InFlight
<1> QED BY <1>3, <1>4 DEF Idle

LEMMA AppendKeeps ==
  ASSUME TypeOK, NEW p \in Partitions, NEW c \in Classes, Produce(p, c)
  PROVE  /\ \A msg \in Message : LogKept(msg)
         /\ \A q \in Partitions : Len(log[q]) <= Len(log'[q])
<1>1. /\ log[p] \in Seq(Classes)
      /\ log'[p] = Append(log[p], c)
      /\ \A q \in Partitions \ {p} : log'[q] = log[q]
  BY DEF TypeOK, Produce
<1>2. /\ Len(log'[p]) = Len(log[p]) + 1 /\ Len(log[p]) \in Nat
      /\ \A i \in 1 .. Len(log[p]) : log'[p][i] = log[p][i]
  BY <1>1
<1>3. ASSUME NEW msg \in Message PROVE LogKept(msg)
  <2>1. CASE msg[1] = p
    <3>1. ASSUME Written(msg) PROVE msg[2] + 1 \in 1 .. Len(log[p])
      BY <2>1, <3>1, <1>2, MessageShape DEF Written, Offsets
    <3> QED BY <3>1, <2>1, <1>2, MessageShape DEF LogKept, Written, ClassOf, Offsets
  <2>2. CASE msg[1] # p
    BY <2>2, <1>1, MessageShape DEF LogKept, Written, ClassOf
  <2> QED BY <2>1, <2>2
<1>4. ASSUME NEW q \in Partitions PROVE Len(log[q]) <= Len(log'[q])
  <2>1. Len(log[q]) \in Nat
    BY DEF TypeOK
  <2> QED BY <2>1, <1>1, <1>2
<1> QED BY <1>3, <1>4

(* The steps other than Produce leave the log alone. *)
LEMMA LogUnchanged ==
  [Next]_vars => (\E p \in Partitions, c \in Classes : Produce(p, c)) \/ log' = log
BY DEF Next, vars, brokerVars, Trim, ResolvePosition, ExpireOffsets, RebalanceDue,
       RebalanceAgain, Assign, Launch, Signal, Crash, Exit, Leave, SeekToBeginning,
       OffsetOutOfRange, Fetch, FetchBadHeader, SendPoison, InsertOk, InsertError,
       InsertAmbiguous, StartBackoff, Retry, Commit

LEMMA SinksGrow ==
  [Next]_vars => stored \subseteq stored' /\ dead \subseteq dead'
BY DEF Next, vars, sinkVars, Produce, Trim, ResolvePosition, ExpireOffsets, RebalanceDue,
       RebalanceAgain, Assign, Launch, Signal, Crash, Exit, Leave, SeekToBeginning,
       OffsetOutOfRange, Fetch, FetchBadHeader, SendPoison, InsertOk, InsertError,
       InsertAmbiguous, Store, Retry, Commit

LEMMA NothingUndone ==
  ASSUME TypeOK, [Next]_vars
  PROVE  \A msg \in Message : LogKept(msg) /\ StaysHandled(msg)
<1>1. \A msg \in Message : LogKept(msg)
  BY LogUnchanged, AppendKeeps DEF LogKept, Written, ClassOf
<1> QED BY <1>1, SinksGrow DEF StaysHandled, LogKept, Handled
-----------------------------------------------------------------------------
LEMMA InvInit == Init => ConsumerInv
<1> SUFFICES ASSUME Init PROVE ConsumerInv
  OBVIOUS
<1>1. TypeOK
  BY TypeInit
<1>2. MembersShape /\ SinksWritten /\ BatchesSorted /\ OffsetsOrdered
  BY DEF Init, MembersShape, SinksWritten, BatchesSorted, OffsetsOrdered, None
<1>3. \A msg \in Message : position[msg[1]] = -1 /\ committed[msg[1]] = -1
  BY MessageShape DEF Init, None
<1>4. ReadIsHandledOrInHand /\ CommittedIsHandled
  BY <1>3, MessageShape, ConsumerAssumption
     DEF Offsets, ReadIsHandledOrInHand, CommittedIsHandled
<1>5. BetweenBatchesAllCommitted
  BY DEF Init, BetweenBatchesAllCommitted
<1> QED BY <1>1, <1>2, <1>4, <1>5 DEF ConsumerInv

(* Steps that leave offsets, owners, positions and batches alone: appends, *)
(* retention, signals, the start of a process, failed inserts, the sleep.  *)
LEMMA FrameInv ==
  ASSUME ConsumerInv, TypeOK', SinksWritten',
         \A msg \in Message : LogKept(msg) /\ StaysHandled(msg),
         UNCHANGED <<committed, owner, position, rows, poison, origin>>,
         \A p \in Partitions : /\ start[p] <= start'[p] /\ start'[p] <= Len(log'[p])
                                /\ Len(log[p]) <= Len(log'[p]),
         \A m \in Members : \/ pc'[m] = pc[m]
                            \/ pc[m] = "down" /\ pc'[m] = "poll"
                            \/ pc[m] \in {"batch", "sleep"} /\ pc'[m] \in {"batch", "sleep"}
  PROVE  ConsumerInv'
<1>1. MembersShape'
  BY DEF ConsumerInv, MembersShape, TypeOK
<1>2. BatchesSorted'
  BY DEF ConsumerInv, BatchesSorted, LogKept, TypeOK
<1>3. OffsetsOrdered'
  <2> SUFFICES ASSUME NEW p \in Partitions
               PROVE  /\ position[p] <= Len(log'[p]) /\ committed[p] <= Len(log'[p])
                      /\ origin[p] <= start'[p]
    BY DEF ConsumerInv, OffsetsOrdered
  <2>1. /\ position[p] \in Int /\ committed[p] \in Int
        /\ origin[p] \in Int /\ start[p] \in Int /\ start'[p] \in Int
        /\ Len(log[p]) \in Nat /\ Len(log'[p]) \in Nat
    BY ConsumerAssumption DEF ConsumerInv, TypeOK, None
  <2> QED BY <2>1 DEF ConsumerInv, OffsetsOrdered
<1>4. ReadIsHandledOrInHand'
  BY DEF ConsumerInv, ReadIsHandledOrInHand, StaysHandled
<1>5. CommittedIsHandled'
  BY DEF ConsumerInv, CommittedIsHandled, StaysHandled
<1>6. BetweenBatchesAllCommitted'
  <2> SUFFICES ASSUME NEW m \in Members, pc'[m] = "poll"
               PROVE  InFlight(Owned(m)) = {}
    BY DEF BetweenBatchesAllCommitted, InFlight, Owned, Larger
  <2>1. CASE pc[m] = "poll"
    BY <2>1 DEF ConsumerInv, BetweenBatchesAllCommitted
  <2>2. CASE pc[m] = "down"
    <3>1. Owned(m) = {}
      BY <2>2, ConsumerAssumption DEF ConsumerInv, MembersShape, Owned
    <3> QED BY <3>1 DEF InFlight
  <2> QED BY <2>1, <2>2
<1> QED BY <1>1, <1>2, <1>3, <1>4, <1>5, <1>6 DEF ConsumerInv

(* Only messages of a batch get into a sink, and those are in the log. *)
LEMMA SinksInv ==
  ASSUME ConsumerInv, TypeOK', [Next]_vars
  PROVE  SinksWritten'
<1>1. \A msg \in Message : Written(msg) => Written(msg)'
  BY NothingUndone DEF ConsumerInv, LogKept
<1>2. /\ stored' \subseteq stored \cup UNION {rows[m] : m \in Members}
      /\ dead' \subseteq dead \cup UNION {poison[m] : m \in Members}
  BY DEF Next, vars, sinkVars, Produce, Trim, ResolvePosition, ExpireOffsets, RebalanceDue,
         RebalanceAgain, Assign, Launch, Signal, Crash, Exit, Leave, SeekToBeginning,
         OffsetOutOfRange, Fetch, FetchBadHeader, SendPoison, InsertOk, InsertError,
         InsertAmbiguous, Store, Retry, Commit
<1>3. \A msg \in stored' \cup dead' : msg \in Message /\ Written(msg)
  BY <1>2 DEF ConsumerInv, TypeOK, SinksWritten, BatchesSorted
<1> QED BY <1>1, <1>3 DEF SinksWritten

(* A rebalance: no partition has a position, the batches stay. *)
LEMMA AssignInv ==
  ASSUME ConsumerInv, TypeOK', SinksWritten', NEW f \in [Partitions -> Up], Assign(f)
  PROVE  ConsumerInv'
<1> USE DEF Assign, brokerVars, batchVars, retryVars, sinkVars
<1>1. MembersShape'
  BY ConsumerAssumption DEF ConsumerInv, MembersShape, Up
<1>2. BatchesSorted'
  BY DEF ConsumerInv, BatchesSorted, Written, ClassOf
<1>3. \A p \in Partitions : position'[p] = -1
  BY DEF None
<1>4. OffsetsOrdered'
  <2>1. \A p \in Partitions : Len(log[p]) \in Nat
    BY DEF ConsumerInv, TypeOK
  <2> QED BY <1>3, <2>1 DEF ConsumerInv, OffsetsOrdered, None
<1>5. ReadIsHandledOrInHand'
  BY <1>3, MessageShape, ConsumerAssumption DEF ReadIsHandledOrInHand, Offsets
<1>6. CommittedIsHandled'
  BY DEF ConsumerInv, CommittedIsHandled, Handled, Written, ClassOf
<1>7. BetweenBatchesAllCommitted'
  BY <1>3, MessageShape, ConsumerAssumption
     DEF BetweenBatchesAllCommitted, InFlight, Offsets
<1> QED BY <1>1, <1>2, <1>4, <1>5, <1>6, <1>7 DEF ConsumerInv

(* The end of a process: its partitions lose position and owner, its batch *)
(* is gone; the other members and the sinks do not notice.                 *)
LEMMA LeaveInv ==
  ASSUME ConsumerInv, TypeOK', SinksWritten', NEW m \in Members, Leave(m)
  PROVE  ConsumerInv'
<1> USE DEF Leave, brokerVars, sinkVars
<1>1. \A p \in Partitions :
        /\ owner[p] = m => owner'[p] = NoMember /\ position'[p] = -1
        /\ owner[p] # m => owner'[p] = owner[p] /\ position'[p] = position[p]
  BY DEF None
<1>2. \A n \in Members :
        /\ n = m => pc'[n] = "down" /\ rows'[n] = {} /\ poison'[n] = {}
        /\ n # m => pc'[n] = pc[n] /\ rows'[n] = rows[n] /\ poison'[n] = poison[n]
  BY DEF ConsumerInv, TypeOK
<1>3. MembersShape'
  <2>1. \A n \in Members : pc'[n] \in {"down", "poll"} => rows'[n] = {} /\ poison'[n] = {}
    BY <1>2 DEF ConsumerInv, MembersShape
  <2>2. ASSUME NEW p \in Partitions
        PROVE  IF owner'[p] = NoMember THEN position'[p] = None ELSE pc'[owner'[p]] # "down"
    <3>1. owner[p] \in Members \cup {NoMember}
      BY DEF ConsumerInv, TypeOK
    <3> QED BY <1>1, <1>2, <3>1, ConsumerAssumption DEF ConsumerInv, MembersShape, None
  <2> QED BY <2>1, <2>2 DEF MembersShape
<1>4. BatchesSorted'
  BY <1>2 DEF ConsumerInv, BatchesSorted, Written, ClassOf
<1>5. OffsetsOrdered'
  <2>1. \A p \in Partitions : Len(log[p]) \in Nat
    BY DEF ConsumerInv, TypeOK
  <2> QED BY <1>1, <2>1 DEF ConsumerInv, OffsetsOrdered, None
<1>6. ReadIsHandledOrInHand'
  <2> SUFFICES ASSUME NEW msg \in Message,
                      origin[msg[1]] <= msg[2], msg[2] < position'[msg[1]]
               PROVE  \/ Handled(msg)'
                      \/ \E n \in Members : owner'[msg[1]] = n /\ msg \in rows'[n] \cup poison'[n]
    BY DEF ReadIsHandledOrInHand
  <2>1. owner[msg[1]] # m /\ position'[msg[1]] = position[msg[1]]
    BY <1>1, MessageShape, ConsumerAssumption DEF Offsets
  <2>2. Handled(msg) \/ \E n \in Members : owner[msg[1]] = n /\ msg \in rows[n] \cup poison[n]
    BY <2>1 DEF ConsumerInv, ReadIsHandledOrInHand
  <2> QED BY <2>1, <2>2, <1>1, <1>2, MessageShape DEF Handled, Written, ClassOf
<1>7. CommittedIsHandled'
  BY DEF ConsumerInv, CommittedIsHandled, Handled, Written, ClassOf
<1>8. BetweenBatchesAllCommitted'
  <2> SUFFICES ASSUME NEW n \in Members, pc'[n] = "poll" PROVE Idle(n)'
    BY IdleIsNothingInFlightNext DEF BetweenBatchesAllCommitted
  <2>1. n # m /\ Idle(n)
    BY <1>2, IdleIsNothingInFlight DEF ConsumerInv, BetweenBatchesAllCommitted
  <2>2. \A q \in Partitions : owner'[q] = n => owner[q] = n /\ position'[q] = position[q]
    BY <2>1, <1>1, ConsumerAssumption
  <2> QED BY <2>1, <2>2, MessageShape DEF Idle
<1> QED BY <1>3, <1>4, <1>5, <1>6, <1>7, <1>8 DEF ConsumerInv

(* The committed offset becomes the position: everything behind it is      *)
(* handled, and nothing of it is uncommitted.                              *)
LEMMA ResolveInv ==
  ASSUME ConsumerInv, TypeOK', SinksWritten', NEW p \in Partitions, ResolvePosition(p)
  PROVE  ConsumerInv'
<1> USE DEF ResolvePosition, brokerVars, batchVars, retryVars, sinkVars
<1>1. \A q \in Partitions : position'[q] = IF q = p THEN committed[p] ELSE position[q]
  BY DEF ConsumerInv, TypeOK
<1>2. MembersShape'
  BY <1>1 DEF ConsumerInv, MembersShape
<1>3. BatchesSorted'
  BY DEF ConsumerInv, BatchesSorted, Written, ClassOf
<1>4. committed[p] \in Int /\ committed[p] <= Len(log[p])
  BY ConsumerAssumption DEF ConsumerInv, TypeOK, OffsetsOrdered, None
<1>5. OffsetsOrdered'
  BY <1>1, <1>4 DEF ConsumerInv, OffsetsOrdered
<1>6. ReadIsHandledOrInHand'
  BY <1>1, MessageShape
     DEF ConsumerInv, ReadIsHandledOrInHand, CommittedIsHandled, Handled, Written, ClassOf
<1>7. CommittedIsHandled'
  BY DEF ConsumerInv, CommittedIsHandled, Handled, Written, ClassOf
<1>8. BetweenBatchesAllCommitted'
  <2> SUFFICES ASSUME NEW n \in Members, pc'[n] = "poll" PROVE Idle(n)'
    BY IdleIsNothingInFlightNext DEF BetweenBatchesAllCommitted
  <2>1. Idle(n)
    BY IdleIsNothingInFlight DEF ConsumerInv, BetweenBatchesAllCommitted
  <2>2. owner' = owner /\ committed' = committed /\ origin' = origin
    OBVIOUS
  <2>3. ASSUME NEW msg \in Message, owner[msg[1]] = n
        PROVE  \/ position'[msg[1]] <= msg[2]
               \/ msg[2] < committed[msg[1]] \/ msg[2] < origin[msg[1]]
    <3>1. msg[1] \in Partitions /\ msg[2] \in Int
      BY MessageShape, ConsumerAssumption DEF Offsets
    <3>2. CASE msg[1] = p
      <4> QED BY <1>1, <1>4, <3>1, <3>2
    <3>3. CASE msg[1] # p
      <4> QED BY <1>1, <2>1, <2>3, <3>1, <3>3 DEF Idle
    <3> QED BY <3>2, <3>3
  <2> QED BY <2>2, <2>3 DEF Idle
<1> QED BY <1>2, <1>3, <1>5, <1>6, <1>7, <1>8 DEF ConsumerInv

(* The broker forgets the offsets while nobody reads. *)
LEMMA ExpireInv ==
  ASSUME ConsumerInv, TypeOK', SinksWritten', ExpireOffsets
  PROVE  ConsumerInv'
<1> USE DEF ExpireOffsets, groupVars, batchVars, retryVars, sinkVars
<1>1. \A p \in Partitions : committed'[p] = -1
  BY DEF None
<1>2. \A p \in Partitions : position[p] = -1
  BY DEF Up, ConsumerInv, TypeOK, MembersShape, None
<1>3. MembersShape' /\ BatchesSorted'
  BY DEF ConsumerInv, MembersShape, BatchesSorted, Written, ClassOf
<1>4. OffsetsOrdered'
  <2>1. \A p \in Partitions : Len(log[p]) \in Nat
    BY DEF ConsumerInv, TypeOK
  <2> QED BY <1>1, <1>2, <2>1 DEF ConsumerInv, OffsetsOrdered, None
<1>5. ReadIsHandledOrInHand' /\ CommittedIsHandled'
  BY <1>1, <1>2, MessageShape, ConsumerAssumption
     DEF ReadIsHandledOrInHand, CommittedIsHandled, Offsets
<1>6. BetweenBatchesAllCommitted'
  BY DEF BetweenBatchesAllCommitted, Up, ConsumerInv, TypeOK
<1> QED BY <1>3, <1>4, <1>5, <1>6 DEF ConsumerInv

(* A group without offset begins at the log start: nothing is behind it. *)
LEMMA SeekInv ==
  ASSUME ConsumerInv, TypeOK', SinksWritten', NEW m \in Members, NEW p \in Partitions,
         SeekToBeginning(m, p)
  PROVE  ConsumerInv'
<1> USE DEF SeekToBeginning, brokerVars, batchVars, retryVars, sinkVars
<1>1. \A q \in Partitions :
        /\ position'[q] = IF q = p THEN start[p] ELSE position[q]
        /\ origin'[q] = IF q = p THEN start[p] ELSE origin[q]
  BY DEF ConsumerInv, TypeOK
<1>2. committed[p] = -1 /\ start[p] \in 0 .. MaxOffset
  BY DEF ConsumerInv, TypeOK, None
<1>3. MembersShape'
  BY <1>1, ConsumerAssumption DEF ConsumerInv, MembersShape
<1>4. BatchesSorted'
  BY DEF ConsumerInv, BatchesSorted, Written, ClassOf
<1>5. OffsetsOrdered'
  BY <1>1, <1>2, ConsumerAssumption DEF ConsumerInv, OffsetsOrdered, None
<1>6. ReadIsHandledOrInHand'
  <2> SUFFICES ASSUME NEW msg \in Message,
                      origin'[msg[1]] <= msg[2], msg[2] < position'[msg[1]]
               PROVE  \/ Handled(msg)'
                      \/ \E n \in Members : owner'[msg[1]] = n /\ msg \in rows'[n] \cup poison'[n]
    BY DEF ReadIsHandledOrInHand
  <2>1. msg[1] # p
    BY <1>1, <1>2, MessageShape, ConsumerAssumption DEF Offsets
  <2> QED BY <2>1, <1>1, MessageShape
          DEF ConsumerInv, ReadIsHandledOrInHand, Handled, Written, ClassOf
<1>7. CommittedIsHandled'
  BY <1>1, <1>2, MessageShape, ConsumerAssumption
     DEF ConsumerInv, CommittedIsHandled, Handled, Written, ClassOf, Offsets
<1>8. BetweenBatchesAllCommitted'
  <2> SUFFICES ASSUME NEW n \in Members, pc'[n] = "poll" PROVE Idle(n)'
    BY IdleIsNothingInFlightNext DEF BetweenBatchesAllCommitted
  <2>1. Idle(n)
    BY IdleIsNothingInFlight DEF ConsumerInv, BetweenBatchesAllCommitted
  <2> SUFFICES ASSUME NEW msg \in Message, owner[msg[1]] = n
               PROVE  \/ position'[msg[1]] <= msg[2]
                      \/ msg[2] < committed[msg[1]]
                      \/ msg[2] < origin'[msg[1]]
    BY DEF Idle
  <2>2. CASE msg[1] = p
    BY <2>2, <1>1, <1>2, MessageShape, ConsumerAssumption DEF Offsets
  <2>3. CASE msg[1] # p
    BY <2>1, <2>3, <1>1, MessageShape DEF Idle
  <2> QED BY <2>2, <2>3
<1> QED BY <1>3, <1>4, <1>5, <1>6, <1>7, <1>8 DEF ConsumerInv

(* A fetch: what lies between the old and the new positions is in hand. *)
LEMMA FetchInv ==
  ASSUME ConsumerInv, TypeOK', SinksWritten', NEW m \in Members, Fetch(m)
  PROVE  ConsumerInv'
<1>1. PICK upTo \in [Partitions -> None .. MaxOffset] : Fetch(m)!(upTo)
  BY DEF Fetch
<1> USE DEF brokerVars, retryVars, sinkVars
<1>2. /\ pc[m] = "poll" /\ rows[m] = {} /\ poison[m] = {}
      /\ \A n \in Members :
           /\ n = m => /\ pc'[n] = "batch"
                       /\ rows'[n] \cup poison'[n] = Taken(m, upTo)
                       /\ \A msg \in rows'[n] : ClassOf(msg) \notin {"poison", "badHeader"}
                       /\ \A msg \in poison'[n] : ClassOf(msg) = "poison"
           /\ n # m => pc'[n] = pc[n] /\ rows'[n] = rows[n] /\ poison'[n] = poison[n]
  BY <1>1 DEF IsFetch, ConsumerInv, TypeOK, MembersShape
<1>3. \A p \in Partitions : owner[p] # m => position'[p] = position[p]
  BY <1>1 DEF IsFetch, Readable, Owned
<1>4. ASSUME NEW p \in Partitions
      PROVE  /\ position'[p] \in Int /\ position[p] \in Int /\ committed[p] \in Int
             /\ position[p] <= position'[p]
             /\ position[p] = -1 => position'[p] = -1
             /\ position'[p] <= Len(log[p])
  <2>1. /\ position'[p] \in Int /\ position[p] \in Int /\ committed[p] \in Int
        /\ start[p] \in Nat /\ position' = upTo
    BY <1>1, ConsumerAssumption DEF ConsumerInv, TypeOK, None
  <2>2. CASE p \in Readable(m)
    <3>1. position[p] >= start[p] /\ position[p] <= upTo[p] /\ upTo[p] <= Len(log[p])
      BY <2>2, <1>1 DEF IsFetch, Readable
    <3> QED BY <3>1, <2>1
  <2>3. CASE p \notin Readable(m)
    <3>1. upTo[p] = position[p]
      BY <2>3, <1>1 DEF IsFetch
    <3> QED BY <3>1, <2>1 DEF ConsumerInv, OffsetsOrdered
  <2> QED BY <2>2, <2>3
<1>5. ASSUME NEW msg \in Message, position[msg[1]] <= msg[2], msg[2] < position'[msg[1]]
      PROVE  owner[msg[1]] = m /\ msg \in Taken(m, upTo)
  <2>1. position' = upTo /\ msg[1] \in Partitions /\ msg[2] \in Int
    BY <1>1, MessageShape
  <2>2. msg[1] \in Readable(m)
    BY <1>1, <1>4, <1>5, <2>1 DEF IsFetch
  <2> QED BY <1>5, <2>1, <2>2 DEF Taken, Readable, Owned
<1>6. ASSUME NEW msg \in Taken(m, upTo)
      PROVE  Written(msg) /\ ClassOf(msg) \in AllClasses
  <2>1. msg \in Message /\ msg[1] \in Readable(m) /\ position[msg[1]] <= msg[2] /\ msg[2] < upTo[msg[1]]
    BY DEF Taken
  <2>2. /\ log[msg[1]] \in Seq(Classes) /\ Len(log[msg[1]]) \in Nat
        /\ upTo[msg[1]] \in Int /\ upTo[msg[1]] <= Len(log[msg[1]])
    BY <1>1, <1>4, <2>1, MessageShape DEF ConsumerInv, TypeOK
  <2>3. msg[2] \in Nat
    BY <2>1, MessageShape, ConsumerAssumption DEF Offsets
  <2>4. msg[2] + 1 \in 1 .. Len(log[msg[1]])
    BY <2>1, <2>2, <2>3
  <2> QED BY <2>2, <2>3, <2>4, ConsumerAssumption DEF Written, ClassOf
<1>7. MembersShape'
  <2>1. \A n \in Members : pc'[n] \in {"down", "poll"} => rows'[n] = {} /\ poison'[n] = {}
    BY <1>2 DEF ConsumerInv, MembersShape
  <2>2. ASSUME NEW p \in Partitions
        PROVE  IF owner'[p] = NoMember THEN position'[p] = None ELSE pc'[owner'[p]] # "down"
    <3>1. owner'[p] = owner[p] /\ owner[p] \in Members \cup {NoMember}
      BY <1>1 DEF ConsumerInv, TypeOK
    <3> QED BY <1>2, <1>4, <3>1, ConsumerAssumption DEF ConsumerInv, MembersShape, None
  <2> QED BY <2>1, <2>2 DEF MembersShape
<1>8. BatchesSorted'
  <2> SUFFICES ASSUME NEW n \in Members
               PROVE  /\ \A msg \in rows'[n] : Written(msg) /\ ClassOf(msg) \in {"valid", "unstorable"}
                      /\ \A msg \in poison'[n] : Written(msg) /\ ClassOf(msg) = "poison"
    BY <1>1 DEF BatchesSorted, Written, ClassOf
  <2>1. CASE n = m
    BY <2>1, <1>2, <1>6 DEF AllClasses
  <2>2. CASE n # m
    BY <2>2, <1>2 DEF ConsumerInv, BatchesSorted
  <2> QED BY <2>1, <2>2
<1>9. OffsetsOrdered'
  <2> SUFFICES ASSUME NEW p \in Partitions
               PROVE  /\ position'[p] <= Len(log[p])
                      /\ position'[p] # -1 => committed[p] <= position'[p] /\ origin[p] <= position'[p]
    BY <1>1 DEF ConsumerInv, OffsetsOrdered, None
  <2>1. origin[p] \in Int
    BY ConsumerAssumption DEF ConsumerInv, TypeOK
  <2> QED BY <1>4, <2>1 DEF ConsumerInv, OffsetsOrdered, None
<1>10. ReadIsHandledOrInHand'
  <2> SUFFICES ASSUME NEW msg \in Message,
                      origin[msg[1]] <= msg[2], msg[2] < position'[msg[1]]
               PROVE  \/ Handled(msg)
                      \/ \E n \in Members : owner[msg[1]] = n /\ msg \in rows'[n] \cup poison'[n]
    BY <1>1 DEF ReadIsHandledOrInHand, Handled, Written, ClassOf
  <2>1. CASE msg[2] < position[msg[1]]
    BY <2>1, <1>2 DEF ConsumerInv, ReadIsHandledOrInHand
  <2>2. CASE position[msg[1]] <= msg[2]
    BY <2>2, <1>2, <1>5
  <2>3. msg[2] \in Int /\ position[msg[1]] \in Int
    BY <1>4, MessageShape
  <2> QED BY <2>1, <2>2, <2>3
<1>11. CommittedIsHandled'
  BY <1>1 DEF ConsumerInv, CommittedIsHandled, Handled, Written, ClassOf
<1>12. BetweenBatchesAllCommitted'
  <2> SUFFICES ASSUME NEW n \in Members, pc'[n] = "poll" PROVE Idle(n)'
    BY IdleIsNothingInFlightNext DEF BetweenBatchesAllCommitted
  <2>1. n # m /\ Idle(n)
    BY <1>2, IdleIsNothingInFlight DEF ConsumerInv, BetweenBatchesAllCommitted
  <2> QED BY <2>1, <1>1, <1>3, MessageShape DEF Idle
<1> QED BY <1>7, <1>8, <1>9, <1>10, <1>11, <1>12 DEF ConsumerInv

(* A poison message leaves the batch by reaching the DLQ. *)
LEMMA SendPoisonInv ==
  ASSUME ConsumerInv, TypeOK', SinksWritten', NEW m \in Members, SendPoison(m),
         \A msg \in Message : StaysHandled(msg)
  PROVE  ConsumerInv'
<1> USE DEF brokerVars, groupVars, retryVars
<1>1. PICK sent \in poison[m] : /\ dead' = dead \cup {sent}
                                /\ poison' = [poison EXCEPT ![m] = @ \ {sent}]
  BY DEF SendPoison
<1>2. /\ pc[m] = "batch"
      /\ \A n \in Members : poison'[n] = IF n = m THEN poison[m] \ {sent} ELSE poison[n]
      /\ UNCHANGED <<log, start, committed, owner, position, pc, rows, origin>>
  BY <1>1 DEF SendPoison, ConsumerInv, TypeOK
<1>3. MembersShape' /\ BatchesSorted'
  BY <1>2 DEF ConsumerInv, MembersShape, BatchesSorted, Written, ClassOf
<1>4. OffsetsOrdered' /\ BetweenBatchesAllCommitted'
  BY <1>2 DEF ConsumerInv, OffsetsOrdered, BetweenBatchesAllCommitted, InFlight, Owned
<1>5. Handled(sent)'
  BY <1>1, <1>2 DEF ConsumerInv, BatchesSorted, Handled, Written, ClassOf
<1>6. ReadIsHandledOrInHand'
  BY <1>2, <1>5 DEF ConsumerInv, ReadIsHandledOrInHand, StaysHandled
<1>7. CommittedIsHandled'
  BY <1>2 DEF ConsumerInv, CommittedIsHandled, StaysHandled
<1> QED BY <1>3, <1>4, <1>6, <1>7 DEF ConsumerInv

(* The rows leave the batch by reaching ClickHouse. *)
LEMMA InsertOkInv ==
  ASSUME ConsumerInv, TypeOK', SinksWritten', NEW m \in Members, InsertOk(m),
         \A msg \in Message : StaysHandled(msg)
  PROVE  ConsumerInv'
<1> USE DEF brokerVars
<1>1. /\ pc[m] = "batch" /\ stored' = stored \cup rows[m] /\ dead' = dead
      /\ \A n \in Members : rows'[n] = IF n = m THEN {} ELSE rows[n]
      /\ UNCHANGED <<log, start, committed, owner, position, pc, poison, origin>>
  BY DEF InsertOk, Inserting, Store, ConsumerInv, TypeOK
<1>2. MembersShape' /\ BatchesSorted'
  BY <1>1 DEF ConsumerInv, MembersShape, BatchesSorted, Written, ClassOf
<1>3. OffsetsOrdered' /\ BetweenBatchesAllCommitted'
  BY <1>1 DEF ConsumerInv, OffsetsOrdered, BetweenBatchesAllCommitted, InFlight, Owned
<1>4. \A msg \in rows[m] : Handled(msg)'
  BY <1>1 DEF ConsumerInv, BatchesSorted, Handled, Written, ClassOf
<1>5. ReadIsHandledOrInHand'
  BY <1>1, <1>4 DEF ConsumerInv, ReadIsHandledOrInHand, StaysHandled
<1>6. CommittedIsHandled'
  BY <1>1 DEF ConsumerInv, CommittedIsHandled, StaysHandled
<1> QED BY <1>2, <1>3, <1>5, <1>6 DEF ConsumerInv

(* The commit: with an empty batch everything behind the positions of the  *)
(* member's partitions is handled, so the offsets may catch up.            *)
LEMMA CommitInv ==
  ASSUME ConsumerInv, TypeOK', SinksWritten', NEW m \in Members, Commit(m)
  PROVE  ConsumerInv'
<1> USE DEF groupVars, batchVars, retryVars, sinkVars
<1>1. /\ rows[m] = {} /\ poison[m] = {}
      /\ \A n \in Members : pc'[n] = IF n = m THEN "poll" ELSE pc[n]
      /\ \A p \in Partitions : committed'[p] = IF owner[p] = m /\ position[p] # -1
                                               THEN position[p] ELSE committed[p]
      /\ UNCHANGED <<log, start, owner, position, rows, poison, stored, dead, origin>>
  BY DEF Commit, BatchDone, CommitOf, None, ConsumerInv, TypeOK
<1>2. MembersShape'
  <2>1. \A p \in Partitions : owner[p] \in Members \cup {NoMember}
    BY DEF ConsumerInv, TypeOK
  <2> QED BY <1>1, <2>1, ConsumerAssumption DEF ConsumerInv, MembersShape
<1>3. BatchesSorted'
  BY <1>1 DEF ConsumerInv, BatchesSorted, Written, ClassOf
<1>4. \A p \in Partitions : /\ position[p] \in Int /\ committed[p] \in Int /\ origin[p] \in Int
                            /\ Len(log[p]) \in Nat
  BY ConsumerAssumption DEF ConsumerInv, TypeOK, None
<1>5. OffsetsOrdered'
  BY <1>1, <1>4 DEF ConsumerInv, OffsetsOrdered, None
<1>6. ReadIsHandledOrInHand'
  BY <1>1 DEF ConsumerInv, ReadIsHandledOrInHand, Handled, Written, ClassOf
<1>7. CommittedIsHandled'
  <2> SUFFICES ASSUME NEW msg \in Message,
                      origin[msg[1]] <= msg[2], msg[2] < committed'[msg[1]]
               PROVE  Handled(msg)
    BY <1>1 DEF CommittedIsHandled, Handled, Written, ClassOf
  <2>1. CASE owner[msg[1]] = m /\ position[msg[1]] # -1
    BY <2>1, <1>1, MessageShape DEF ConsumerInv, ReadIsHandledOrInHand
  <2>2. CASE ~(owner[msg[1]] = m /\ position[msg[1]] # -1)
    BY <2>2, <1>1, MessageShape DEF ConsumerInv, CommittedIsHandled
  <2> QED BY <2>1, <2>2
<1>8. BetweenBatchesAllCommitted'
  <2> SUFFICES ASSUME NEW n \in Members, pc'[n] = "poll" PROVE Idle(n)'
    BY IdleIsNothingInFlightNext DEF BetweenBatchesAllCommitted
  <2> SUFFICES ASSUME NEW msg \in Message, owner[msg[1]] = n
               PROVE  \/ position[msg[1]] <= msg[2]
                      \/ msg[2] < committed'[msg[1]]
                      \/ msg[2] < origin[msg[1]]
    BY <1>1 DEF Idle
  <2>1. msg[1] \in Partitions /\ msg[2] \in 0 .. MaxOffset
    BY MessageShape
  <2>2. CASE n = m
    BY <2>1, <2>2, <1>1, <1>4, ConsumerAssumption
  <2>3. CASE n # m
    <3>1. Idle(n)
      BY <2>3, <1>1, IdleIsNothingInFlight DEF ConsumerInv, BetweenBatchesAllCommitted
    <3> QED BY <3>1, <2>1, <2>3, <1>1 DEF Idle
  <2> QED BY <2>2, <2>3
<1> QED BY <1>2, <1>3, <1>5, <1>6, <1>7, <1>8 DEF ConsumerInv

LEMMA InvNext == ConsumerInv /\ [Next]_vars => ConsumerInv'
<1> SUFFICES ASSUME ConsumerInv, [Next]_vars PROVE ConsumerInv'
  OBVIOUS
<1>1. TypeOK /\ TypeOK'
  BY TypeNext DEF ConsumerInv
<1>2. (\A msg \in Message : LogKept(msg) /\ StaysHandled(msg)) /\ SinksWritten'
  BY <1>1, NothingUndone, SinksInv
<1>3. \A p \in Partitions : start[p] \in Nat /\ start[p] <= Len(log[p]) /\ Len(log[p]) \in Nat
  BY <1>1 DEF ConsumerInv, OffsetsOrdered, TypeOK
<1>4. ASSUME NEW p \in Partitions, NEW c \in Classes, Produce(p, c) PROVE ConsumerInv'
  <2>1. \A q \in Partitions : Len(log[q]) <= Len(log'[q])
    BY <1>1, <1>4, AppendKeeps
  <2>2. \A q \in Partitions : Len(log'[q]) \in Nat /\ start[q] \in Nat
    BY <1>1 DEF TypeOK
  <2>3. \A q \in Partitions : start[q] <= start'[q] /\ start'[q] <= Len(log'[q]) /\ Len(log[q]) <= Len(log'[q])
    BY <1>3, <1>4, <2>1, <2>2 DEF Produce
  <2> QED BY <1>1, <1>2, <1>4, <2>3, FrameInv DEF Produce, groupVars, batchVars
<1>5. ASSUME NEW p \in Partitions, Trim(p) PROVE ConsumerInv'
  <2>1. \A q \in Partitions : start[q] <= start'[q] /\ start'[q] <= Len(log'[q]) /\ Len(log[q]) <= Len(log'[q])
    BY <1>1, <1>3, <1>5, ConsumerAssumption, SMTT(30) DEF Trim, Smaller, TypeOK
  <2> QED BY <1>1, <1>2, <1>5, <2>1, FrameInv DEF Trim, groupVars, batchVars
<1>6. ASSUME NEW p \in Partitions, ResolvePosition(p) PROVE ConsumerInv'
  BY <1>1, <1>2, <1>6, ResolveInv
<1>7. CASE ExpireOffsets
  BY <1>1, <1>2, <1>7, ExpireInv
<1>8. CASE RebalanceDue \/ RebalanceAgain
  BY <1>1, <1>2, <1>8, AssignInv DEF RebalanceDue, RebalanceAgain
<1>9. ASSUME NEW m \in Members,
             Launch(m) \/ Signal(m) \/ InsertError(m) \/ InsertAmbiguous(m) \/ Retry(m)
      PROVE  ConsumerInv'
  <2>1. UNCHANGED <<log, start, committed, owner, position, rows, poison, origin>>
    BY <1>9 DEF Launch, Signal, InsertError, InsertAmbiguous, StartBackoff, Retry,
                brokerVars, groupVars, batchVars
  <2>2. ASSUME NEW n \in Members
        PROVE  \/ pc'[n] = pc[n]
               \/ pc[n] = "down" /\ pc'[n] = "poll"
               \/ pc[n] \in {"batch", "sleep"} /\ pc'[n] \in {"batch", "sleep"}
    BY <1>1, <1>9 DEF Launch, Signal, InsertError, InsertAmbiguous, Inserting, StartBackoff,
                      Retry, Woken, TypeOK
  <2>3. \A p \in Partitions : start[p] <= start'[p] /\ start'[p] <= Len(log'[p]) /\ Len(log[p]) <= Len(log'[p])
    BY <1>3, <2>1
  <2> QED BY <1>1, <1>2, <2>1, <2>2, <2>3, FrameInv
<1>10. ASSUME NEW m \in Members,
              \/ Crash(m) \/ Exit(m) \/ FetchBadHeader(m)
              \/ \E p \in Partitions : OffsetOutOfRange(m, p)
       PROVE  ConsumerInv'
  <2>1. Leave(m)
    BY <1>10 DEF Crash, Exit, FetchBadHeader, OffsetOutOfRange
  <2> QED BY <1>1, <1>2, <2>1, LeaveInv
<1>11. ASSUME NEW m \in Members, NEW p \in Partitions, SeekToBeginning(m, p) PROVE ConsumerInv'
  BY <1>1, <1>2, <1>11, SeekInv
<1>12. ASSUME NEW m \in Members, Fetch(m) PROVE ConsumerInv'
  BY <1>1, <1>2, <1>12, FetchInv
<1>13. ASSUME NEW m \in Members, SendPoison(m) PROVE ConsumerInv'
  BY <1>1, <1>2, <1>13, SendPoisonInv
<1>14. ASSUME NEW m \in Members, InsertOk(m) PROVE ConsumerInv'
  BY <1>1, <1>2, <1>14, InsertOkInv
<1>15. ASSUME NEW m \in Members, Commit(m) PROVE ConsumerInv'
  BY <1>1, <1>2, <1>15, CommitInv
<1>16. CASE UNCHANGED vars
  <2>1. UNCHANGED <<log, start, committed, owner, position, rows, poison, origin, pc>>
    BY <1>16 DEF vars, brokerVars, groupVars, batchVars
  <2>2. \A p \in Partitions : start[p] <= start'[p] /\ start'[p] <= Len(log'[p]) /\ Len(log[p]) <= Len(log'[p])
    BY <1>3, <2>1
  <2> QED BY <1>1, <1>2, <2>1, <2>2, FrameInv
<1> QED
  BY <1>4, <1>5, <1>6, <1>7, <1>8, <1>9, <1>10, <1>11, <1>12, <1>13, <1>14, <1>15, <1>16
     DEF Next

THEOREM InvariantHolds == Spec => []ConsumerInv
BY InvInit, InvNext, PTL DEF Spec

(* At-least-once delivery for any group size, number of partitions, batch  *)
(* size and message mix, through crashes, rebalances, retries, retention   *)
(* and offset expiry (consumer.py:3-7, ADR 0004).                          *)
THEOREM AtLeastOnce == Spec => []CommittedIsHandled
BY InvariantHolds, PTL DEF ConsumerInv

(* A message once read is never dropped: it is handled, or its partition's *)
(* owner still has it in hand (consumer.py:87-111, 186-199).               *)
THEOREM NothingDropped == Spec => []ReadIsHandledOrInHand
BY InvariantHolds, PTL DEF ConsumerInv

(* At the top of the loop everything read is committed, so a graceful stop *)
(* repeats nothing (consumer.py:163, 203).                                 *)
THEOREM GracefulStopIsClean == Spec => []BetweenBatchesAllCommitted
BY InvariantHolds, PTL DEF ConsumerInv

(* Only a commit and the expiry of an empty group's offsets move them.     *)
LEMMA CommittedMoves ==
  [Next]_vars => \/ committed' = committed
                 \/ ExpireOffsets
                 \/ \E m \in Members : Commit(m)
BY DEF Next, vars, brokerVars, Produce, Trim, ResolvePosition, RebalanceDue,
       RebalanceAgain, Assign, Launch, Signal, Crash, Exit, Leave, SeekToBeginning,
       OffsetOutOfRange, Fetch, FetchBadHeader, SendPoison, InsertOk, InsertError,
       InsertAmbiguous, StartBackoff, Retry

(* The group's offsets never move back while the broker remembers them,    *)
(* although a member may commit long after it lost and regained a          *)
(* partition in a rebalance (consumer.py:203).                             *)
THEOREM CommitsAreMonotone == Spec => CommitNeverRegresses
<1>1. ASSUME ConsumerInv, [Next]_vars, NEW p \in Partitions
      PROVE  committed'[p] >= committed[p] \/ (committed'[p] = None /\ Up = {})
  <2>1. committed[p] \in Int /\ position[p] \in Int
    BY <1>1, ConsumerAssumption DEF ConsumerInv, TypeOK, None
  <2>2. CASE committed' = committed
    BY <2>1, <2>2
  <2>3. CASE ExpireOffsets
    BY <2>3 DEF ExpireOffsets
  <2>4. ASSUME NEW m \in Members, Commit(m)
        PROVE  committed'[p] >= committed[p]
    <3>1. committed'[p] = IF owner[p] = m /\ position[p] # None THEN position[p] ELSE committed[p]
      BY <2>4 DEF Commit, CommitOf
    <3> QED BY <1>1, <2>1, <3>1 DEF ConsumerInv, OffsetsOrdered
  <2> QED BY <1>1, <2>2, <2>3, <2>4, CommittedMoves
<1>2. ConsumerInv /\ [Next]_vars =>
        [\A p \in Partitions :
           committed'[p] >= committed[p] \/ (committed'[p] = None /\ Up = {})]_vars
  BY <1>1
<1> QED BY <1>2, InvariantHolds, PTL DEF Spec, CommitNeverRegresses
-----------------------------------------------------------------------------
(* The refinement: what the abstract group has sent and done.              *)
Sent == {msg \in Message : Written(msg)}
Done == {msg \in Message : Handled(msg)}

LEMMA SentAndDone ==
  ASSUME ConsumerInv, [Next]_vars
  PROVE  Sent \subseteq Sent' /\ Done \subseteq Done' /\ Done' \subseteq Sent'
BY NothingUndone DEF ConsumerInv, Sent, Done, LogKept, StaysHandled, Handled

(* Writing a message handles nothing: it is in no sink yet. *)
LEMMA WritingHandlesNothing ==
  ASSUME ConsumerInv, NEW p \in Partitions, NEW c \in Classes, Produce(p, c)
  PROVE  Done' = Done
<1>1. ASSUME NEW msg \in Message PROVE Handled(msg)' <=> Handled(msg)
  <2>1. LogKept(msg) /\ UNCHANGED <<stored, dead>>
    BY AppendKeeps DEF ConsumerInv, Produce, sinkVars
  <2>2. CASE Written(msg)
    BY <2>1, <2>2 DEF LogKept, Handled
  <2>3. CASE ~Written(msg)
    BY <2>1, <2>3 DEF Handled, ConsumerInv, SinksWritten
  <2> QED BY <2>2, <2>3
<1> QED BY <1>1 DEF Done

(* What a commit and a seek are for the abstract group. *)
LEMMA CommitAcknowledges ==
  ASSUME ConsumerInv, ConsumerInv', NEW m \in Members, Commit(m)
  PROVE  Delivery!Acknowledge
<1>1. UNCHANGED <<Sent, Done, origin>>
  BY DEF Commit, Sent, Done, Handled, Written, ClassOf, sinkVars
<1>2. committed' \in [Partitions -> (0 .. MaxOffset) \cup {-1}]
  BY ConsumerAssumption, SMTT(30) DEF ConsumerInv, TypeOK, None
<1>3. ASSUME NEW p \in Partitions
      PROVE  /\ committed'[p] >= committed[p]
             /\ \A n \in 0 .. MaxOffset :
                  origin[p] <= n /\ n < committed'[p] => <<p, n>> \in Done
  <2>1. /\ committed[p] \in Int /\ position[p] \in Int
        /\ committed'[p] \in -1 .. MaxOffset /\ origin[p] \in 0 .. MaxOffset
    BY ConsumerAssumption DEF ConsumerInv, TypeOK, None
  <2>2. committed'[p] = IF owner[p] = m /\ position[p] # None THEN position[p] ELSE committed[p]
    BY DEF Commit, CommitOf
  <2>3. committed'[p] >= committed[p]
    BY <2>1, <2>2 DEF ConsumerInv, OffsetsOrdered
  <2>4. ASSUME NEW n \in 0 .. MaxOffset, origin[p] <= n, n < committed'[p]
        PROVE  <<p, n>> \in Done
    <3>1. <<p, n>> \in Message
      BY <2>1, <2>4, ConsumerAssumption DEF Message, Offsets
    <3>2. Handled(<<p, n>>)'
      BY <3>1, <2>4, <1>1 DEF ConsumerInv, CommittedIsHandled
    <3> QED BY <3>1, <3>2, <1>1 DEF Done
  <2> QED BY <2>3, <2>4
<1> QED BY <1>1, <1>2, <1>3 DEF Delivery!Acknowledge, Sent, Done

LEMMA SeekBegins ==
  ASSUME ConsumerInv, NEW m \in Members, NEW p \in Partitions, SeekToBeginning(m, p)
  PROVE  Delivery!Begin
<1>1. UNCHANGED <<Sent, Done, committed>>
  BY DEF SeekToBeginning, Sent, Done, Handled, Written, ClassOf, brokerVars, sinkVars
<1>2. /\ committed[p] = -1 /\ start[p] \in 0 .. MaxOffset /\ start[p] >= origin[p]
      /\ origin' = [origin EXCEPT ![p] = start[p]]
  BY DEF SeekToBeginning, ConsumerInv, TypeOK, OffsetsOrdered, None
<1> QED BY <1>1, <1>2 DEF Delivery!Begin, Sent, Done

(* All other steps change neither the offsets nor where reading began.     *)
LEMMA OffsetMoves ==
  [Next]_vars =>
    \/ \E p \in Partitions, c \in Classes : Produce(p, c)
    \/ ExpireOffsets
    \/ \E m \in Members : Commit(m)
    \/ \E m \in Members, p \in Partitions : SeekToBeginning(m, p)
    \/ UNCHANGED <<log, committed, origin>>
BY DEF Next, vars, brokerVars, Trim, ResolvePosition, RebalanceDue, RebalanceAgain, Assign,
       Launch, Signal, Crash, Exit, Leave, OffsetOutOfRange, Fetch, FetchBadHeader, SendPoison,
       InsertOk, InsertError, InsertAmbiguous, StartBackoff, Retry

LEMMA StepRefines ==
  ASSUME ConsumerInv, ConsumerInv', [Next]_vars
  PROVE  [Delivery!Next]_Delivery!avars
<1>1. Sent \subseteq Sent' /\ Done \subseteq Done' /\ Done' \subseteq Sent'
  BY SentAndDone
<1>2. ASSUME NEW p \in Partitions, NEW c \in Classes, Produce(p, c)
      PROVE  Delivery!Send
  <2>1. Done' = Done /\ UNCHANGED <<committed, origin>>
    BY <1>2, WritingHandlesNothing DEF Produce
  <2>2. Sent' \subseteq Partitions \X (0 .. MaxOffset)
    BY ConsumerAssumption DEF Sent, Message, Offsets
  <2> QED BY <1>1, <2>1, <2>2 DEF Delivery!Send, Sent, Done
<1>3. CASE ExpireOffsets
  <2>1. UNCHANGED <<Sent, Done, origin>>
    BY <1>3 DEF ExpireOffsets, Sent, Done, Handled, Written, ClassOf, sinkVars
  <2>2. committed' = [s \in Partitions |-> -1]
    BY <1>3 DEF ExpireOffsets, None
  <2>3. Delivery!Forget
    BY <2>1, <2>2 DEF Delivery!Forget, Sent, Done
  <2> QED BY <2>3 DEF Delivery!Next
<1>4. ASSUME NEW m \in Members, Commit(m) PROVE Delivery!Acknowledge
  BY <1>4, CommitAcknowledges
<1>5. ASSUME NEW m \in Members, NEW p \in Partitions, SeekToBeginning(m, p)
      PROVE  Delivery!Begin
  BY <1>5, SeekBegins
<1>6. CASE UNCHANGED <<log, committed, origin>>
  <2>1. Sent' = Sent
    BY <1>6 DEF Sent, Written
  <2>2. Done \subseteq Done' /\ Done' \subseteq Sent
    BY <1>1, <2>1
  <2>3. UNCHANGED <<Sent, committed, origin>>
    BY <1>6, <2>1
  <2>4. Delivery!Process
    BY <2>2, <2>3 DEF Delivery!Process, Sent, Done
  <2> QED BY <2>4 DEF Delivery!Next
<1> QED BY <1>2, <1>3, <1>4, <1>5, <1>6, OffsetMoves DEF Delivery!Next

(* pulse-consumer keeps the promise of AtLeastOnceDelivery: offsets are    *)
(* acknowledgements that only ever cover messages already in ClickHouse or *)
(* in the DLQ (consumer.py:199-203, ADR 0004:17-19).                       *)
THEOREM RefinesAtLeastOnce == Spec => ImplementsAtLeastOnce
<1>1. Init => Delivery!Init
  <2> SUFFICES ASSUME Init PROVE Delivery!Init
    OBVIOUS
  <2>1. ASSUME NEW msg \in Message PROVE ~Written(msg)
    BY MessageShape, ConsumerAssumption DEF Init, Written, Offsets
  <2> QED BY <2>1 DEF Init, Delivery!Init, Handled, None
<1>2. ConsumerInv /\ ConsumerInv' /\ [Next]_vars => [Delivery!Next]_Delivery!avars
  BY StepRefines
<1> QED BY <1>1, <1>2, InvariantHolds, PTL
        DEF Spec, ImplementsAtLeastOnce, Delivery!Spec
-----------------------------------------------------------------------------
(* Duplicates. Fresh and Passed say of one message what FreshIsInFlight    *)
(* and StoredIsPassed say of all.                                          *)

Fresh(m, msg) == /\ owner[msg[1]] = m
                 /\ committed[msg[1]] <= msg[2] /\ origin[msg[1]] <= msg[2]
                 /\ msg[2] < position[msg[1]]
                 /\ msg \notin stored

Passed(msg) == \/ msg[2] < committed[msg[1]]
               \/ origin[msg[1]] <= msg[2] /\ msg[2] < position[msg[1]]

ExposureOfEach ==
  /\ \A m \in Members : \A msg \in rows[m] : msg \in exposed \/ Fresh(m, msg)
  /\ \A msg \in stored : msg \in exposed \/ Passed(msg)
  /\ duplicated \subseteq exposed

(* What the comparisons are between.                                       *)
LEMMA OffsetsAreIntegers ==
  ASSUME TypeOK, NEW msg \in Message
  PROVE  /\ msg[1] \in Partitions /\ msg[2] \in Nat
         /\ committed[msg[1]] \in Int /\ origin[msg[1]] \in Int /\ position[msg[1]] \in Int
BY MessageShape, ConsumerAssumption DEF TypeOK, None, Offsets

LEMMA ExposureUnfolds ==
  ASSUME TypeOK
  PROVE  ExposureInv <=> ExposureOfEach
<1>1. ASSUME NEW msg \in Message, NEW P
      PROVE  msg \in InFlight(P) <=> /\ msg[1] \in P
                                     /\ committed[msg[1]] <= msg[2] /\ origin[msg[1]] <= msg[2]
                                     /\ msg[2] < position[msg[1]]
  BY OffsetsAreIntegers DEF InFlight, Larger
<1>2. \A m \in Members : rows[m] \subseteq Message BY DEF TypeOK
<1>3. FreshIsInFlight <=>
        \A m \in Members : \A msg \in rows[m] : msg \in exposed \/ Fresh(m, msg)
  <2>1. ASSUME NEW m \in Members, NEW msg \in rows[m]
        PROVE  msg \in InFlight(Owned(m)) \ stored <=> Fresh(m, msg)
    <3>1. msg \in Message BY <1>2
    <3>2. msg[1] \in Owned(m) <=> owner[msg[1]] = m BY <3>1, OffsetsAreIntegers DEF Owned
    <3> QED BY <1>1, <3>1, <3>2 DEF Fresh
  <2> QED BY <2>1 DEF FreshIsInFlight
<1>4. StoredIsPassed <=> \A msg \in stored : msg \in exposed \/ Passed(msg)
  <2>1. ASSUME NEW msg \in stored
        PROVE  (msg[2] < committed[msg[1]] \/ msg \in InFlight(Partitions)) <=> Passed(msg)
    <3>1. msg \in Message BY DEF TypeOK
    <3> QED BY <1>1, <3>1, OffsetsAreIntegers DEF Passed
  <2> QED BY <2>1 DEF StoredIsPassed
<1> QED BY <1>3, <1>4 DEF ExposureInv, ExposureOfEach, DuplicatesOnlyExposed

LEMMA ExposureUnfoldsNext ==
  ASSUME TypeOK'
  PROVE  ExposureInv' <=> ExposureOfEach'
<1>0. ASSUME NEW msg \in Message
      PROVE  /\ msg[1] \in Partitions /\ msg[2] \in Nat /\ committed'[msg[1]] \in Int
             /\ origin'[msg[1]] \in Int /\ position'[msg[1]] \in Int
  BY MessageShape, ConsumerAssumption DEF TypeOK, None, Offsets
<1>1. ASSUME NEW msg \in Message, NEW P
      PROVE  msg \in InFlight(P)' <=> /\ msg[1] \in P
                                      /\ committed'[msg[1]] <= msg[2] /\ origin'[msg[1]] <= msg[2]
                                      /\ msg[2] < position'[msg[1]]
  BY <1>0 DEF InFlight, Larger
<1>2. \A m \in Members : rows'[m] \subseteq Message BY DEF TypeOK
<1>3. FreshIsInFlight' <=>
        \A m \in Members : \A msg \in rows'[m] : msg \in exposed' \/ Fresh(m, msg)'
  <2>1. ASSUME NEW m \in Members, NEW msg \in rows'[m]
        PROVE  msg \in InFlight(Owned(m))' \ stored' <=> Fresh(m, msg)'
    <3>1. msg \in Message BY <1>2
    <3>2. msg \in InFlight(Owned(m))'
            <=> /\ msg[1] \in Owned(m)'
                /\ committed'[msg[1]] <= msg[2] /\ origin'[msg[1]] <= msg[2]
                /\ msg[2] < position'[msg[1]]
      BY <3>1, <1>0 DEF InFlight, Larger
    <3> QED BY <1>0, <3>1, <3>2 DEF Fresh, Owned
  <2> QED BY <2>1 DEF FreshIsInFlight
<1>4. StoredIsPassed' <=> \A msg \in stored' : msg \in exposed' \/ Passed(msg)'
  <2>1. ASSUME NEW msg \in stored'
        PROVE  (msg[2] < committed'[msg[1]] \/ msg \in InFlight(Partitions)') <=> Passed(msg)'
    <3>1. msg \in Message BY DEF TypeOK
    <3> QED BY <1>0, <1>1, <3>1 DEF Passed
  <2> QED BY <2>1 DEF StoredIsPassed
<1> QED BY <1>3, <1>4 DEF ExposureInv, ExposureOfEach, DuplicatesOnlyExposed

LEMMA ExposureInit == Init => ExposureInv
<1> SUFFICES ASSUME Init PROVE ExposureInv OBVIOUS
<1>1. TypeOK BY TypeInit
<1>2. ExposureOfEach BY DEF Init, ExposureOfEach
<1> QED BY <1>1, <1>2, ExposureUnfolds

(* Steps that move no offset and nothing a member holds or has stored.     *)
LEMMA ExposureFrame ==
  ASSUME ExposureOfEach,
         UNCHANGED <<committed, owner, position, rows, stored, duplicated, origin, exposed>>
  PROVE  ExposureOfEach'
BY DEF ExposureOfEach, Fresh, Passed

(* A position that was unknown is one with nothing uncommitted behind it.  *)
LEMMA ExposureResolve ==
  ASSUME TypeOK, ExposureOfEach, NEW p \in Partitions, ResolvePosition(p)
  PROVE  ExposureOfEach'
<1> USE DEF ResolvePosition, brokerVars, batchVars, retryVars, sinkVars
<1>1. \A q \in Partitions : position'[q] = IF q = p THEN committed[p] ELSE position[q]
  BY DEF TypeOK
<1>2. position[p] = -1 BY DEF None
<1>3. ASSUME NEW m \in Members, NEW msg \in rows[m], Fresh(m, msg) PROVE Fresh(m, msg)'
  <2>1. msg \in Message BY DEF TypeOK
  <2>2. msg[1] # p BY <1>2, <1>3, <2>1, OffsetsAreIntegers DEF Fresh
  <2> QED BY <1>1, <1>3, <2>1, <2>2, OffsetsAreIntegers DEF Fresh
<1>4. ASSUME NEW msg \in stored, Passed(msg) PROVE Passed(msg)'
  <2>1. msg \in Message BY DEF TypeOK
  <2>2. CASE msg[1] = p
    BY <1>2, <1>4, <2>1, <2>2, OffsetsAreIntegers DEF Passed
  <2>3. CASE msg[1] # p
    BY <1>1, <1>4, <2>1, <2>3, OffsetsAreIntegers DEF Passed
  <2> QED BY <2>2, <2>3
<1> QED BY <1>3, <1>4 DEF ExposureOfEach

(* What the group forgets is stored, and exposed as a whole.               *)
LEMMA ExposureExpire ==
  ASSUME ConsumerInv, ExposureOfEach, ExpireOffsets
  PROVE  ExposureOfEach'
<1> USE DEF ExpireOffsets, groupVars, batchVars, retryVars, sinkVars
<1>1. \A m \in Members : rows[m] = {}
  BY DEF Up, ConsumerInv, TypeOK, MembersShape
<1>2. duplicated' \subseteq exposed' BY DEF ExposureOfEach
<1> QED BY <1>1, <1>2 DEF ExposureOfEach

(* A rebalance and the end of a process expose what they take from flight. *)
LEMMA ExposureLanding ==
  ASSUME TypeOK, ExposureOfEach, NEW P \in SUBSET Partitions,
         exposed' = exposed \cup InFlight(P),
         UNCHANGED <<committed, stored, duplicated, origin>>,
         \A p \in Partitions \ P : owner'[p] = owner[p] /\ position'[p] = position[p],
         \A m \in Members : rows'[m] \subseteq rows[m]
  PROVE  ExposureOfEach'
<1>1. ASSUME NEW msg \in Message, msg \notin exposed'
      PROVE  ~(/\ msg[1] \in P /\ committed[msg[1]] <= msg[2] /\ origin[msg[1]] <= msg[2]
               /\ msg[2] < position[msg[1]])
  BY <1>1, OffsetsAreIntegers DEF InFlight, Larger
<1>2. ASSUME NEW m \in Members, NEW msg \in rows'[m], msg \notin exposed'
      PROVE  Fresh(m, msg)'
  <2>1. msg \in rows[m] /\ msg \in Message /\ msg \notin exposed BY <1>2 DEF TypeOK
  <2>2. Fresh(m, msg) BY <2>1 DEF ExposureOfEach
  <2>3. msg[1] \in Partitions \ P BY <1>1, <1>2, <2>1, <2>2, OffsetsAreIntegers DEF Fresh
  <2> QED BY <2>2, <2>3 DEF Fresh
<1>3. ASSUME NEW msg \in stored, msg \notin exposed' PROVE Passed(msg)'
  <2>1. msg \in Message /\ msg \notin exposed BY <1>3 DEF TypeOK
  <2>2. Passed(msg) BY <2>1 DEF ExposureOfEach
  <2>3. CASE msg[2] < committed[msg[1]] BY <2>3 DEF Passed
  <2>4. CASE ~(msg[2] < committed[msg[1]])
    <3>1. committed[msg[1]] <= msg[2] BY <2>1, <2>4, OffsetsAreIntegers
    <3>2. origin[msg[1]] <= msg[2] /\ msg[2] < position[msg[1]] BY <2>2, <2>4 DEF Passed
    <3>3. msg[1] \in Partitions \ P BY <1>1, <1>3, <2>1, <3>1, <3>2, OffsetsAreIntegers
    <3> QED BY <3>2, <3>3 DEF Passed
  <2> QED BY <2>3, <2>4
<1>4. duplicated' \subseteq exposed' BY DEF ExposureOfEach
<1> QED BY <1>2, <1>3, <1>4 DEF ExposureOfEach

LEMMA ExposureAssign ==
  ASSUME TypeOK, ExposureOfEach, NEW f, Assign(f)
  PROVE  ExposureOfEach'
BY ExposureLanding DEF Assign, brokerVars, batchVars, sinkVars

LEMMA ExposureLeave ==
  ASSUME TypeOK, ExposureOfEach, NEW m \in Members, Leave(m)
  PROVE  ExposureOfEach'
<1> USE DEF Leave, brokerVars, sinkVars
<1>1. Owned(m) \in SUBSET Partitions BY DEF Owned
<1>2. \A p \in Partitions \ Owned(m) : owner'[p] = owner[p] /\ position'[p] = position[p]
  BY DEF Owned
<1>3. \A n \in Members : rows'[n] \subseteq rows[n] BY DEF TypeOK
<1>4. exposed' = exposed \cup InFlight(Owned(m))
      /\ UNCHANGED <<committed, stored, duplicated, origin>>
  OBVIOUS
<1> HIDE DEF Leave
<1> QED BY <1>1, <1>2, <1>3, <1>4, ExposureLanding

(* Nothing of a partition without offset and position is behind either.    *)
LEMMA ExposureSeek ==
  ASSUME TypeOK, ExposureOfEach, NEW m \in Members, NEW p \in Partitions,
         SeekToBeginning(m, p)
  PROVE  ExposureOfEach'
<1> USE DEF SeekToBeginning, brokerVars, batchVars, retryVars, sinkVars
<1>1. \A q \in Partitions \ {p} : position'[q] = position[q] /\ origin'[q] = origin[q]
  BY DEF TypeOK
<1>2. position[p] = -1 /\ committed[p] = -1 BY DEF None
<1>3. ASSUME NEW n \in Members, NEW msg \in rows[n], Fresh(n, msg) PROVE Fresh(n, msg)'
  <2>1. msg \in Message BY DEF TypeOK
  <2>2. msg[1] \in Partitions \ {p} BY <1>2, <1>3, <2>1, OffsetsAreIntegers DEF Fresh
  <2> QED BY <1>1, <1>3, <2>2 DEF Fresh
<1>4. ASSUME NEW msg \in stored, Passed(msg) PROVE Passed(msg)'
  <2>1. msg \in Message BY DEF TypeOK
  <2>2. msg[1] \in Partitions \ {p} BY <1>2, <1>4, <2>1, OffsetsAreIntegers DEF Passed
  <2> QED BY <1>1, <1>4, <2>2 DEF Passed
<1> QED BY <1>3, <1>4 DEF ExposureOfEach

(* A fetch takes what is behind no position, so nothing stored: unless it  *)
(* is exposed, it was never inserted.                                      *)
LEMMA ExposureFetch ==
  ASSUME ConsumerInv, ExposureOfEach, NEW m \in Members, Fetch(m)
  PROVE  ExposureOfEach'
<1> USE DEF brokerVars, retryVars, sinkVars
<1>1. PICK upTo \in [Partitions -> None .. MaxOffset] : Fetch(m)!(upTo)
  BY DEF Fetch
<1>2. TypeOK /\ MembersShape /\ OffsetsOrdered BY DEF ConsumerInv
<1>3. /\ position' = upTo
      /\ UNCHANGED <<committed, owner, origin, stored, duplicated, exposed>>
  BY <1>1
<1>4. \A q \in Partitions :
        /\ position[q] \in Int /\ upTo[q] \in Int
        /\ position[q] <= upTo[q]
  <2> TAKE q \in Partitions
  <2>1. position[q] \in Int /\ upTo[q] \in Int BY <1>2, ConsumerAssumption DEF TypeOK, None
  <2> QED BY <1>1, <2>1 DEF IsFetch
<1>5. rows'[m] \subseteq Taken(m, upTo) BY <1>1, <1>2 DEF TypeOK
<1>6. \A n \in Members \ {m} : rows'[n] = rows[n] BY <1>1, <1>2 DEF TypeOK
<1>7. ASSUME NEW msg \in Taken(m, upTo), msg \notin exposed PROVE Fresh(m, msg)'
  <2>1. msg \in Message /\ owner[msg[1]] = m /\ position[msg[1]] >= start[msg[1]]
    BY <1>7 DEF Taken, Readable, Owned
  <2>2. position[msg[1]] <= msg[2] /\ msg[2] < upTo[msg[1]] BY <1>7 DEF Taken
  <2>3. start[msg[1]] \in Nat BY <1>2, <2>1, OffsetsAreIntegers DEF TypeOK
  <2>4. position[msg[1]] # None BY <1>2, <2>1, <2>3, OffsetsAreIntegers DEF None
  <2>5. committed[msg[1]] <= position[msg[1]] /\ origin[msg[1]] <= position[msg[1]]
    BY <1>2, <2>1, <2>4, OffsetsAreIntegers DEF OffsetsOrdered
  <2>6. committed[msg[1]] <= msg[2] /\ origin[msg[1]] <= msg[2]
    BY <1>2, <2>1, <2>2, <2>5, OffsetsAreIntegers
  <2>7. msg \notin stored
    <3> SUFFICES ASSUME msg \in stored PROVE FALSE OBVIOUS
    <3>1. Passed(msg) BY <1>7 DEF ExposureOfEach
    <3> QED BY <1>2, <2>1, <2>2, <2>6, <3>1, OffsetsAreIntegers DEF Passed
  <2> QED BY <1>3, <2>1, <2>2, <2>6, <2>7 DEF Fresh
<1>8. ASSUME NEW n \in Members, NEW msg \in rows[n], Fresh(n, msg) PROVE Fresh(n, msg)'
  <2>1. msg \in Message BY <1>2 DEF TypeOK
  <2>2. msg[2] < upTo[msg[1]] BY <1>2, <1>4, <1>8, <2>1, OffsetsAreIntegers DEF Fresh
  <2> QED BY <1>3, <1>8, <2>2 DEF Fresh
<1>9. ASSUME NEW msg \in stored, Passed(msg) PROVE Passed(msg)'
  <2>1. msg \in Message BY <1>2 DEF TypeOK
  <2>2. msg[2] < position[msg[1]] => msg[2] < upTo[msg[1]]
    BY <1>2, <1>4, <2>1, OffsetsAreIntegers
  <2> QED BY <1>3, <1>9, <2>2 DEF Passed
<1> QED BY <1>3, <1>5, <1>6, <1>7, <1>8, <1>9 DEF ExposureOfEach

(* An insert, with an answer or without: what it stores twice is exposed,  *)
(* what it stores first is behind the position of its owner.               *)
LEMMA ExposureStore ==
  ASSUME TypeOK, ExposureOfEach, NEW m \in Members, Store(m),
         UNCHANGED <<committed, owner, position, origin>>,
         exposed \subseteq exposed',
         \/ rows'[m] = {}
         \/ rows'[m] = rows[m] /\ rows[m] \subseteq exposed',
         \A n \in Members \ {m} : rows'[n] = rows[n]
  PROVE  ExposureOfEach'
<1> USE DEF Store
<1>1. ASSUME NEW msg \in rows[m] PROVE msg \in exposed \/ Fresh(m, msg)
  BY DEF ExposureOfEach
<1>2. ASSUME NEW n \in Members \ {m}, NEW msg \in rows[n], msg \notin exposed'
      PROVE  Fresh(n, msg)'
  <2>1. Fresh(n, msg) BY <1>2 DEF ExposureOfEach
  <2>2. msg \notin rows[m] BY <1>1, <1>2, <2>1 DEF Fresh
  <2> QED BY <2>1, <2>2 DEF Fresh
<1>3. ASSUME NEW msg \in stored', msg \notin exposed' PROVE Passed(msg)'
  <2>1. CASE msg \in stored BY <1>3, <2>1 DEF ExposureOfEach, Passed
  <2>2. CASE msg \in rows[m]
    <3>1. Fresh(m, msg) BY <1>1, <1>3, <2>2
    <3> QED BY <3>1 DEF Fresh, Passed
  <2> QED BY <1>3, <2>1, <2>2
<1>4. stored \cap rows[m] \subseteq exposed BY <1>1 DEF Fresh
<1>5. duplicated' \subseteq exposed' BY <1>4 DEF ExposureOfEach
<1> QED BY <1>2, <1>3, <1>5 DEF ExposureOfEach

(* A commit moves the offset to the position: what was in flight is passed *)
(* for good, and the member that commits holds no row.                     *)
LEMMA ExposureCommit ==
  ASSUME ConsumerInv, ExposureOfEach, NEW m \in Members, Commit(m)
  PROVE  ExposureOfEach'
<1> USE DEF Commit, groupVars, batchVars, sinkVars
<1>1. TypeOK /\ OffsetsOrdered BY DEF ConsumerInv
<1>2. \A p \in Partitions :
        committed'[p] = IF owner[p] = m /\ position[p] # None THEN position[p] ELSE committed[p]
  BY DEF CommitOf
<1>3. ASSUME NEW n \in Members, NEW msg \in rows[n], Fresh(n, msg) PROVE Fresh(n, msg)'
  <2>1. msg \in Message BY <1>1 DEF TypeOK
  <2>2. n # m BY <1>3 DEF BatchDone
  <2>3. committed'[msg[1]] = committed[msg[1]]
    BY <1>2, <1>1, <1>3, <2>1, <2>2, OffsetsAreIntegers DEF Fresh
  <2> QED BY <1>3, <2>3 DEF Fresh
<1>4. ASSUME NEW msg \in stored, Passed(msg) PROVE Passed(msg)'
  <2>1. msg \in Message BY <1>1 DEF TypeOK
  <2>2. committed'[msg[1]] >= committed[msg[1]] /\ committed'[msg[1]] \in Int
    BY <1>1, <1>2, <2>1, OffsetsAreIntegers DEF OffsetsOrdered
  <2> QED BY <1>1, <1>4, <2>1, <2>2, OffsetsAreIntegers DEF Passed
<1> QED BY <1>3, <1>4 DEF ExposureOfEach

LEMMA ExposureNext == ConsumerInv /\ ExposureInv /\ [Next]_vars => ExposureInv'
<1> SUFFICES ASSUME ConsumerInv, ExposureInv, [Next]_vars PROVE ExposureInv' OBVIOUS
<1>1. TypeOK /\ TypeOK' BY TypeNext DEF ConsumerInv
<1>2. ExposureOfEach BY <1>1, ExposureUnfolds
<1> SUFFICES ExposureOfEach' BY <1>1, ExposureUnfoldsNext
<1>3. ASSUME NEW p \in Partitions, NEW c \in Classes, Produce(p, c) PROVE ExposureOfEach'
  BY <1>2, <1>3, ExposureFrame DEF Produce, groupVars, batchVars, sinkVars
<1>4. ASSUME NEW p \in Partitions, Trim(p) PROVE ExposureOfEach'
  BY <1>2, <1>4, ExposureFrame DEF Trim, groupVars, batchVars, sinkVars
<1>5. ASSUME NEW p \in Partitions, ResolvePosition(p) PROVE ExposureOfEach'
  BY <1>1, <1>2, <1>5, ExposureResolve
<1>6. CASE ExpireOffsets BY <1>2, <1>6, ExposureExpire
<1>7. CASE RebalanceDue \/ RebalanceAgain
  BY <1>1, <1>2, <1>7, ExposureAssign DEF RebalanceDue, RebalanceAgain
<1>8. ASSUME NEW m \in Members, Launch(m) \/ Signal(m) \/ SendPoison(m) \/ Retry(m)
      PROVE  ExposureOfEach'
  <2>1. UNCHANGED <<committed, owner, position, rows, stored, duplicated, origin, exposed>>
    BY <1>8 DEF Launch, Signal, SendPoison, Retry, brokerVars, groupVars, batchVars, sinkVars
  <2> QED BY <1>2, <2>1, ExposureFrame
<1>9. ASSUME NEW m \in Members, InsertError(m) PROVE ExposureOfEach'
  <2>1. UNCHANGED <<committed, owner, position, rows, stored, duplicated, origin, exposed>>
    BY <1>9 DEF InsertError, StartBackoff, brokerVars, batchVars, sinkVars
  <2> QED BY <1>2, <2>1, ExposureFrame
<1>10. ASSUME NEW m \in Members,
              \/ Crash(m) \/ Exit(m) \/ FetchBadHeader(m)
              \/ \E p \in Partitions : OffsetOutOfRange(m, p)
       PROVE  ExposureOfEach'
  <2>1. Leave(m) BY <1>10 DEF Crash, Exit, FetchBadHeader, OffsetOutOfRange
  <2> QED BY <1>1, <1>2, <2>1, ExposureLeave
<1>11. ASSUME NEW m \in Members, NEW p \in Partitions, SeekToBeginning(m, p)
       PROVE  ExposureOfEach'
  BY <1>1, <1>2, <1>11, ExposureSeek
<1>12. ASSUME NEW m \in Members, Fetch(m) PROVE ExposureOfEach'
  BY <1>2, <1>12, ExposureFetch
<1>13. ASSUME NEW m \in Members, InsertOk(m) PROVE ExposureOfEach'
  <2>1. /\ Store(m) /\ rows' = [rows EXCEPT ![m] = {}]
        /\ UNCHANGED <<committed, owner, position, origin, exposed>>
    BY <1>13 DEF InsertOk, brokerVars
  <2>2. rows'[m] = {} /\ \A n \in Members \ {m} : rows'[n] = rows[n]
    BY <1>1, <2>1 DEF TypeOK
  <2> QED BY <1>1, <1>2, <2>1, <2>2, ExposureStore
<1>14. ASSUME NEW m \in Members, InsertAmbiguous(m) PROVE ExposureOfEach'
  <2>1. /\ Store(m) /\ rows' = rows /\ exposed' = exposed \cup rows[m]
        /\ UNCHANGED <<committed, owner, position, origin>>
    BY <1>14 DEF InsertAmbiguous, StartBackoff, brokerVars, batchVars
  <2> QED BY <1>1, <1>2, <2>1, ExposureStore
<1>15. ASSUME NEW m \in Members, Commit(m) PROVE ExposureOfEach'
  BY <1>2, <1>15, ExposureCommit
<1>16. CASE UNCHANGED vars
  BY <1>2, <1>16, ExposureFrame DEF vars, brokerVars, groupVars, batchVars, sinkVars
<1> QED
  BY <1>3, <1>4, <1>5, <1>6, <1>7, <1>8, <1>9, <1>10, <1>11, <1>12, <1>13, <1>14, <1>15, <1>16
     DEF Next

(* DuplicatesOnlyExposed, for any group and any faults: a row is in the    *)
(* table twice only if a crash, a rebalance, a lost answer or expired      *)
(* offsets left it open whether it was there (consumer.py:88-111, 203).    *)
THEOREM DuplicatesAreExplained == Spec => []DuplicatesOnlyExposed
<1>1. Init => ExposureInv BY ExposureInit
<1>2. ConsumerInv /\ ExposureInv /\ [Next]_vars => ExposureInv' BY ExposureNext
<1>3. ExposureInv => DuplicatesOnlyExposed BY DEF ExposureInv
<1> QED BY <1>1, <1>2, <1>3, InvariantHolds, PTL DEF Spec
=============================================================================
