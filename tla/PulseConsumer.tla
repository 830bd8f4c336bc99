---------------------------- MODULE PulseConsumer ----------------------------
(***************************************************************************)
(* pulse-consumer: the loop getmany -> split -> DLQ -> insert -> commit of *)
(* services/pulse-consumer/consumer/consumer.py, run by a consumer group   *)
(* over the partitions of gh.events, with ClickHouse, the dead-letter      *)
(* topic and the broker around it.                                         *)
(*                                                                         *)
(* A message is a pair <<partition, offset>>; its class says what the code *)
(* does with it:                                                           *)
(*   "valid"       parse_event accepts it and ClickHouse stores it         *)
(*   "poison"      parse_event raises PoisonMessageError                   *)
(*   "unstorable"  parse_event accepts it, the ClickHouse driver rejects   *)
(*                 the whole batch with a ClickHouseError on every attempt *)
(*                 (an id that is negative or wider than 64 bits)          *)
(*   "badHeader"   parse_event would reject it, but a header value is not  *)
(*                 UTF-8 and _producer_link raises before split_valid runs *)
(*                                                                         *)
(* Bounds, for model checking only: MaxOffset (length of a partition),     *)
(* MaxTrim (how far retention may move the log start) and MaxFaults        *)
(* (crashes, signals, voluntary rebalances, ambiguous inserts, expiries).  *)
(***************************************************************************)
EXTENDS Integers, Sequences, FiniteSets

CONSTANTS Members,         (* consumer processes of the group gh-consumer    *)
          Partitions,      (* partitions of gh.events                        *)
          Classes,         (* the message classes the producers may write    *)
          NoMember,        (* "nobody owns this partition"                   *)
          BatchMax,        (* settings.batch_max_records                     *)
          BackoffInitial,  (* settings.backoff_initial_seconds               *)
          BackoffMax,      (* settings.backoff_max_seconds                   *)
          MaxOffset, MaxTrim, MaxFaults

AllClasses == {"valid", "poison", "unstorable", "badHeader"}

ASSUME ConsumerAssumption ==
       /\ NoMember \notin Members
       /\ Classes \subseteq AllClasses
       /\ BatchMax \in Nat \ {0}
       /\ BackoffInitial \in Nat \ {0}
       /\ BackoffMax \in Nat
       /\ BackoffInitial <= BackoffMax
       /\ MaxOffset \in Nat
       /\ MaxTrim \in Nat
       /\ MaxFaults \in Nat

VARIABLES log,           (* log[p]: the classes of the messages of p, in order *)
          start,         (* start[p]: first offset retention has kept          *)
          committed,     (* committed[p]: the group's offset, or None          *)
          owner,         (* owner[p]: the member p is assigned to              *)
          position,      (* position[p]: next offset its owner reads, or None  *)
          paused,        (* partitions paused by their owner                   *)
          pc,            (* where each member is in run()                      *)
          stop,          (* stop_event                                         *)
          rows,          (* valid part of the batch in hand, not yet inserted  *)
          poison,        (* poison part of the batch, not yet in the DLQ       *)
          backpressure,  (* the local `paused` of _insert_with_backpressure    *)
          delay,         (* the local `delay` of _insert_with_backpressure     *)
          stored,        (* messages present in ghpulse.events                 *)
          duplicated,    (* messages present there at least twice              *)
          dead,          (* messages present in gh.events.dlq                  *)
          origin,        (* history: where the last seek_to_beginning landed   *)
          exposed,       (* history: messages whose delivery may be repeated   *)
          faults         (* how much of MaxFaults is spent                     *)

brokerVars == <<log, start, committed>>
groupVars  == <<owner, position, paused>>
batchVars  == <<rows, poison>>
retryVars  == <<backpressure, delay>>
sinkVars   == <<stored, duplicated, dead>>
vars == <<brokerVars, groupVars, pc, stop, batchVars, retryVars, sinkVars,
          origin, exposed, faults>>
-----------------------------------------------------------------------------
Offsets == 0 .. MaxOffset - 1
Message == Partitions \X Offsets

(* No committed offset, or no fetch position yet. *)
None == -1

Written(msg) == msg[2] < Len(log[msg[1]])
ClassOf(msg) == log[msg[1]][msg[2] + 1]

Smaller(x, y) == IF x <= y THEN x ELSE y
Larger(x, y)  == IF x >= y THEN x ELSE y

Up == {m \in Members : pc[m] # "down"}
Owned(m) == {p \in Partitions : owner[p] = m}

(* A message is handled once it is where its class belongs: in ClickHouse  *)
(* when it parses, in the dead-letter topic when it does not.              *)
Handled(msg) == /\ Written(msg)
                /\ IF ClassOf(msg) \in {"poison", "badHeader"}
                   THEN msg \in dead
                   ELSE msg \in stored

(* Read from the partition by its owner, not yet covered by a commit. *)
InFlight(P) == {msg \in Message :
                  /\ msg[1] \in P
                  /\ Larger(committed[msg[1]], origin[msg[1]]) <= msg[2]
                  /\ msg[2] < position[msg[1]]}
-----------------------------------------------------------------------------
(* The broker starts empty and no member of the group runs. *)
Init ==
  /\ log = [p \in Partitions |-> <<>>]
  /\ start = [p \in Partitions |-> 0]
  /\ committed = [p \in Partitions |-> None]
  /\ owner = [p \in Partitions |-> NoMember]
  /\ position = [p \in Partitions |-> None]
  /\ paused = {}
  /\ pc = [m \in Members |-> "down"]
  /\ stop = [m \in Members |-> FALSE]
  /\ rows = [m \in Members |-> {}]
  /\ poison = [m \in Members |-> {}]
  /\ backpressure = [m \in Members |-> FALSE]
  /\ delay = [m \in Members |-> BackoffInitial]
  /\ stored = {} /\ duplicated = {} /\ dead = {}
  /\ origin = [p \in Partitions |-> 0]
  /\ exposed = {}
  /\ faults = 0
-----------------------------------------------------------------------------
(* The broker: appends, retention, expiry of the offsets of an empty group. *)

Produce(p, c) ==
  /\ Len(log[p]) < MaxOffset
  /\ log' = [log EXCEPT ![p] = Append(@, c)]
  /\ UNCHANGED <<start, committed, groupVars, pc, stop, batchVars, retryVars,
                 sinkVars, origin, exposed, faults>>

(* retention.ms removes the oldest message whether or not it was read. *)
Trim(p) ==
  /\ start[p] < Smaller(Len(log[p]), MaxTrim)
  /\ start' = [start EXCEPT ![p] = @ + 1]
  /\ UNCHANGED <<log, committed, groupVars, pc, stop, batchVars, retryVars,
                 sinkVars, origin, exposed, faults>>

(* The broker forgets the offsets of a group that has had no member for    *)
(* its offset retention; everything stored may then be read once more.     *)
ExpireOffsets ==
  /\ Up = {}
  /\ faults < MaxFaults
  /\ \E p \in Partitions : committed[p] # None
  /\ committed' = [p \in Partitions |-> None]
  /\ exposed' = exposed \cup stored
  /\ faults' = faults + 1
  /\ UNCHANGED <<log, start, groupVars, pc, stop, batchVars, retryVars,
                 sinkVars, origin>>

(* A (re)assignment by the group coordinator. The eager protocol revokes   *)
(* everything first: positions and pauses of the old assignment are gone,  *)
(* the batch a member holds is not. It is due when a partition has no      *)
(* owner; otherwise (a member joined, or was expelled for not polling) it  *)
(* spends a fault.                                                         *)
Due == \E p \in Partitions : owner[p] = NoMember

Assign(f) ==
  /\ owner' = f
  /\ position' = [p \in Partitions |-> None]
  /\ paused' = {}
  /\ exposed' = exposed \cup InFlight(Partitions)
  /\ UNCHANGED <<brokerVars, pc, stop, batchVars, retryVars, sinkVars, origin>>

RebalanceDue ==
  /\ Due
  /\ \E f \in [Partitions -> Up] : Assign(f)
  /\ UNCHANGED faults

RebalanceAgain ==
  /\ ~Due
  /\ faults < MaxFaults
  /\ \E f \in [Partitions -> Up] : Assign(f)
  /\ faults' = faults + 1
-----------------------------------------------------------------------------
(* A process of the group: start, signal, end. *)

Launch(m) ==
  /\ pc[m] = "down"
  /\ pc' = [pc EXCEPT ![m] = "poll"]
  /\ UNCHANGED <<brokerVars, groupVars, stop, batchVars, retryVars, sinkVars,
                 origin, exposed, faults>>

(* SIGINT or SIGTERM: the handler only sets the event. *)
Signal(m) ==
  /\ pc[m] # "down" /\ ~stop[m]
  /\ faults < MaxFaults
  /\ stop' = [stop EXCEPT ![m] = TRUE]
  /\ faults' = faults + 1
  /\ UNCHANGED <<brokerVars, groupVars, pc, batchVars, retryVars, sinkVars,
                 origin, exposed>>

(* The process is gone: its memory is lost and its partitions are freed. *)
Leave(m) ==
  /\ pc' = [pc EXCEPT ![m] = "down"]
  /\ stop' = [stop EXCEPT ![m] = FALSE]
  /\ rows' = [rows EXCEPT ![m] = {}]
  /\ poison' = [poison EXCEPT ![m] = {}]
  /\ backpressure' = [backpressure EXCEPT ![m] = FALSE]
  /\ delay' = [delay EXCEPT ![m] = BackoffInitial]
  /\ owner' = [p \in Partitions |-> IF owner[p] = m THEN NoMember ELSE owner[p]]
  /\ position' = [p \in Partitions |-> IF owner[p] = m THEN None ELSE position[p]]
  /\ paused' = paused \ Owned(m)
  /\ exposed' = exposed \cup InFlight(Owned(m))
  /\ UNCHANGED <<brokerVars, sinkVars, origin>>

(* SIGKILL, out of memory, or an exception nobody catches (a failed DLQ    *)
(* send, a failed commit): possible wherever the process is.               *)
Crash(m) ==
  /\ pc[m] # "down"
  /\ faults < MaxFaults
  /\ Leave(m)
  /\ faults' = faults + 1

(* `while not stop_event.is_set()`: the flag is read between batches only. *)
Exit(m) ==
  /\ pc[m] = "poll" /\ stop[m]
  /\ Leave(m)
  /\ UNCHANGED faults
-----------------------------------------------------------------------------
(* getmany and what it raises. *)

(* The fetcher's background task takes the committed offset as position. *)
ResolvePosition(p) ==
  /\ owner[p] # NoMember
  /\ position[p] = None /\ committed[p] # None
  /\ position' = [position EXCEPT ![p] = committed[p]]
  /\ UNCHANGED <<brokerVars, owner, paused, pc, stop, batchVars, retryVars,
                 sinkVars, origin, exposed, faults>>

(* NoOffsetForPartitionError: seek_to_beginning and poll again. *)
SeekToBeginning(m, p) ==
  /\ pc[m] = "poll" /\ ~stop[m]
  /\ owner[p] = m
  /\ position[p] = None /\ committed[p] = None
  /\ position' = [position EXCEPT ![p] = start[p]]
  /\ origin' = [origin EXCEPT ![p] = start[p]]
  /\ UNCHANGED <<brokerVars, owner, paused, pc, stop, batchVars, retryVars,
                 sinkVars, exposed, faults>>

(* OffsetOutOfRangeError is not caught: the process ends with an error. *)
OffsetOutOfRange(m, p) ==
  /\ pc[m] = "poll" /\ ~stop[m]
  /\ owner[p] = m
  /\ position[p] # None /\ position[p] < start[p]
  /\ Leave(m)
  /\ UNCHANGED faults

Readable(m) == {p \in Owned(m) \ paused : position[p] >= start[p]}

(* The messages between the positions and upTo, which getmany returns. *)
Taken(m, upTo) == {msg \in Message : /\ msg[1] \in Readable(m)
                                     /\ position[msg[1]] <= msg[2]
                                     /\ msg[2] < upTo[msg[1]]}

IsFetch(m, upTo) ==
  /\ pc[m] = "poll" /\ ~stop[m]
  /\ \A p \in Partitions :
       IF p \in Readable(m) THEN position[p] <= upTo[p] /\ upTo[p] <= Len(log[p])
                            ELSE upTo[p] = position[p]
  /\ Cardinality(Taken(m, upTo)) \in 1 .. BatchMax

(* A batch in hand: getmany moves the positions past it, split_valid sorts *)
(* the messages into rows and poison.                                      *)
Fetch(m) ==
  \E upTo \in [Partitions -> None .. MaxOffset] :
    /\ IsFetch(m, upTo)
    /\ \A msg \in Taken(m, upTo) : ClassOf(msg) # "badHeader"
    /\ position' = upTo
    /\ rows' = [rows EXCEPT ![m] = {msg \in Taken(m, upTo) : ClassOf(msg) # "poison"}]
    /\ poison' = [poison EXCEPT ![m] = {msg \in Taken(m, upTo) : ClassOf(msg) = "poison"}]
    /\ pc' = [pc EXCEPT ![m] = "batch"]
    /\ UNCHANGED <<brokerVars, owner, paused, stop, retryVars, sinkVars,
                   origin, exposed, faults>>

(* The header of one message of the batch does not decode: the exception   *)
(* leaves run() before anything of the batch is handled.                   *)
FetchBadHeader(m) ==
  /\ \E upTo \in [Partitions -> None .. MaxOffset] :
       /\ IsFetch(m, upTo)
       /\ \E msg \in Taken(m, upTo) : ClassOf(msg) = "badHeader"
  /\ Leave(m)
  /\ UNCHANGED faults
-----------------------------------------------------------------------------
(* The batch: every poison message to the DLQ, one acknowledged send after *)
(* the other, then one insert of all rows, then the commit.                *)

SendPoison(m) ==
  /\ pc[m] = "batch"
  /\ \E msg \in poison[m] :
       /\ \A other \in poison[m] : other[1] = msg[1] => msg[2] <= other[2]
       /\ dead' = dead \cup {msg}
       /\ poison' = [poison EXCEPT ![m] = @ \ {msg}]
  /\ UNCHANGED <<brokerVars, groupVars, pc, stop, rows, retryVars, stored,
                 duplicated, origin, exposed, faults>>

Inserting(m) ==
  /\ pc[m] = "batch"
  /\ poison[m] = {} /\ rows[m] # {}

Storable(m) == \A msg \in rows[m] : ClassOf(msg) # "unstorable"

Store(m) ==
  /\ stored' = stored \cup rows[m]
  /\ duplicated' = duplicated \cup (stored \cap rows[m])
  /\ UNCHANGED dead

(* consumer.resume of every partition of the current assignment. *)
ResumeForgotten(m) == paused
Resumed(m) == paused \ Owned(m)

InsertOk(m) ==
  /\ Inserting(m) /\ Storable(m)
  /\ Store(m)
  /\ rows' = [rows EXCEPT ![m] = {}]
  /\ paused' = IF backpressure[m] THEN Resumed(m) ELSE paused
  /\ backpressure' = [backpressure EXCEPT ![m] = FALSE]
  /\ delay' = [delay EXCEPT ![m] = BackoffInitial]
  /\ UNCHANGED <<brokerVars, owner, position, pc, stop, poison, origin,
                 exposed, faults>>

(* The except branch: pause everything once, then sleep. *)
StartBackoff(m) ==
  /\ pc' = [pc EXCEPT ![m] = "sleep"]
  /\ paused' = IF backpressure[m] THEN paused ELSE paused \cup Owned(m)
  /\ backpressure' = [backpressure EXCEPT ![m] = TRUE]
  /\ UNCHANGED <<brokerVars, owner, position, stop, batchVars, delay, origin>>

(* ClickHouse refuses the batch, or cannot be reached. *)
InsertError(m) ==
  /\ Inserting(m)
  /\ StartBackoff(m)
  /\ UNCHANGED <<sinkVars, exposed, faults>>

(* ClickHouse stored the batch but the answer was an error or got lost. *)
InsertAmbiguous(m) ==
  /\ Inserting(m) /\ Storable(m)
  /\ faults < MaxFaults
  /\ Store(m)
  /\ StartBackoff(m)
  /\ exposed' = exposed \cup rows[m]
  /\ faults' = faults + 1

UncappedDelay(d) == 2 * d
NextDelay(d) == Smaller(2 * d, BackoffMax)

(* The sleep ends by itself: the stop event does not interrupt it. *)
WokenUnlessStopping(m) == pc[m] = "sleep" /\ ~stop[m]
Woken(m) == pc[m] = "sleep"

Retry(m) ==
  /\ Woken(m)
  /\ pc' = [pc EXCEPT ![m] = "batch"]
  /\ delay' = [delay EXCEPT ![m] = NextDelay(@)]
  /\ UNCHANGED <<brokerVars, groupVars, stop, batchVars, backpressure,
                 sinkVars, origin, exposed, faults>>

(* Only when nothing of the batch is left to send or to insert. *)
BatchSentOnly(m) == poison[m] = {}
BatchStoredOnly(m) == rows[m] = {}
BatchDone(m) == poison[m] = {} /\ rows[m] = {}

(* commit() without arguments: the positions of the current assignment.    *)
CommitOfLastRead(m, p) == IF owner[p] = m /\ position[p] # None
                          THEN position[p] - 1 ELSE committed[p]
CommitOfUnknown(m, p) == IF owner[p] = m THEN position[p] ELSE committed[p]
CommitOf(m, p) == IF owner[p] = m /\ position[p] # None
                  THEN position[p] ELSE committed[p]

Commit(m) ==
  /\ pc[m] = "batch"
  /\ BatchDone(m)
  /\ committed' = [p \in Partitions |-> CommitOf(m, p)]
  /\ pc' = [pc EXCEPT ![m] = "poll"]
  /\ UNCHANGED <<log, start, groupVars, stop, batchVars, retryVars, sinkVars,
                 origin, exposed, faults>>
-----------------------------------------------------------------------------
Next ==
  \/ \E p \in Partitions, c \in Classes : Produce(p, c)
  \/ \E p \in Partitions : Trim(p) \/ ResolvePosition(p)
  \/ ExpireOffsets
  \/ RebalanceDue
  \/ RebalanceAgain
  \/ \E m \in Members :
       \/ Launch(m) \/ Signal(m) \/ Crash(m) \/ Exit(m)
       \/ \E p \in Partitions : SeekToBeginning(m, p) \/ OffsetOutOfRange(m, p)
       \/ Fetch(m) \/ FetchBadHeader(m)
       \/ SendPoison(m)
       \/ InsertOk(m) \/ InsertError(m) \/ InsertAmbiguous(m)
       \/ Retry(m)
       \/ Commit(m)

Spec == Init /\ [][Next]_vars

(* What the deployment owes the loop: somebody starts a stopped consumer,  *)
(* the coordinator assigns free partitions, the event loop runs whatever   *)
(* is ready, and ClickHouse does not refuse a storable batch for ever.     *)
Fairness ==
  /\ WF_vars(RebalanceDue)
  /\ \A p \in Partitions : WF_vars(ResolvePosition(p))
  /\ \A m \in Members :
       /\ WF_vars(Launch(m))
       /\ WF_vars(Exit(m))
       /\ WF_vars(\E p \in Partitions : SeekToBeginning(m, p))
       /\ WF_vars(Fetch(m))
       /\ WF_vars(SendPoison(m))
       /\ SF_vars(InsertOk(m))
       /\ WF_vars(Retry(m))
       /\ WF_vars(Commit(m))

FairSpec == Spec /\ Fairness
-----------------------------------------------------------------------------
(* Shape of the state; the backoff stays between its start and its cap     *)
(* (consumer.py:88-103), whatever the number of failed attempts.           *)
TypeOK ==
  /\ log \in [Partitions -> Seq(Classes)]
  /\ \A p \in Partitions : Len(log[p]) <= MaxOffset
  /\ start \in [Partitions -> 0 .. MaxOffset]
  /\ committed \in [Partitions -> None .. MaxOffset]
  /\ owner \in [Partitions -> Members \cup {NoMember}]
  /\ position \in [Partitions -> None .. MaxOffset]
  /\ paused \subseteq Partitions
  /\ pc \in [Members -> {"down", "poll", "batch", "sleep"}]
  /\ stop \in [Members -> BOOLEAN]
  /\ rows \in [Members -> SUBSET Message]
  /\ poison \in [Members -> SUBSET Message]
  /\ backpressure \in [Members -> BOOLEAN]
  /\ delay \in [Members -> BackoffInitial .. BackoffMax]
  /\ stored \subseteq Message /\ duplicated \subseteq Message /\ dead \subseteq Message
  /\ origin \in [Partitions -> 0 .. MaxOffset]
  /\ exposed \subseteq Message
  /\ faults \in 0 .. MaxFaults

(* At-least-once (consumer.py:3-7, ADR 0004): every message below the      *)
(* group's committed offset is in ClickHouse or in the DLQ, as its class   *)
(* asks. Below `origin` are the messages retention had already removed     *)
(* when a group without offsets began to read.                             *)
CommittedIsHandled ==
  \A msg \in Message :
    origin[msg[1]] <= msg[2] /\ msg[2] < committed[msg[1]] => Handled(msg)

(* Nothing that was read gets dropped on the way: every message behind the *)
(* position of a partition is where it belongs or still in the hands of    *)
(* the partition's owner (consumer.py:87-111, 186-199).                    *)
ReadIsHandledOrInHand ==
  \A msg \in Message :
    origin[msg[1]] <= msg[2] /\ msg[2] < position[msg[1]] =>
      \/ Handled(msg)
      \/ \E m \in Members : owner[msg[1]] = m /\ msg \in rows[m] \cup poison[m]

(* Between two batches nothing a member has read is uncommitted, so a stop *)
(* at the top of the loop (consumer.py:163) repeats nothing after restart. *)
BetweenBatchesAllCommitted ==
  \A m \in Members : pc[m] = "poll" => InFlight(Owned(m)) = {}

(* A row is stored twice only if it was in flight at a crash, a rebalance  *)
(* or an insert with a lost answer, or its group lost its offsets: in      *)
(* quiet operation consumer.py inserts every row once.                     *)
DuplicatesOnlyExposed == duplicated \subseteq exposed

(* The group's offset of a partition never moves back while the broker     *)
(* remembers it, whichever member commits and whatever it still held from  *)
(* an earlier assignment (consumer.py:203).                                *)
CommitNeverRegresses ==
  [][\A p \in Partitions :
       committed'[p] >= committed[p] \/ (committed'[p] = None /\ Up = {})]_vars

(* Every message written to the topic reaches the sink of its class, for   *)
(* every crash, rebalance, signal and ClickHouse outage that ends.         *)
EventuallyHandled ==
  \A msg \in Message : Written(msg) ~> Handled(msg)

(* A stop signal ends the process: the batch in hand is finished first,    *)
(* and the backoff loop, which never looks at stop_event, is left once     *)
(* ClickHouse answers (consumer.py:93-111, 163).                           *)
ShutdownCompletes == \A m \in Members : stop[m] ~> pc[m] = "down"

(* The parts that make the above inductive. *)
MembersShape ==
  /\ \A m \in Members : pc[m] \in {"down", "poll"} => rows[m] = {} /\ poison[m] = {}
  /\ \A p \in Partitions :
       IF owner[p] = NoMember THEN position[p] = None ELSE pc[owner[p]] # "down"

SinksWritten == \A msg \in stored \cup dead : Written(msg)

BatchesSorted ==
  \A m \in Members :
    /\ \A msg \in rows[m] : Written(msg) /\ ClassOf(msg) \in {"valid", "unstorable"}
    /\ \A msg \in poison[m] : Written(msg) /\ ClassOf(msg) = "poison"

OffsetsOrdered ==
  \A p \in Partitions :
    /\ origin[p] <= start[p] /\ start[p] <= Len(log[p])
    /\ committed[p] <= Len(log[p]) /\ position[p] <= Len(log[p])
    /\ committed[p] # None => origin[p] <= committed[p]
    /\ position[p] # None => committed[p] <= position[p] /\ origin[p] <= position[p]

ConsumerInv ==
  /\ TypeOK
  /\ MembersShape
  /\ SinksWritten
  /\ BatchesSorted
  /\ OffsetsOrdered
  /\ ReadIsHandledOrInHand
  /\ CommittedIsHandled
  /\ BetweenBatchesAllCommitted

(* And those of DuplicatesOnlyExposed: a row in hand that nothing exposed  *)
(* is read by the partition's owner, uncommitted and not stored yet; a     *)
(* stored one that nothing exposed is behind a position that stays.        *)
FreshIsInFlight ==
  \A m \in Members : rows[m] \ exposed \subseteq InFlight(Owned(m)) \ stored

StoredIsPassed ==
  \A msg \in stored \ exposed :
    msg[2] < committed[msg[1]] \/ msg \in InFlight(Partitions)

ExposureInv == FreshIsInFlight /\ StoredIsPassed /\ DuplicatesOnlyExposed
-----------------------------------------------------------------------------
(* The promise of the consumer group, and what plays its parts here. *)
Delivery == INSTANCE AtLeastOnceDelivery
              WITH Source <- Partitions,
                   Position <- 0 .. MaxOffset,
                   sent <- {msg \in Message : Written(msg)},
                   done <- {msg \in Message : Handled(msg)},
                   mark <- committed,
                   floor <- origin

ImplementsAtLeastOnce == Delivery!Spec
=============================================================================
