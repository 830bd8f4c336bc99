---------------------------- MODULE LiveCollector ----------------------------
(***************************************************************************)
(* gh-collector --live: events.Client.Run (services/gh-collector/internal/ *)
(* events/events.go) polling the GitHub Events API and feeding, through    *)
(* runLive of cmd/gh-collector/main.go, the channel of ProducerStage.      *)
(*                                                                         *)
(* GitHub's feed is the sequence of events 1, 2, 3 ...; the API shows the  *)
(* last PageSize of them, newest first, and its ETag changes with every    *)
(* publication. Elements that do not parse are left out of the feed. A     *)
(* record in the channel is <<event, n>>: the n-th time Run sends event.   *)
(*                                                                         *)
(* Bounds, for model checking only: MaxEvents published, MaxBadBodies      *)
(* answers with status 200 whose body does not decode, MaxSends of one     *)
(* event.                                                                  *)
(***************************************************************************)
EXTENDS ProducerStage

CONSTANTS PageSize,     (* perPage *)
          DedupWindow,  (* dedupWindow *)
          MaxEvents, MaxBadBodies, MaxSends

Ids == 1 .. MaxEvents
Record == Ids \X (1 .. MaxSends)

ASSUME LiveAssumption == /\ PageSize \in Nat \ {0}
                         /\ DedupWindow \in Nat
                         /\ DedupWindow >= 2 * PageSize - 1   (* it is 2 * perPage *)
                         /\ MaxEvents \in Nat
                         /\ MaxBadBodies \in Nat
                         /\ MaxSends \in Nat
                         /\ NoEvent \notin Record

VARIABLES published,   (* how many events GitHub's feed has so far *)
          run,         (* where Run is *)
          etag,        (* Client.etag: the publication it belongs to, or NoEtag *)
          page,        (* result.Events still to be looked at *)
          seen,        (* seenIDs.order, oldest first *)
          sends,       (* how often each event was sent into the channel *)
          badBodies    (* how much of MaxBadBodies is spent *)

pollVars == <<published, run, etag, page, seen, sends, badBodies>>
liveVars == <<stageVars, pollVars>>

NoEtag == 0

(* What the API shows at this moment. *)
OnPage == {i \in 1 .. published : i > published - PageSize}
Page == [k \in 1 .. Cardinality(OnPage) |-> published - k + 1]

Seen(i) == \E k \in 1 .. Len(seen) : seen[k] = i
SentRecords == {e \in Record : e[2] <= sends[e[1]]}

LiveInit ==
  /\ StageInit
  /\ published = 0
  /\ run = "poll"
  /\ etag = NoEtag
  /\ page = <<>> /\ seen = <<>>
  /\ sends = [i \in Ids |-> 0]
  /\ badBodies = 0
-----------------------------------------------------------------------------
(* GitHub publishes an event; the oldest one may leave the page. *)
Publish ==
  /\ published < MaxEvents
  /\ published' = published + 1
  /\ UNCHANGED <<stageVars, run, etag, page, seen, sends, badBodies>>

(* The context Run works under. *)
NeverStopping == FALSE
Stopping == signalled

(* Poll: a request with If-None-Match, if there is an ETag. *)
Polling == run = "poll" /\ ~Stopping
Unchanged == etag # NoEtag /\ etag = published

(* 304: nothing to look at. *)
PollNotModified ==
  /\ Polling /\ Unchanged
  /\ run' = "sleep"
  /\ UNCHANGED <<stageVars, published, etag, page, seen, sends, badBodies>>

PollOk ==
  /\ Polling /\ ~Unchanged
  /\ etag' = published
  /\ page' = Page
  /\ run' = "send"
  /\ UNCHANGED <<stageVars, published, seen, sends, badBodies>>

(* 200, but reading or decoding the body fails: the ETag is already kept. *)
PollBadBody ==
  /\ Polling /\ ~Unchanged
  /\ badBodies < MaxBadBodies
  /\ etag' = published
  /\ run' = "sleep"
  /\ badBodies' = badBodies + 1
  /\ UNCHANGED <<stageVars, published, page, seen, sends>>

(* No answer, or another status: pause and poll again. *)
EtagOfAnyAnswer == published
EtagOfFailure == etag

PollFails ==
  /\ Polling
  /\ etag' = EtagOfFailure
  /\ run' = "sleep"
  /\ UNCHANGED <<stageVars, published, page, seen, sends, badBodies>>

(* seenOrAdd: a window of the last DedupWindow events, in order of their   *)
(* first arrival; a repeated arrival does not move an event back.          *)
RememberedForEver(i) == Append(seen, i)
RememberedPage(i) == IF Len(seen) < PageSize THEN Append(seen, i) ELSE Append(Tail(seen), i)
Remembered(i) == IF Len(seen) < DedupWindow THEN Append(seen, i) ELSE Append(Tail(seen), i)

SkipDuplicate ==
  /\ run = "send" /\ page # <<>>
  /\ Seen(Head(page))
  /\ page' = Tail(page)
  /\ UNCHANGED <<stageVars, published, run, etag, seen, sends, badBodies>>

SendEvent ==
  /\ run = "send" /\ page # <<>>
  /\ ~Seen(Head(page))
  /\ sends[Head(page)] < MaxSends
  /\ Push(<<Head(page), sends[Head(page)] + 1>>)
  /\ sends' = [sends EXCEPT ![Head(page)] = @ + 1]
  /\ seen' = Remembered(Head(page))
  /\ page' = Tail(page)
  /\ UNCHANGED <<published, run, etag, badBodies>>

PageDone ==
  /\ run = "send" /\ page = <<>>
  /\ run' = "sleep"
  /\ UNCHANGED <<stageVars, published, etag, page, seen, sends, badBodies>>

(* The pause (poll interval, retry interval or rate-limit backoff) is over. *)
Wake ==
  /\ run = "sleep"
  /\ run' = "poll"
  /\ UNCHANGED <<stageVars, published, etag, page, seen, sends, badBodies>>

(* ctx.Done(), at the top of the loop, in the request, in the select of a  *)
(* send or in the pause: Run returns ctx.Err(), its only way to return.    *)
Stop ==
  /\ Stopping
  /\ run \in {"poll", "sleep"} \/ (run = "send" /\ page # <<>> /\ ~Seen(Head(page)))
  /\ run' = "returned"
  /\ UNCHANGED <<stageVars, published, etag, page, seen, sends, badBodies>>

CloseOut ==
  /\ run = "returned"
  /\ CloseQueue("canceled")
  /\ UNCHANGED pollVars
-----------------------------------------------------------------------------
PollerStep == \/ PollNotModified \/ PollOk \/ PollBadBody \/ PollFails
              \/ SkipDuplicate \/ SendEvent \/ PageDone \/ Wake \/ Stop \/ CloseOut

Settle == \E e \in Record : Acknowledged(e) \/ Rejected(e)

StageStep == Receive \/ Produce \/ StartFlush \/ FlushDone \/ FlushTimeout

LiveNext ==
  \/ Publish
  \/ PollerStep
  \/ (Signal \/ StageStep \/ Settle) /\ UNCHANGED pollVars

LiveSpec == LiveInit /\ [][LiveNext]_liveVars

(* Every goroutine that can go on does, every request ends (the client has *)
(* a timeout of 15 s), the broker answers, and a poll does not always fail. *)
LiveFairness ==
  /\ WF_liveVars(PollerStep)
  /\ SF_liveVars(PollOk)
  /\ WF_liveVars(Stop)
  /\ WF_liveVars(StageStep /\ UNCHANGED pollVars)
  /\ WF_liveVars(Settle /\ UNCHANGED pollVars)

FairLiveSpec == LiveSpec /\ LiveFairness
-----------------------------------------------------------------------------
(* Shape of the state; the dedup window is bounded (events.go:388-426). *)
LiveTypeOK ==
  /\ StageTypeOK(Record)
  /\ published \in 0 .. MaxEvents
  /\ run \in {"poll", "send", "sleep", "returned"}
  /\ etag \in 0 .. MaxEvents
  /\ page \in Seq(Ids) /\ Len(page) <= PageSize
  /\ seen \in Seq(Ids) /\ Len(seen) <= DedupWindow
  /\ sends \in [Ids -> 0 .. MaxSends]
  /\ badBodies \in 0 .. MaxBadBodies

(* A window of two pages is enough: as long as the API shows the newest    *)
(* events in order, no event is sent twice, although an event that is met  *)
(* again does not get a younger place in the window and a page is read     *)
(* from its newest event to its oldest (events.go:65-70, 411-426).         *)
SentAtMostOnce == \A i \in Ids : sends[i] <= 1

(* Why a window of two pages is enough. Whatever was sent is in the window *)
(* or has left the page; the window has no event twice and only events the *)
(* feed had at the last poll; and whoever came after an event lies less    *)
(* than a page before it. So fewer than two pages of events can come after *)
(* an event that is still shown.                                           *)
WindowCovers ==
  /\ \A j, k \in 1 .. Len(seen) : seen[j] = seen[k] => j = k
  /\ \A j, k \in 1 .. Len(seen) : j < k => seen[k] > seen[j] - PageSize
  /\ \A k \in 1 .. Len(seen) : seen[k] <= etag
  /\ \A i \in Ids : sends[i] > 0 => Seen(i) \/ i <= etag - PageSize
  /\ run = "send" => \A k \in 1 .. Len(page) : page[k] \in etag - PageSize + 1 .. etag
  /\ etag <= published

(* runLive keeps the promise of BoundedHandOver to Run: nothing Run sends  *)
(* is lost or answered twice, exit code 0 leaves nothing open, and at no   *)
(* time is more open than the channel, the hand of the loop and the        *)
(* client's buffer hold (main.go:46-67, 520-561).                          *)
LiveHandOver == INSTANCE BoundedHandOver
                  WITH Item <- Record, Capacity <- QueueSize + 1 + BufferMax,
                       accepted <- SentRecords, answered <- Settled, abandoned <- dropped,
                       outcome <- Outcome

LiveImplementsHandOver == LiveHandOver!Spec

(* The inductive invariant of GhCollector_proofs.                          *)
LiveInv ==
  /\ LiveTypeOK
  /\ InStage = SentRecords
  /\ PlacesDisjoint
  /\ StageInOrder
  /\ result # "pending" => run = "returned"
  /\ WindowCovers
  /\ SentAtMostOnce

(* An event the API keeps showing is collected, in spite of failed polls   *)
(* and answers 304, unless the process is stopped (events.go:456-462). One *)
(* answer that does not decode is excepted: its ETag is kept, and the      *)
(* following answers 304 hide its page (events.go:273-279).                *)
ShownIsCollected ==
  \A i \in Ids :
    i \in OnPage ~> sends[i] > 0 \/ i \notin OnPage \/ signalled \/ badBodies > 0

(* After SIGINT the process ends, wherever Run is (events.go:428-442,      *)
(* 463-506; main.go:520-561).                                              *)
LiveStopEnds == signalled ~> Exited
=============================================================================
