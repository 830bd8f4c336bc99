# TLA+ models of gh-pulse

gh-pulse collects the public event stream of GitHub, stores it in ClickHouse and
serves rankings over it. This directory holds models of the parts of it in which
order, failure or concurrency decide whether the result is right; they are
checked with TLC on small instances, and the safety of all of them but the log is proved
with TLAPS for every size. Every definition is translated from the source;
`PROJECT.json` (`map`) names the lines.

## 1. Inventory

```
GH Archive ──> gh-collector --backfill ─┐
                                        ├─> Kafka gh.events ─> pulse-consumer (group) ─> ClickHouse events ─> views
GitHub API ──> gh-collector --live ─────┘                          │                                            │
                                                                   └─> gh.events.dlq                 pulse-api ─┘
                                                             PostgreSQL (keys), Redis (limits, cache) ──┘
```

| Component | State | Operations | What is hard | What makes it correct |
|---|---|---|---|---|
| **pulse-consumer** (`services/pulse-consumer/consumer`) | positions, pauses, the batch in hand, backoff; the group's committed offsets at the broker | poll, split, send to DLQ, insert with backpressure, commit, seek to beginning, stop | crashes between any two steps, rebalances while a batch is in hand, inserts whose answer is lost, retention, lost offsets, a stop during an outage | nothing is committed before it is in its sink; nothing read is dropped; offsets do not go back; a stop loses and repeats nothing; everything arrives in the end |
| **gh-collector: backfill** (`cmd/gh-collector/main.go`, `internal/archive`) | errgroup with a limit and its first error, one download per hour | dispatch, request, read, send, cancel, close the channel | dispatcher, workers and drain loop wait for each other; one failure cancels the rest | the run ends; exit code 0 without a signal means that the whole range was read |
| **gh-collector: live** (`internal/events`) | ETag, dedup window, the page in hand | poll, skip or send, pause, stop | the page moves between polls, polls fail, 304; a quota kept by another clock | no event twice, none that stays on the page missed; no request into a spent quota |
| **gh-collector: producer stage** (`main.go`, `internal/producer`) | channel, buffer of the Kafka client, exit code | drain, produce, acknowledge, flush, time out | a signal with events in four places; a buffer at its limit | what entered the channel is answered for when the process exits with 0 |
| **pulse-api: rate limit** (`app/security/rate_limit.py`) | a ZSET of time stamps per key | look up, read the clock, run the script | several processes with clocks of their own, requests that overtake each other | no interval has more than the limit; `Retry-After` is true |
| **pulse-api: API keys** (`app/security/keys.py`, `app/admin/auth.py`, `app/cli.py`) | `api_keys`, the connections of the pool | look up, check bits and origin, issue, show once, list, revoke | a key revoked between check and use, an INSERT whose answer is lost, a pool at its limit, two ways to issue a key | an answer is earned by the key that was sent; a key that was shown works; no request waits for ever |
| **pulse-api: cache and /trending** (`app/api`) | pages in Redis, the cursor in the client's hand | get, build, set, next page | counters change between two pages, concurrent misses, pages of different age | a walk shows what did not change exactly once, ranks go on, no page is too old |
| **pulse-api: analytics endpoints** (`app/api/routes.py`, `queries.py`, `http_cache.py`) | the body a client keeps and its ETag | one query or several, two at once; 200, 304, 404 | events inserted between two queries, views that lag and hold several rows of a key, windows cut to the second or the hour | what a client holds was true between its request and now |
| **ClickHouse schema and views** (`infra/clickhouse`) | `events`, three SummingMergeTree views | insert, backfill of the views | views count on insert, repeated inserts are counted again | counters equal what the table says |
| **pulse-api: admin** (`app/admin`) | none of its own | completeness, backfill command, logs (keys: above) | the same range is read by three programs (SQL, Python, Go) that round it differently | the command collects the hours that are reported missing |
| **log file** (`internal/logfile`, `admin/logs_viewer.py`) | the open file, its size | write, rotate, show | close, rename and reopen may each fail; the viewer looks in between | a failed rotation does not end logging |
| **event model, tracing, process wiring, health, topic creation** | – | – | – | not modelled, see section 9 |

Interactions: the collector's goroutines share one channel and one context; the
collector and the consumer meet only in Kafka, the consumer and the API only in
ClickHouse, API processes only in Redis and PostgreSQL. Each module therefore
covers one component together with the external services it calls, as the code
uses them, and interfaces are kept narrow enough to compose later (section 3).

Everything in this code that is hard to test is listed with its line in
`PROJECT.json` under `hazards`; a hazard without a property says why.

## 2. Modules

| Module | Models | Role |
|---|---|---|
| `AtLeastOnceDelivery` | the promise of docs/adr/0004 | abstract specification |
| `PulseConsumer` | `consumer.py`, `__main__.py`, `dlq.py`, `clickhouse.py`, `model.py` and the group around them | detailed specification, implements the one above |
| `PulseConsumer_proofs` | – | theorems about the consumer group |
| `BoundedHandOver` | the promise of the comments in `main.go` about delivery and exit codes | abstract specification |
| `ProducerStage` | the common half of `orchestrate` and `runLive` | extended by the next two |
| `Collector` | `orchestrate` with `archive.Client` | a source composed with the stage, implements `BoundedHandOver` |
| `LiveCollector` | `runLive` with `events.Client` | a source composed with the stage, implements `BoundedHandOver` |
| `RateLimiter` | `rate_limit.py`, `api_key.py` | one key, many processes |
| `RateLimiter_proofs` | – | theorems about the rate limiter |
| `TrendingApi` | `routes.py: trending`, `cache.py`, `queries.py`, `pagination.py` | walks over a changing ranking through the cache |
| `TrendingApi_proofs` | – | theorems about the walks and the cache |
| `EventCounters` | the schema, the views and the script in `infra/clickhouse` | extended by the next one |
| `BackfillCycle` | `admin/completeness.py`, `admin/backfill.py`, `admin/routes.py`, `main.go: resolveHours` | report, command, collector and consumer composed with the counters |
| `BackfillCycle_proofs` | – | theorems about the cycle and the counters |
| `RatePacing` | `events.go: backoffInterval`, the headers `Poll` reads, the pauses of `Run` | the live collector against GitHub's quota |
| `ProducerStage_proofs` | – | lemmas about the stage, for any set of events |
| `GhCollector_proofs` | – | theorems about the backfill, the live collector and its pauses |
| `AccessKeys` | `keys.py`, `admin/auth.py`, `api_key.py`, `cli.py`, `/admin/keys`, the table in `alembic/versions` | requests on one connection pool, the command, and whoever revokes keys |
| `AccessKeys_proofs` | – | theorems about keys and requests |
| `AnalyticsReads` | the five analytics handlers, their queries, the views, `http_cache.py` | a client reading while events are inserted and merged |
| `AnalyticsReads_proofs` | – | theorems about what a client holds |
| `LogFiles` | `logfile.go`, `logs_viewer.py` | the collector's log and the page that shows it |
| `MC*` | – | symmetry sets and definitions the `.cfg` files need |

### PulseConsumer

A message is `<<partition, offset>>`; its *class* stands for all of `parse_event`,
`_to_columns` and `_producer_link`: `valid`, `poison` (goes to the DLQ),
`unstorable` (parses, but the driver refuses the batch), `badHeader` (its header
raises before the batch is split). `pc` is where a process is:

* `poll`: at the top of `while not stop_event.is_set()` (`consumer.py:163`);
  actions `Exit`, `SeekToBeginning`, `OffsetOutOfRange`, `Fetch`, `FetchBadHeader`.
  `Fetch` is getmany together with `split_valid`: no await lies between them.
* `batch`: `SendPoison` one acknowledged send at a time, `InsertOk`, `InsertError`,
  `InsertAmbiguous` (stored, answer lost), `Commit`.
* `sleep`: the backoff; only `Retry` leaves it, as `asyncio.sleep` does not look at
  the stop event.

`Commit` is `consumer.commit()` without arguments: it covers the positions of the
assignment *at that moment*, not of the batch; `CommitOf` keeps that. A rebalance
(`RebalanceDue`, `RebalanceAgain`) revokes positions and pauses but leaves the batch
in the process's hands. `Leave` is what every end of a process does, however it
comes about. `origin`, `exposed` and `duplicated` are history variables: where a
group without offsets began to read, what may legitimately be repeated, and what was
stored twice.

### Collector, LiveCollector, ProducerStage

`queue` is the Go channel, `hand` the loop variable of `for evt := range events`,
`buffered` the client's unacknowledged records. `Send` and `SendCanceled` are the two
branches of `select`, both enabled when both are ready. `Canceled` is `fetchCtx`; the
drain loop and the flush never read it (`context.WithoutCancel`). `CloseQueue` combines
`fetchDone <- err` and `close(events)`: nothing observes the state between them.
`LiveCollector` keeps of GitHub's feed the number of events published; the API shows
the last `PageSize` of them newest first, and the ETag is the publication it belongs
to. `PollBadBody` keeps the new ETag and drops the body, as `events.go:273-279` does.

Both sources implement `BoundedHandOver`: *accepted* is what was sent into the channel, *answered* what Kafka answered
(`Settled`: delivered or failed), *abandoned* what the end of the process dropped, the *outcome* is the exit code, and the
*capacity* the channel, the hand of the loop and the client's buffer together, `QueueSize + 1 + BufferMax`. An event of the live
collector is a pair of its number and how often it was sent before (`Record`), since one that left the window may be sent again.

### RateLimiter

The Lua script is one step (`Admit` or `Deny`); looking up the key and reading
`time.time()` are steps before it, so requests overtake each other. A time stamp is at
most `Ahead` before Redis's clock when it is read and at most `Late` behind it when the
script runs. `EXPIRE` is kept as the deadline `expires` of the whole ZSET.

### TrendingApi

A walker's request is `get`, `build` (the query's snapshot) and `set`; only a miss takes
the last two. `Page` is the query with its keyset `HAVING`, `ORDER BY` and `LIMIT`, numbered from
the cursor's rank; the key of the cache holds the whole cursor. Counters change
between any two steps.

### EventCounters, BackfillCycle

A row is the tick of its `created_at`; several rows may share one, so that a repeated insert is a second
row, and are told apart by a number where they are counted (`RowsIn`). One `counter` by hour stands for the three views, which differ in their keys. `Counted` is the
trigger, `StartScript` an operator who obeys the header of the script (views empty, months listed from
the table), `AddMonth` one of its `INSERT ... SELECT`s, and `Insert` may come between any two of them.
`BackfillCycle` gives each of the three programs its own way from bounds to hours: `Present` (SQL, exact
bounds), `Grid` (Python, both rounded down), `Command` and `ResolveHours` (printed and parsed as
hours, half-open). A run takes its hours one by one or breaks off inside one, the live collector
brings some of the same events, and `Consume` may repeat an insert. `report.filled` and `collected`
are history.

### RatePacing

`time` is GitHub's clock and `offset` the error of the process's own. GitHub's window opens with the
first request after a reset; a 304 is free; a refused request costs nothing. The decision is
`Backoff`, taken when the answer *arrives*, up to `Latency` after its headers were true. `Lost` is an
answer without headers, for which `backoffInterval` sees no remaining requests and the zero time.

### AccessKeys

A key stands for its secret and its hash. `pc` follows one request: `auth` and `act` wait for a connection
of the pool, `lookup` and `statement` hold one (`held`). `Reject`, `Serve`, `StartList` and `StartIssue` are
what the dependencies decide when the row has come, in their order: `require_admin_auth` or
`require_api_key`, then `require_admin_permission`, then `require_same_origin`. FastAPI runs the
second on the result of the first, so the key is read once; `Revoke` may come right after. `Fail` at
an INSERT may have stored the row. `CliInsert` and `CliPrint` are the two halves of `create-key`.
`wasActive`, `shown` and `by` are history.

### AnalyticsReads

`InsertRow` puts an event into the table, `Trigger` its row into a view, `Merge` joins two rows of a
view with one key; a client's request runs its queries one by one (`RunQuery`), in any order where the
handler gathers them. A query's result is a bag of rows, so that rows that were not aggregated
can be told from those that were; a view is a function from its rows to their number of copies, and what a query adds up is
`SumFunctionOnSet` over it. `body` becomes `held` on a 200 and is thrown away on a 304.
`floor`, `lag` and `startedAt` remember what was stored when the request began. Only the views of the endpoint
that is read are kept (`Read`), which loses nothing, since an endpoint reads no other. `/trending` and `/languages/trends` ask Redis
before they run a query (`routes.py:198-204`, `316-322`); the hit is left out here, where a 200 or a 304 always answers a body that was
just built, and is the subject of `TrendingApi`.

### LogFiles

`Log` is Write up to its first system call, `Rename` and `Reopen` are the rest of `rotate`, `RotateFails`
any error in it, `AppendLine` the write itself. In Go a closed file stays closed even if Close
reported an error. The viewer's `Look` and `Show` may come between any two of them.

## 3. Plan

Done in this order, the most important first:

1. `PulseConsumer` with `AtLeastOnceDelivery`, its runs and its proofs.
2. `ProducerStage`, `Collector`, `LiveCollector`.
3. `RateLimiter` with its proofs, `TrendingApi`.
4. `EventCounters`, `BackfillCycle`, `RatePacing`.
5. `AccessKeys`, `AnalyticsReads`, `LogFiles`.

6. `ProducerStage_proofs`, `GhCollector_proofs` for the backfill and the live window.
7. `AccessKeys_proofs`, the pauses in `GhCollector_proofs`, `TrendingApi_proofs`.
8. `BackfillCycle_proofs`; `DuplicatesOnlyExposed` and `RetryAfterIsHonest` in the proofs of their modules.
9. `BoundedHandOver`, and that `Collector` and `LiveCollector` implement it step by step.
10. `AnalyticsReads_proofs`, the sums included.

Not done: a `Pipeline` in which the collector's delivered records are what `PulseConsumer` is sent, so that an exit
code 0 leads to rows in ClickHouse. The two halves are there: `ExitZeroIsSettled` up to Kafka, and from Kafka on
`CommittedIsHandled` for safety and `EventuallyHandled` for progress.

Two abstract specifications are stated, `AtLeastOnceDelivery` and `BoundedHandOver`; the other components promise an
invariant rather than a behaviour.

## 4. Runs

| Run | Configuration | Properties | Shows |
|---|---|---|---|
| `consumer_group` | 2 members, 1 partition of 3 messages, all four classes, retention of 2, 2 faults | `TypeOK`, `CommittedIsHandled`, `ReadIsHandledOrInHand`, `BetweenBatchesAllCommitted`, `DuplicatesOnlyExposed`, `CommitNeverRegresses`, `ImplementsAtLeastOnce` | the safety of the consumer group |
| `consumer_liveness` | 2 members, 2 partitions of 1 message, 1 fault | `EventuallyHandled`, `ShutdownCompletes` | everything arrives, every signal ends a process |
| `collector` | 3 hours of up to 2 events, 2 workers, channel 1, buffer 1 | `TypeOK`, `SentIsSomewhereOnce`, `CleanExitIsComplete`, `ImplementsHandOver`, `RunEnds`, `StopEnds` | no loss, true exit codes, no circular wait, the refinement of `BoundedHandOver` |
| `live` | pages of 2, window 4, 5 events, 1 bad body | `LiveTypeOK`, `SentAtMostOnce`, `LiveImplementsHandOver`, `ShownIsCollected`, `LiveStopEnds` | deduplication, collection, stop, the same refinement |
| `rate_limiter` | 4 requests, limit 2, window of 4 ticks (2 s), clocks 1 tick off either way | `TypeOK`, `LimitHolds`, `RetryAfterIsHonest` | the sliding window |
| `trending_api` | 3 repositories, 2 walkers, pages of 1, lifetime 2, 1 change | `TypeOK`, `StableShownOnce`, `CachedIsFresh` | pagination through the cache |
| `backfill_cycle` | 2 hours of 2 ticks, each a month of its own, 2 archives, 6 ranges, 2 copies of an event | `TypeOK`, `CommandFillsReport`, `FilledIsNotReported`, `CountersNeverShort`, `CountersMatch` | the operator's loop and the counters |
| `rate_pacing` | quota of 3 in windows of 6 ticks, poll interval 2, clock 1 tick off, latency 1, 2 faults | `RefusedOnlyWhenBlind`, `NoLongPause` | the quota is not run into, the feed not starved |
| `access_keys` | 2 requests, a pool of 1, 1 command, seven things to ask for | `TypeOK`, `AccessIsEarned`, `ShownKeysWork`, `RequestsEnd` | the life of a key and of a request |
| `analytics_reads` | 2 events of 4 kinds, hours of 2 ticks, days of 2 hours, a window of 2 ticks, 3 ticks pass | `TypeOK`, `HeldIsBetween`, `WindowNeverShort` | what the endpoints count |
| `trends_points` | as above | `OnePointPerDay` | **violated**, section 8 |
| `log_files` | files of 2 lines, 5 lines | `LineSurvivesFailedRotation` | **violated**, section 8 |

`CHECK_DEADLOCK FALSE` in all of them: a collector process ends, the requests of a limiter and
the walks are finite, the consumer's bounds on messages and faults leave it at rest, and so do those on events and lines.

### Bounds, and why they are enough

* **Consumer.** Three offsets and `BatchMax = 2` give a partition that takes two
  batches, a batch with both kinds of messages, and a message left behind a batch;
  two members is the least with which a partition moves away and comes back. Two faults
  allow the pairs that matter: a lost insert answer and then a rebalance, a crash and
  then lost offsets. `MaxTrim = 2` puts the log start before, at and beyond a
  committed offset. One partition suffices for safety because partitions meet only in
  a batch and in its commit; the liveness run has two of them, and the theorems hold
  for any number. Members and message classes are not bounded otherwise. Members are
  interchangeable, hence the symmetry set in the safety run; the liveness run has none.
* **Collector.** More hours than workers, and a channel and a buffer smaller than an
  hour, are the conditions of the deadlock that `main.go:415-427` speaks of; the channel
  and the buffer are full in almost every behaviour.
* **Live.** Five events let the page turn over completely and more, so that events leave the page
  and the window evicts. `MaxSends = 2` is what a violation of `SentAtMostOnce` needs. The
  window is the two pages of the code (`dedupWindow`). `LiveAssumption` asks for one place less, which is what
  the proof needs; with two places less TLC finds an event that is sent twice, so the assumption is tight, and
  two pages are as tight as a multiple of a page can be.
* **Rate limiter.** Four requests are two more than the limit, and eight ticks are two
  windows, so that members leave, `EXPIRE` strikes and the window is filled again. `LimitHolds` with
  an interval one tick longer is violated, so the bound is tight.
* **Trending.** Pages of one make every row a page border; the two starting rankings hold
  a leader, a tie and a repository without stars; one change moves any of them up, down, in
  or out; four ticks are two lifetimes.
* **Backfill.** Two ticks in an hour are a bound on the hour and one inside it, which is all that
  rounding tells apart; two hours make a border inside the range and, as months, two turns of the
  script; two copies of an event are a repetition.
* **Pacing.** An even share of the window is 2 ticks, the poll interval, while nothing is spent, and longer as
  requests run out, so that both branches of the maximum decide; 16 ticks are more than two windows.
  Without the margin `RefusedOnlyWhenBlind` fails, and `NoLongPause` fails for a bound one tick
  lower: both are tight here. The share in the bound, `FullShare`, is rounded up and counts the error of the clock:
  with the share rounded down and a true clock (`Skew = 0`, a window of 8, a quota of 4) a pause is one tick longer.
* **Keys.** Two requests on a pool of one wait for each other in every way; one command and one key per
  request make three ways in which a key comes to be. Three requests on a pool of two, without a command,
  pass the safety properties too. Requests do not share anything but keys and connections.
* **Analytics.** Two events are what it takes to have two rows of one key, a merge, a name with two ids and a
  star on each side of a border; three events pass as well (2.3 million states). Three ticks let an event leave the
  window, to the second, while its hour is still in it.
* **Log.** Two lines fill a file, five pass through two rotations and what follows a failed one.

## 5. Fairness

* Consumer (`Fairness`): weak fairness of what the event loop runs when it is ready
  (`Exit`, `SeekToBeginning`, `Fetch`, `SendPoison`, `Retry`, `Commit`), of the group
  coordinator (`RebalanceDue`) and of aiokafka's fetcher (`ResolvePosition`). `WF(Launch)` is the
  operator or the deployment starting a stopped consumer again: docker-compose.yml sets no
  restart policy, so without it nothing at all could be promised after a crash.
  `SF(InsertOk)`: a ClickHouse that is up again and again takes a batch some time; the
  retry loop has no last attempt, and nothing less would do. There is no fairness of
  faults, of signals, of producers or of retention.
* Collector (`ProcessFairness`): the Go scheduler runs what can run, a cancelled request or
  read returns, and the flush timeout expires. `KafkaFairness`, that every record is answered, is
  separate: with it a stop ends (`StopEnds`), without it it need not (section 8). That GH
  Archive answers is assumed nowhere but in `RunEnds`, which has it as its premise:
  `FetchHour` reads the body without a timeout.
* Live (`LiveFairness`): requests have a timeout of 15 s, so a poll always ends one way or another;
  `SF(PollOk)`: not every poll fails. `WF(Stop)` resolves the `select` between a free place in
  the channel and a cancelled context, which Go chooses at random, and is needed because Run
  could otherwise pass through the pause for ever.
* Keys (`FairSpec`): weak fairness of each request's next step. The event loop runs what is ready, every statement
  ends with a result or an error, and asyncpg gives a free connection to whoever waits longest. Nobody has to
  send, issue or revoke.
* The limiter, the walks, the analytics reads and the log are checked for safety only: each of their requests or calls is a
  fixed number of steps. So are the backfill cycle, whose next step is an operator's, and the pacing,
  where a pause that is too long is a state and not an infinite behaviour.

## 6. What the properties say

The properties are stated at the end of each module with the code they are about.
Those a reviewer would argue over:

* `CommitNeverRegresses` with `CommitOf`: a member that lost and regained a partition while
  it held a batch may commit a position it got from the committed offset, but never an older
  one, because positions do not survive the assignment.
* `DuplicatesOnlyExposed`: in quiet operation no row is inserted twice; a row is repeated only
  if it was in flight at a crash, a rebalance or an insert with a lost answer, or if the
  broker forgot the group.
* `ReadIsHandledOrInHand`: what a member still holds after a rebalance took its partition
  away is *not* counted as being in hand; the new owner must have it or must read it again.
* `CleanExitIsComplete`: the cancellations that follow a failure never replace it as the
  error of the group, so a failed range never exits with 0.
* `ImplementsHandOver` and `LiveImplementsHandOver`: an event is open from the `select` that sends it until Kafka answers; what is
  open is bounded at every moment, a signal included, and only an exit other than 0 gives any of it up.
* `LimitHolds`: with clocks that are off by `Ahead` and `Late`, any interval shorter than the
  window by their sum has at most `Limit` admissions.
* `StableShownOnce`: what changed may be shown twice or left out by a keyset cursor; what did
  not change since the *oldest* page of the walk was read may not, even if later pages come
  from the cache and are older than earlier ones.
* `CountersMatch` excepts months that grew between the list of months and their turn in the script;
  `CountersNeverShort` excepts nothing.
* `FilledIsNotReported` speaks of hours a run collected *to the end*: see section 8 for
  those it did not.
* `RefusedOnlyWhenBlind`: a lost answer or a restart may cost one refused request, but its headers
  are enough for the next.
* `AccessIsEarned`: who is served must have had the right when the request came, not when it is served: a key
  revoked after its lookup is still good for the request. A refusal is earned too: 401 never meets a key that is still active and,
  on `/admin`, has `ADMIN_READ`, so that a maintenance key gets 403 and not 401 where it lacks a bit; and 403 is said only to a known
  key that lacks a bit of the route, or when a page of another origin asks to issue a key. These
  checks refuse nothing else to a key that is still good; a statement that fails ends its request with 500, and the limit (429) is `RateLimiter`'s.
* `ShownKeysWork`: both ways to issue a key pass the permissions they announce, although
  `insert_api_key` has a default with full rights; a row nobody was shown comes only from something that broke off.
* `HeldIsBetween`: between what was in the table when the client asked, less what had not reached the view, and what
  is there now. A total of the card and its days may disagree, since they are read at different moments; both are
  between. It is about counts without a window, those of the card, the heatmap and `/stats`; the counts of `/trending` and
  `/languages/trends` have a window and are in `WindowNeverShort`. `coverage` and `ingest_lag_seconds` are no counts and get no bound.
* `WindowNeverShort`: a view rounds the window outwards, never inwards. Both endpoints have a Redis cache: this is said of the body when it
  is built, and a hit shows it for the lifetime of its entry longer (`CachedIsFresh`, for `/trending`).

## 7. What is proved

All theorems are checked by TLAPS for every value of the constants, from the assumption the module
states about them and nothing else. Each component has one inductive invariant, stated beside its
properties and checked by TLC before it was proved; the proof has a lemma for every action. What each
one adds to the properties, and why they are not inductive without it:

**Consumer** (`PulseConsumer_proofs`, from `ConsumerAssumption`): any sets of members,
partitions and classes, any batch size, backoff and bounds.

    ConsumerInv == TypeOK /\ MembersShape /\ SinksWritten /\ BatchesSorted /\ OffsetsOrdered
                   /\ ReadIsHandledOrInHand /\ CommittedIsHandled /\ BetweenBatchesAllCommitted

`CommittedIsHandled` is not inductive by itself: the commit covers positions, so one has to know
that everything below a position is handled or in the hands of its owner
(`ReadIsHandledOrInHand`), that the owner's batch is empty when it commits, that a
batch holds only written messages of the class it is sorted by (`BatchesSorted`: with it, storing a
row or sending a message makes it `Handled`), that a process between batches holds nothing
(`MembersShape`) and that a position is never behind the committed offset (`OffsetsOrdered`), which
is also why no commit goes back. The results:
`TypeCorrect`, `AtLeastOnce`, `NothingDropped`, `GracefulStopIsClean`, the action property
`CommitsAreMonotone`, and `RefinesAtLeastOnce`: every step is a step of `AtLeastOnceDelivery` or
stutters. `DuplicatesAreExplained` needs `ExposureInv` on top: a row in hand that nothing exposed is read by
the owner of its partition, uncommitted and not stored (`FreshIsInFlight`), and a stored one that nothing exposed
is behind a committed offset or in flight (`StoredIsPassed`), so no fetch meets it again. A process that keeps its
batch after a rebalance holds exposed rows only, because the rebalance exposes what is in flight.

**Producer stage** (`ProducerStage_proofs`, from `StageAssumption`): lemmas about the drain loop, the client and the flush for
*any* set of events and any source, used by both sources. Each action of the stage keeps the six places of an event disjoint
(`PlacesDisjoint`), the order in which the stage winds up (`StageInOrder`) and what was sent (`InStage`).
`PlacesAddUp` counts: six disjoint finite sets whose union is what was sent. `StageHandsOver` maps each step of the stage to
`BoundedHandOver`: an acknowledgement to `Answer`, exit 0 to `Succeed`, every other exit to `Fail`, the rest to a stutter. `Succeed` needs that
nothing is open, hence that a process exits with 0 only after the channel is closed and empty and the client has nothing
pending, which is what `StageInOrder` says. `RoomForOneMore` is the bound: in a step that accepts an event the channel has a
free place, so channel, hand and buffer hold less than their sum.

**Backfill** (`GhCollector_proofs`, from `CollectorAssumption` and `StageAssumption`): any range, number of
workers, dumps and sizes. `CollectorInv` adds to the stage's invariant that the channel has no repetitions, and the error of the group and
the result of the run against the outcomes of the tasks (`TasksInOrder`). `CleanExitIsComplete` follows since the first error
of the group is kept. `ExitZeroMeansSettled` is proved from the same invariant; no run checks it by itself, since it is what
`ImplementsHandOver` says of exit 0. `BackfillHandsOver` is the refinement: `Send` is an `Accept`, because a task sends each event of its hour once.

**Live collector** (`GhCollector_proofs`): `LiveInv` says which of the events on the page, and of those below it, the
window holds while a page is worked through (`WindowCovers`). An event leaves the window only when it is too old to be on
any later page; this takes a window of `2 * PageSize - 1`, so `TwoPagesAreEnough`. For the refinement, `LiveHandsOver`, it also says that
the stage holds exactly what Run sent, and that Run returned before its result is known.

**Rate limiter** (`RateLimiter_proofs`, from `LimiterAssumption`): `LimiterInv` adds to `LimitHolds`
that time stamps are within their bounds and that whatever was admitted within the window
less `Skew` is still in the ZSET, which has not expired. An admission then finds every request
that counts among the fewer than `Limit` members it keeps; `SlidingWindowHolds` follows for every
limit, window and error of the clocks. `RetryAfterKeepsItsWord` needs `DenialsInv`: until the key is used again the
ZSET is full of what the denied request saw (`DenialStands`). A second denial keeps at least `Limit` of at most `Limit` members, so
it keeps the same ones, and neither of the two reaches the other's `Retry-After`, whichever came first.

**Walks and cache** (`TrendingApi_proofs`, from `TrendingAssumption`): `WalkInv` says of every repository that did not
change since the oldest page of a walk that it was shown, once, if it is before the cursor in the order of the ranking, and not at all if it is
behind; `PageInv` and `CacheInv` say the same of a page on its way and of every page in the cache, for whichever
cursor it was built. A page that is not full ends the ranking, which rests on
`PositionsAreTaken`: the ranks of n rows are 1 to n, an injection between finite sets of one size.

**Backfill cycle and counters** (`BackfillCycle_proofs`, from `CountersAssumption` and `CycleAssumption`): `CommandCoversReport` is
that cutting at bounds is monotone, for every length of an hour (`DivIsMonotone`). `FilledStaysFilled` needs that
an event of a collected hour is in Kafka or in the table (`CollectedIsKept`). `CountersInv` says of a month that is still to be added
that nothing of it is counted unless it grew, and of every other one that it is counted once, and exactly if it did not grow;
`RowTakesAPlace` is the lemma that an insert adds one to the count of its hour and of no other.

**Pacing** (`GhCollector_proofs`, from `PacingAssumption`): what is left of a window is at most `FullShare` for each request that is
left (`PacingInv`). `ShareShrinks` is the arithmetic: after a pause of the rounded share of what is left, this is so for one request less.
The type invariant (`PacingTypeCorrect`) is proved and not run again. `RefusedOnlyWhenBlind` uses that the clock's error is within the margin (`Skew <= ResetMargin`), and so does the code (`events.go:60-63`).

**Keys** (`AccessKeys_proofs`, from `AccessAssumption`): rows are never deleted and never get other bits, and none becomes active again; a
request past its lookup remembers a row that says the same now (`RequestInv`), each row was
ordered by a request with the right or by the command (`RowInv`), and each generated key belongs to one of them (`KeysInv`), so no
INSERT meets a row that is there.

**Analytics** (`AnalyticsReads_proofs`, from `ReadsAssumption`): any events, any lengths of hour and day, any
window. `ReadsInv` is

    TypeOK /\ ViewsComplete /\ StoreInOrder /\ RequestInOrder /\ (every result is IsSound)
           /\ HeldIsBetween /\ WindowNeverShort

`HeldIsBetween` speaks of a body that has arrived; what carries it is that each *result* is between its bounds from the moment its
query returns (`IsSound`) and stays so while the table only grows (`ResultsStay`). That a query is sound when it runs needs
`ViewsComplete`: for each kind of event, the rows of a view add up to what the table has less what is still due, however they were
merged; so a query that groups and sums gets the same from two rows of a key as from one (`CountOfGroup`, `CountOfView`).
The sums are folds over finite sets, whose value the library states only for an operator given as a parameter. The
proofs begin instead with a smallest finite set for which a sum would go wrong (`SmallestSubset`), and get from it that a sum exists and is
unique (`SumUnfolds`, `SummingIsUnique`), and how it changes when one element comes, goes or changes (`SumOfRest`,
`SumWithout`, `SumExcept`).

**Only model-checked**: everything under fairness (`EventuallyHandled`, `ShutdownCompletes`, `RunEnds`,
`StopEnds`, `LiveStopEnds`, `ShownIsCollected`, `RequestsEnd`), which is beyond the prover. `LogFiles` and `OnePointPerDay` have
only runs that show a violation. Every other property of a run is stated by a theorem.

## 8. Where the code and its comments disagree

Shown by a run:

* `trends_points`: `/languages/trends` does not aggregate what it reads from a SummingMergeTree view
  (`queries.py:192-197`), which `002_mv_hourly.sql:10-14` demands of every reader and the heatmap's query does
  (`queries.py:204-205`). Until ClickHouse merges, a day has several points, each with a part of the events.
* `log_files`: `logfile.go:60-61` prefers a file that is too long to a line that is lost. `rotate` closes the file
  first (`logfile.go:72`), so after a failed rename or reopen the line and every later one is lost, until the
  process is started again.

Seen while modelling, without a run:

* A partition for which the group has no offset is read from what retention has left
  (`consumer.py:169-173`), and what was removed is committed over in silence. `consumer.py:139-146` excludes this:
  the case is said to be the first start of a group only. A broker that has dropped the offsets of an idle
  group, or retention that ran before the first commit, leads to it as well. `origin` in
  `CommittedIsHandled` is where such a group began.
* `_producer_link` decodes header values as UTF-8 before `split_valid` runs
  (`consumer.py:46`, `182`); one such header ends the process, and again after every restart.
  `model.py:74-76` and `dlq.py:3-4` promise that no message does that. The class `badHeader` models it.
* `main.go:58-61` argues that the drain loop cannot block after SIGINT because
  the channel is smaller than the client's buffer. It can: the buffer may be full when the
  signal arrives. `--shutdown-timeout` begins only after the loop. Hence `KafkaFairness` in `StopEnds`.
* `main.go:488-492` says that Flush has confirmed the delivery of all
  events. Flush returns nil once no record is pending, and a record may have failed
  (`producer.go:275-281`); a stopped run then exits with 0. Hence `Settled` and not `delivered` in `ExitZeroIsSettled`.
* The page of `/admin/logs` may answer 500 while the log is renamed: `logs_viewer.py:39-42` asks whether the file exists
  and then opens it.
* A name that went from one repository to another gives a card with the pushes, forks and issues of both and the stars of either
  (`queries.py:121-130`, `any(repo_id)`).
* `routes.py:349` speaks of 168 cells; the heatmap has the cells that have events.
* `queries.py:40-44` reckons with up to an hour of surplus or missing data at the border of the window; none is ever missing.
* `create-key --rate-limit` takes 0 and negative numbers, which the page refuses (`cli.py:51`, `admin/routes.py:174`).
* A downgrade below revision 0002 and another upgrade give every key full rights (`0002_api_key_permissions.py:26`).
* A batch with one row that ClickHouse's driver refuses (an integer too wide for its column) is
  retried for ever with the same content (`consumer.py:94-105`); `model.py:22-31` lets such integers
  pass, and the DLQ of `model.py:44-47` is never reached. The class `unstorable` models it in the
  safety runs.
* A request cancelled by SIGINT counts as a fetch error (`archive.go:176-180`), which
  `archive.go:155-156` excludes. Nothing reads the counter.
* `Poll` keeps the ETag of an answer before it has read and decoded the body (`events.go:273`); the
  repeated request is answered 304. `ShownIsCollected` therefore excepts a bad body.
* ADR 0004 and `events.go:117` rely on deduplication in ClickHouse; `events` is a plain MergeTree,
  and the views count every repeated row.
* `build_backfill_command` compares minutes but prints hours: 10:10 to 10:50 gives a command that
  `resolveHours` rejects, which `backfill.py:43-45` says cannot happen.
* An hour of which an interrupted run left some events counts as present, so the report may be empty
  although `completeness.py:64` says that an empty list is a range covered in full.
* The header of the script has the views looked at before it (`002_mv_hourly_backfill.sql:10-11`), but
  nothing keeps rows from arriving afterwards: those that come between the list of months and
  the month's turn are counted by the trigger and by the script. `touched` in `CountersMatch`.
* Collecting a range again repeats its rows, and with them the counters.
* The key of a cached page does not tell `language=None` from the language called "None".

## 9. Not modelled

* `internal/model/event.go`, the other schemas of `schemas.py`, templates: field-by-field conversions and layout. The models keep
  only whether a message parses.
* `tracing.go`, span links, metrics, logging: nothing reads them back. Where a span's construction can
  raise (`_producer_link`) it is modelled.
* `main.py`, `health.py`, `core/`, `alembic/env.py`: wiring, probes and logging, single reads without interleaving. Of `main.py` the
  size of the pool and the handler of unexpected errors are in `AccessKeys`. How the Python services rotate their logs is the
  standard library's.
* `/stats` beyond the number of events and the lag: `uniq()` is an approximation.
* `create-topics.sh`, docker-compose: only the settings the consumer's environment depends on
  (retention, no restart policy) are used.
* The Kafka protocol, asyncpg's pool, when ClickHouse merges, the consistency of Redis: each is external and behaves as
  its client in this code can observe. Loss of Redis's data is outside the limiter's model.
* `_update_lag` (`consumer.py:126`) is a metric; an exception in it is covered by `Crash`.
