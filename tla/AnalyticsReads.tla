----------------------------- MODULE AnalyticsReads -----------------------------
(***************************************************************************)
(* The GET endpoints of pulse-api that count events                        *)
(* (services/pulse-api/app/api: routes.py, queries.py, http_cache.py),     *)
(* read while events are inserted and the views of                         *)
(* infra/clickhouse/migrations/002_mv_hourly.sql are merged.               *)
(*                                                                         *)
(* An INSERT adds a row to ghpulse.events and then to each view, one after *)
(* the other. A SummingMergeTree keeps several rows of one key until it    *)
(* merges them. A request runs one query or several, two of them at once   *)
(* through asyncio.gather, and each sees the tables at its own moment. The *)
(* client keeps the body of the last 200 and asks again with its ETag.     *)
(*                                                                         *)
(* One client is modelled, which reads one endpoint: requests share        *)
(* nothing but the tables, and a view nobody reads is left out. Order,     *)
(* LIMIT, cursor and the Redis cache of the endpoints that have one are    *)
(* the subject of TrendingApi; this is their build(). An event is known by *)
(* what the queries tell apart; time is counted in ticks.                  *)
(*                                                                         *)
(* Bounds, for model checking only: Kinds, MaxEvents, MinTime and MaxTime. *)
(***************************************************************************)
EXTENDS Integers, FiniteSets, Bags, FiniteSetsExt

CONSTANTS Kinds,       (* events that may occur: [id, name, type, at, language] *)
          CardName,    (* the owner/name the client asks the card of *)
          Language,    (* the language it filters /trending by *)
          HourTicks, DayHours, WeekDays,
          Window,      (* of /trending, in ticks *)
          TrendsDays,  (* of /languages/trends, in days *)
          MaxEvents, MinTime, MaxTime

Languages == {e.language : e \in Kinds}   (* "" for an event that is not enriched *)

ASSUME ReadsAssumption ==
  /\ IsFiniteSet(Kinds)
  /\ {HourTicks, DayHours, WeekDays, Window, TrendsDays} \subseteq Nat \ {0}
  /\ MaxEvents \in Nat /\ MaxTime \in Nat /\ MinTime \in 0 .. MaxTime
  /\ \A e \in Kinds : e.at \in 0 .. MaxTime

(* toStartOfHour, toDate, toDayOfWeek and toHour *)
Hour(t) == t \div HourTicks
Day(h) == h \div DayHours
WeekdayAndHour(h) == <<Day(h) % WeekDays, h % DayHours>>

Routes == {"card", "trends", "heatmap", "stats", "trending", "trendingLanguage"}
Views == {"stars", "languages", "activity"}

VARIABLES now,
          table,     (* ghpulse.events: how many rows of each kind *)
          due,       (* <<view, kind>>: in the table and not yet in the view *)
          parts,     (* the rows of each view, merged or not: how many there are of each *)
          route,     (* the endpoint the client reads *)
          pc, todo,  (* the request: "idle" or "asked", and the queries it has to run *)
          body,      (* what its queries have returned *)
          repoId,    (* the repo_id the name was resolved to *)
          floor, lag, startedAt,  (* history: table, due and time when it began *)
          held, answer       (* the client's: the body it keeps, the status of the last answer *)

store == <<now, table, due, parts>>
request == <<route, pc, todo, body, repoId, floor, lag, startedAt, held, answer>>
vars == <<store, request>>
-----------------------------------------------------------------------------
(* The views: which rows they count, and by which key. *)
CountsAnyLanguage(v, e) == v = "stars" => e.type = "WatchEvent"
Counts(v, e) == CASE v = "stars" -> e.type = "WatchEvent"
                  [] v = "languages" -> e.language # ""
                  [] v = "activity" -> TRUE

Key(v, e) == CASE v = "stars" -> <<e.id, Hour(e.at)>>
               [] v = "languages" -> <<e.language, Day(Hour(e.at))>>
               [] v = "activity" -> WeekdayAndHour(Hour(e.at))

Keys(v) == {Key(v, e) : e \in {k \in Kinds : Counts(v, k)}}
Rows(v) == [key : Keys(v), n : 1 .. MaxEvents]
Row(key, n) == [key |-> key, n |-> n]

Plus(rows, row) == [rows EXCEPT ![row] = @ + 1]
Minus(rows, row) == [rows EXCEPT ![row] = @ - 1]

Total(counts, P(_)) == SumFunctionOnSet(counts, {e \in Kinds : P(e)})

Read == CASE route \in {"card", "trending"} -> {"stars"}
          [] route = "trends" -> {"languages"}
          [] route = "heatmap" -> {"activity"}
          [] route \in {"stats", "trendingLanguage"} -> {}

InsertRow(e) ==
  /\ e.at <= now
  /\ Total(table, LAMBDA k : TRUE) < MaxEvents
  /\ \A v \in Views : <<v, e>> \notin due
  /\ table' = [table EXCEPT ![e] = @ + 1]
  /\ due' = due \cup {<<v, e>> : v \in {u \in Read : Counts(u, e)}}
  /\ UNCHANGED <<now, parts, request>>

Trigger(v, e) ==
  /\ <<v, e>> \in due
  /\ parts' = [parts EXCEPT ![v] = Plus(@, Row(Key(v, e), 1))]
  /\ due' = due \ {<<v, e>>}
  /\ UNCHANGED <<now, table, request>>

(* A merge replaces two rows of one key by one with their sum. *)
Merge(v) ==
  /\ \E a, b \in Rows(v) :
       /\ a.key = b.key
       /\ parts[v][a] > 0 /\ parts[v][b] > (IF a = b THEN 1 ELSE 0)
       /\ parts' = [parts EXCEPT ![v] = Plus(Minus(Minus(@, a), b), Row(a.key, a.n + b.n))]
  /\ UNCHANGED <<now, table, due, request>>

Tick ==
  /\ now < MaxTime
  /\ now' = now + 1
  /\ UNCHANGED <<table, due, parts, request>>
-----------------------------------------------------------------------------
(* The queries (queries.py). A result is a bag of rows [key, n].           *)

Present(v) == {row \in Rows(v) : parts[v][row] > 0}
Weight(rows) == [row \in DOMAIN rows |-> row.n * rows[row]]

Sum(v, P(_)) == SumFunctionOnSet(Weight(parts[v]), {row \in Rows(v) : P(row.key)})

(* SELECT g, sum(...) FROM the view WHERE P GROUP BY g *)
Grouped(v, P(_), G(_)) ==
  LET groups == {G(row.key) : row \in {r \in Present(v) : P(r.key)}}
  IN  SetToBag({Row(g, Sum(v, LAMBDA k : P(k) /\ G(k) = g)) : g \in groups})

(* SELECT g, count() FROM events WHERE P GROUP BY g *)
Scanned(P(_), G(_)) ==
  LET groups == {G(e) : e \in {k \in Kinds : table[k] > 0 /\ P(k)}}
  IN  SetToBag({Row(g, Total(table, LAMBDA e : P(e) /\ G(e) = g)) : g \in groups})

(* A single row of counts, there also for no events. *)
Counters(names, P(_, _)) == {Row(name, Total(table, LAMBDA e : P(name, e))) : name \in names}

CardTypes == {"PushEvent", "ForkEvent", "IssuesEvent"}
Lookup(id) == SetToBag(Counters(CardTypes, LAMBDA type, e : e.name = CardName /\ e.type = type)
                         \cup {Row("repo_id", id)})

StarsTotal == SetToBag({Row(0, Sum("stars", LAMBDA k : k[1] = repoId))})
StarsByDay == Grouped("stars", LAMBDA k : k[1] = repoId, LAMBDA k : Day(k[2]))

(* The windows: to the second over the table, from the start of the hour   *)
(* or of the day over a view.                                              *)
TrendsStart == now - TrendsDays * DayHours * HourTicks
FirstHourInside == Hour(now - Window) + 1
FirstHour == Hour(now - Window)

(* coverage, in percent *)
Coverage == LET total == Total(table, LAMBDA e : e.at >= TrendsStart)
                known == Total(table, LAMBDA e : e.at >= TrendsStart /\ e.language # "")
            IN  SetToBag({Row("coverage", IF total = 0 THEN 0 ELSE (100 * known) \div total)})
Series == [row \in {r \in Present("languages") : r.key[2] >= Day(Hour(TrendsStart))}
             |-> parts["languages"][row]]

Heatmap == Grouped("activity", LAMBDA k : TRUE, LAMBDA k : k)

(* events_total and ingest_lag_seconds, by now and the newest event *)
Stats == LET newest == Max({0} \cup {e.at : e \in {k \in Kinds : table[k] > 0}})
         IN  SetToBag(Counters({"events"}, LAMBDA name, e : TRUE) \cup {Row("lag", now - newest)})

Trending == Grouped("stars", LAMBDA k : k[2] >= FirstHour, LAMBDA k : k[1])
TrendingByLanguage ==
  Scanned(LAMBDA e : e.type = "WatchEvent" /\ e.at >= now - Window /\ e.language = Language, LAMBDA e : e.id)

Result(q) == CASE q = "total" -> StarsTotal
               [] q = "days" -> StarsByDay
               [] q = "coverage" -> Coverage
               [] q = "series" -> Series
               [] q = "cells" -> Heatmap
               [] q = "count" -> Stats
               [] q = "top" -> Trending
               [] q = "topLanguage" -> TrendingByLanguage
-----------------------------------------------------------------------------
(* The handlers (routes.py). *)

QueriesOf(r) == CASE r = "card" -> {"lookup", "total", "days"}
                  [] r = "trends" -> {"coverage", "series"}
                  [] r = "heatmap" -> {"cells"}
                  [] r = "stats" -> {"count"}
                  [] r = "trending" -> {"top"}
                  [] r = "trendingLanguage" -> {"topLanguage"}

FirstQueries == IF route = "card" THEN {"lookup"} ELSE QueriesOf(route)

NoBody == <<>>

Init ==
  /\ now = MinTime
  /\ table = [e \in Kinds |-> 0]
  /\ due = {}
  /\ parts = [v \in Views |-> [row \in Rows(v) |-> 0]]
  /\ route \in Routes
  /\ pc = "idle" /\ todo = {} /\ body = NoBody /\ repoId = 0
  /\ floor = table /\ lag = {} /\ startedAt = now
  /\ held = NoBody /\ answer = "none"

Ask ==
  /\ pc = "idle"
  /\ pc' = "asked"
  /\ todo' = FirstQueries
  /\ body' = NoBody
  /\ floor' = table /\ lag' = due /\ startedAt' = now
  /\ UNCHANGED <<store, route, repoId, held, answer>>

Answered(status) ==
  /\ pc' = "idle" /\ todo' = {} /\ body' = NoBody
  /\ answer' = status
  /\ UNCHANGED <<store, route, floor, lag, startedAt>>

With(q, result) == [p \in DOMAIN body \cup {q} |-> IF p = q THEN result ELSE body[p]]

(* any(repo_id): one of those that had the name. *)
NamedIds == {e.id : e \in {k \in Kinds : table[k] > 0 /\ k.name = CardName}}

ResolveName ==
  /\ "lookup" \in todo
  /\ \E id \in NamedIds :
       /\ repoId' = id
       /\ body' = With("lookup", Lookup(id))
  /\ todo' = {"total", "days"}
  /\ UNCHANGED <<store, route, pc, floor, lag, startedAt, held, answer>>

NotFound ==
  /\ "lookup" \in todo /\ NamedIds = {}
  /\ Answered("404")
  /\ UNCHANGED <<repoId, held>>

RunQuery(q) ==
  /\ q \in todo \ {"lookup"}
  /\ body' = With(q, Result(q))
  /\ todo' = todo \ {q}
  /\ UNCHANGED <<store, route, pc, repoId, floor, lag, startedAt, held, answer>>

(* One failing query fails the request, also while the other one runs. *)
QueryFails ==
  /\ todo # {}
  /\ Answered("500")
  /\ UNCHANGED <<repoId, held>>

(* The payload, once all results are there: generated_at makes every page  *)
(* of /trending one of its own.                                            *)
Payload == IF route \in {"trending", "trendingLanguage"} THEN With("generatedAt", now) ELSE body

(* etag_for: the hash of the whole body. *)
EtagOfTotals(b) == [q \in DOMAIN b \ {"days"} |-> b[q]]
Etag(b) == b

(* conditional_response *)
NotModified ==
  /\ pc = "asked" /\ todo = {}
  /\ held # NoBody /\ Etag(Payload) = Etag(held)
  /\ Answered("304")
  /\ UNCHANGED <<repoId, held>>

Respond ==
  /\ pc = "asked" /\ todo = {}
  /\ held = NoBody \/ Etag(Payload) # Etag(held)
  /\ Answered("200")
  /\ held' = Payload
  /\ UNCHANGED repoId

Next == \/ \E e \in Kinds : InsertRow(e) \/ \E v \in Views : Trigger(v, e)
        \/ \E v \in Views : Merge(v)
        \/ Tick
        \/ Ask \/ ResolveName \/ NotFound \/ QueryFails \/ NotModified \/ Respond
        \/ \E q \in {"total", "days", "coverage", "series", "cells", "count", "top", "topLanguage"} : RunQuery(q)

Spec == Init /\ [][Next]_vars
-----------------------------------------------------------------------------
(* Shape of the state: a view has rows for the events it counts only, and  *)
(* a result belongs to a query of the route.                               *)
TypeOK ==
  /\ now \in MinTime .. MaxTime /\ startedAt \in MinTime .. now
  /\ table \in [Kinds -> 0 .. MaxEvents] /\ floor \in [Kinds -> 0 .. MaxEvents]
  /\ due \subseteq Views \X Kinds /\ lag \subseteq Views \X Kinds
  /\ DOMAIN parts = Views
  /\ \A v \in Views : /\ parts[v] \in [Rows(v) -> Nat]
                      /\ v = "languages" => \A row \in Present(v) : row.key[1] # ""
  /\ route \in Routes /\ pc \in {"idle", "asked"}
  /\ todo \subseteq QueriesOf(route)
  /\ DOMAIN body \subseteq QueriesOf(route)
  /\ repoId \in {0} \cup {e.id : e \in Kinds}
  /\ answer \in {"none", "200", "304", "404", "500"}

Confirmed == pc = "idle" /\ answer \in {"200", "304"}

(* What was in the table, or in a view, when the request began.            *)
AtStart(source) == [e \in Kinds |-> IF <<source, e>> \in lag THEN floor[e] - 1 ELSE floor[e]]

(* Where a query reads, and which keys its rows have.                      *)
Source(q) == CASE q \in {"total", "days", "top"} -> "stars"
               [] q = "series" -> "languages"
               [] q = "cells" -> "activity"
               [] OTHER -> "table"

Ids == {e.id : e \in Kinds}
Days == 0 .. Day(Hour(MaxTime))

KeysOf(q) == CASE q = "lookup" -> CardTypes
               [] q = "total" -> {0}
               [] q = "days" -> Days
               [] q = "cells" -> (0 .. WeekDays - 1) \X (0 .. DayHours - 1)
               [] q = "count" -> {"events"}
               [] q \in {"top", "topLanguage"} -> Ids
               [] q = "series" -> (Languages \ {""}) \X Days
               [] OTHER -> {}

(* The events a number is to count. *)
Star(e) == e.type = "WatchEvent"

IsOf(q, key, e) == CASE q = "lookup" -> e.name = CardName /\ e.type = key
                     [] q = "total" -> Star(e) /\ e.id = repoId
                     [] q = "days" -> Star(e) /\ e.id = repoId /\ Day(Hour(e.at)) = key
                     [] q = "cells" -> WeekdayAndHour(Hour(e.at)) = key
                     [] q = "count" -> TRUE
                     [] q = "top" -> Star(e) /\ e.id = key
                     [] q = "topLanguage" -> Star(e) /\ e.id = key /\ e.language = Language
                     [] q = "series" -> e.language = key[1] /\ Day(Hour(e.at)) = key[2]

(* A window ends now, and begins to the second, or at the border of the    *)
(* hour or the day in which it would have begun when the client asked.     *)
Windowed == {"top", "topLanguage", "series"}
Length(q) == IF q = "series" THEN TrendsDays * DayHours * HourTicks ELSE Window
Border(q) == CASE q = "top" -> HourTicks * Hour(startedAt - Length(q))
               [] q = "topLanguage" -> startedAt - Length(q)
               [] q = "series" -> HourTicks * (DayHours * Day(Hour(startedAt - Length(q))))

MustCount(q, key) == {e \in Kinds : IsOf(q, key, e) /\ (q \in Windowed => e.at >= now - Length(q))}
MayCount(q, key) == {e \in Kinds : IsOf(q, key, e) /\ (q \in Windowed => e.at >= Border(q))}

CountIn(rows, key) ==
  SumFunctionOnSet([row \in BagToSet(rows) |-> row.n * rows[row]], {row \in BagToSet(rows) : row.key = key})

IsBetween(q, rows) ==
  \A key \in KeysOf(q) :
    CountIn(rows, key) \in SumFunctionOnSet(AtStart(Source(q)), MustCount(q, key))
                             .. SumFunctionOnSet(table, MayCount(q, key))

OneRowPerKey(rows) ==
  /\ \A row \in BagToSet(rows) : rows[row] = 1
  /\ \A a, b \in BagToSet(rows) : a.key = b.key => a = b

(* What a client holds after a 200 or a 304 is complete, and each count in *)
(* it without a time window lies between what was stored when it asked and *)
(* what is stored now: although the card is put together from three        *)
(* queries at three moments and from a table and a view, although the      *)
(* views hold several rows of one key, and although a 304 sends nothing. A *)
(* day of the card and a cell of the heatmap come once. 404 is said only   *)
(* of a name no event had when the client asked (routes.py:239-264,        *)
(* 351-360, 387-399; http_cache.py:41-43).                                 *)
HeldIsBetween ==
  /\ Confirmed =>
       /\ DOMAIN held \ {"generatedAt"} = QueriesOf(route)
       /\ \A q \in QueriesOf(route) \ Windowed : IsBetween(q, held[q])
       /\ \A q \in QueriesOf(route) \cap {"days", "cells"} : OneRowPerKey(held[q])
  /\ pc = "idle" /\ answer = "404" => Total(floor, LAMBDA e : e.name = CardName) = 0

(* A window read from a view of whole hours or days never shows less than  *)
(* the window to the second, and more by the hour or the day at its border *)
(* at most; with a language it is read from the table and shows no more.   *)
(* queries.py:40-44 allows for data that is missing at the border: there   *)
(* is none.                                                                *)
WindowNeverShort ==
  Confirmed => \A q \in QueriesOf(route) \cap Windowed : IsBetween(q, held[q])

(* The inductive invariant of AnalyticsReads_proofs. What a view counts,   *)
(* merged or not, is what the table has, less what is still due; whatever  *)
(* was stored when the client asked is stored now; and each result of a    *)
(* request that is under way is sound already.                             *)
Stored(source) == [e \in Kinds |-> IF <<source, e>> \in due THEN table[e] - 1 ELSE table[e]]

CountedUnder(v, keys) == {e \in Kinds : Counts(v, e) /\ Key(v, e) \in keys}

ViewsComplete ==
  /\ \A v \in Read : \A keys \in SUBSET Keys(v) :
       SumFunctionOnSet(Weight(parts[v]), {row \in Rows(v) : row.key \in keys})
         = SumFunctionOnSet(Stored(v), CountedUnder(v, keys))
  /\ \A v \in Views \ Read : Present(v) = {}

StoreInOrder ==
  /\ Total(table, LAMBDA e : TRUE) <= MaxEvents
  /\ \A v \in Views, e \in Kinds :
       /\ <<v, e>> \in due => v \in Read /\ Counts(v, e) /\ table[e] > 0
       /\ <<v, e>> \in lag => floor[e] > 0
       /\ AtStart(v)[e] <= Stored(v)[e]
  /\ \A e \in Kinds : floor[e] <= table[e]

RequestInOrder ==
  /\ pc = "idle" => todo = {} /\ DOMAIN body = {}
  /\ pc = "asked" => \/ route = "card" /\ todo = {"lookup"} /\ DOMAIN body = {}
                     \/ todo \cup DOMAIN body = QueriesOf(route) /\ "lookup" \notin todo

IsSound(q, rows) == IsBetween(q, rows) /\ (q \in {"days", "cells"} => OneRowPerKey(rows))

ReadsInv ==
  /\ TypeOK
  /\ ViewsComplete
  /\ StoreInOrder
  /\ RequestInOrder
  /\ \A q \in DOMAIN body : IsSound(q, body[q])
  /\ HeldIsBetween
  /\ WindowNeverShort

(* 002_mv_hourly.sql:10-14: every SELECT from a view must aggregate, since *)
(* rows that are not merged yet share a key. A series of                   *)
(* /languages/trends would then have one point for a day.                  *)
OnePointPerDay == Confirmed /\ route = "trends" => OneRowPerKey(held["series"])
=============================================================================
