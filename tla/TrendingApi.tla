------------------------------ MODULE TrendingApi ------------------------------
(***************************************************************************)
(* GET /api/v1/trending (services/pulse-api/app/api): clients walk the     *)
(* pages of the ranking by the cursor each answer hands them, while the    *)
(* star counters of the window change, and every page comes from Redis or  *)
(* is built from ClickHouse and then put there. Requests of several        *)
(* clients run concurrently, in one process or in several.                 *)
(*                                                                         *)
(* One combination of window, language and limit is modelled; a cursor is  *)
(* the triple that encode_cursor and decode_cursor carry to and fro.       *)
(*                                                                         *)
(* Bounds, for model checking only: MaxStars, MaxChanges of counters and   *)
(* MaxTime. MaxBuild is how long it takes from the snapshot a query reads  *)
(* to the SET of the page.                                                 *)
(***************************************************************************)
EXTENDS Integers, Sequences, FiniteSets

CONSTANTS NumRepos, Walkers,
          Limit,       (* rows on a page *)
          Ttl,         (* TRENDING_CACHE_TTL_SECONDS *)
          InitialStars, (* the counters a run may begin with *)
          MaxBuild, MaxStars, MaxChanges, MaxTime

ASSUME TrendingAssumption ==
  /\ NumRepos \in Nat /\ Limit \in Nat \ {0} /\ Ttl \in Nat \ {0}
  /\ MaxBuild \in Nat /\ MaxStars \in Nat /\ MaxChanges \in Nat
  /\ MaxTime \in Nat \ {0}
  /\ InitialStars \subseteq [1 .. NumRepos -> 0 .. MaxStars]

Repos == 1 .. NumRepos   (* repo_id *)

VARIABLES time,
          stars,      (* stars of each repository in the window; 0: no row for it *)
          changedAt,  (* when the counter last changed *)
          changes,    (* how much of MaxChanges is spent *)
          cache,      (* Redis: a function from the keys it holds *)
          pc,         (* where the request of each walker is *)
          cursor,     (* the cursor it carries *)
          body,       (* the page it has built: rows, and when they were read *)
          seen,       (* the rows the walker has received so far *)
          oldest      (* when the oldest page among them was read *)

vars == <<time, stars, changedAt, changes, cache, pc, cursor, body, seen, oldest>>

NoCursor == [stars |-> 0, repo |-> 0, rank |-> 0]
Row == [repo : Repos, stars : 1 .. MaxStars, rank : 1 .. NumRepos * MaxStars]
NoBody == [rows |-> <<>>, readAt |-> 0]

Init ==
  /\ time = 1
  /\ stars \in InitialStars
  /\ changedAt = [r \in Repos |-> 0]
  /\ changes = 0
  /\ cache = <<>>
  /\ pc = [w \in Walkers |-> "get"]
  /\ cursor = [w \in Walkers |-> NoCursor]
  /\ body = [w \in Walkers |-> NoBody]
  /\ seen = [w \in Walkers |-> <<>>]
  /\ oldest = [w \in Walkers |-> MaxTime]
-----------------------------------------------------------------------------
(* build_trending_query *)

(* _CURSOR_HAVING *)
BelowByStars(r, c) == stars[r] < c.stars
Below(r, c) == stars[r] < c.stars \/ (stars[r] = c.stars /\ r > c.repo)

Rows(c) == {r \in Repos : stars[r] > 0 /\ (c = NoCursor \/ Below(r, c))}

(* ORDER BY stars DESC, repo_id ASC *)
Before(p, q) == stars[p] > stars[q] \/ (stars[p] = stars[q] /\ p < q)
Position(r, S) == 1 + Cardinality({q \in S : Before(q, r)})

(* LIMIT, and the rank that goes on from the cursor's. *)
FirstRank(c) == 1
RankAfter(c) == c.rank + 1

EveryRow(S) == Cardinality(S)
PageLength(S) == IF Cardinality(S) < Limit THEN Cardinality(S) ELSE Limit

Page(c) ==
  LET S == Rows(c)
  IN  [i \in 1 .. PageLength(S) |->
        LET r == CHOOSE r \in S : Position(r, S) = i
        IN  [repo |-> r, stars |-> stars[r], rank |-> RankAfter(c) + i - 1]]

(* next_cursor: the last row of a full page, NoCursor for null. *)
NextCursor(rows) ==
  IF Len(rows) = Limit
  THEN LET last == rows[Len(rows)]
       IN  [stars |-> last.stars, repo |-> last.repo, rank |-> last.rank]
  ELSE NoCursor
-----------------------------------------------------------------------------
(* cached_json_response *)

Key(c) == c

Hit(k) == k \in DOMAIN cache

Entry(page) == [rows |-> page.rows, readAt |-> page.readAt, expires |-> time + Ttl]
Put(k, page) == [j \in DOMAIN cache \cup {k} |-> IF j = k THEN Entry(page) ELSE cache[j]]

(* The answer: the walker goes on with next_cursor, or is done. *)
Receive(w, page) ==
  /\ seen' = [seen EXCEPT ![w] = @ \o page.rows]
  /\ oldest' = [oldest EXCEPT ![w] = IF page.readAt < @ THEN page.readAt ELSE @]
  /\ cursor' = [cursor EXCEPT ![w] = NextCursor(page.rows)]
  /\ pc' = [pc EXCEPT ![w] = IF NextCursor(page.rows) = NoCursor THEN "done" ELSE "get"]

(* A hit leaves the entry and its expiry as they are. *)
ExpiryMovedOn(k) == [cache EXCEPT ![k].expires = time + Ttl]
AfterHit(k) == cache

GetHit(w) ==
  /\ pc[w] = "get" /\ Hit(Key(cursor[w]))
  /\ Receive(w, cache[Key(cursor[w])])
  /\ cache' = AfterHit(Key(cursor[w]))
  /\ UNCHANGED <<time, stars, changedAt, changes, body>>

GetMiss(w) ==
  /\ pc[w] = "get" /\ ~Hit(Key(cursor[w]))
  /\ pc' = [pc EXCEPT ![w] = "build"]
  /\ UNCHANGED <<time, stars, changedAt, changes, cache, cursor, body, seen, oldest>>

Build(w) ==
  /\ pc[w] = "build"
  /\ body' = [body EXCEPT ![w] = [rows |-> Page(cursor[w]), readAt |-> time]]
  /\ pc' = [pc EXCEPT ![w] = "set"]
  /\ UNCHANGED <<time, stars, changedAt, changes, cache, cursor, seen, oldest>>

(* The query fails: an answer 5xx, and the client asks for the page again. *)
BuildFails(w) ==
  /\ pc[w] = "build"
  /\ pc' = [pc EXCEPT ![w] = "get"]
  /\ UNCHANGED <<time, stars, changedAt, changes, cache, cursor, body, seen, oldest>>

Set(w) ==
  /\ pc[w] = "set"
  /\ cache' = Put(Key(cursor[w]), body[w])
  /\ Receive(w, body[w])
  /\ body' = [body EXCEPT ![w] = NoBody]
  /\ UNCHANGED <<time, stars, changedAt, changes>>
-----------------------------------------------------------------------------
(* An entry is gone when its time is over. *)
Unexpired(now) == [k \in {j \in DOMAIN cache : now < cache[j].expires} |-> cache[k]]

(* Stars arrive, and the window moves past old ones. *)
Change(r) ==
  /\ changes < MaxChanges
  /\ \E n \in 0 .. MaxStars : stars[r] # n /\ stars' = [stars EXCEPT ![r] = n]
  /\ changedAt' = [changedAt EXCEPT ![r] = time]
  /\ changes' = changes + 1
  /\ UNCHANGED <<time, cache, pc, cursor, body, seen, oldest>>

Tick ==
  /\ time < MaxTime
  /\ \A w \in Walkers : pc[w] = "set" => time < body[w].readAt + MaxBuild
  /\ time' = time + 1
  /\ cache' = Unexpired(time + 1)
  /\ UNCHANGED <<stars, changedAt, changes, pc, cursor, body, seen, oldest>>

Next == \/ \E w \in Walkers : GetHit(w) \/ GetMiss(w) \/ Build(w) \/ BuildFails(w) \/ Set(w)
        \/ \E r \in Repos : Change(r)
        \/ Tick

Spec == Init /\ [][Next]_vars
-----------------------------------------------------------------------------
(* Shape of the state: keys and cursors are rows of some ranking.          *)
TypeOK ==
  /\ time \in 1 .. MaxTime
  /\ stars \in [Repos -> 0 .. MaxStars]
  /\ changedAt \in [Repos -> 0 .. MaxTime]
  /\ changes \in 0 .. MaxChanges
  /\ DOMAIN cache \subseteq Row \cup {NoCursor}
  /\ \A k \in DOMAIN cache :
       /\ cache[k] \in [rows : Seq(Row), readAt : 1 .. MaxTime, expires : 1 .. MaxTime + Ttl]
       /\ Len(cache[k].rows) <= Limit
  /\ pc \in [Walkers -> {"get", "build", "set", "done"}]
  /\ cursor \in [Walkers -> Row \cup {NoCursor}]
  /\ body \in [Walkers -> [rows : Seq(Row), readAt : 0 .. MaxTime]]
  /\ seen \in [Walkers -> Seq(Row)]
  /\ oldest \in [Walkers -> 0 .. MaxTime]

Shown(w, r) == {i \in 1 .. Len(seen[w]) : seen[w][i].repo = r}

(* A repository whose counter did not change since the oldest page of the  *)
(* walk was read is shown once, and not left out, whatever moved up or     *)
(* down around it and whichever pages came from the cache                  *)
(* (pagination.py:3-9).                                                    *)
StableShownOnce ==
  \A w \in Walkers : \A r \in Repos :
    changedAt[r] < oldest[w] /\ stars[r] > 0 =>
      /\ Cardinality(Shown(w, r)) <= 1
      /\ pc[w] = "done" => Shown(w, r) # {}

(* No answer shows counters older than one lifetime of an entry and the    *)
(* time it took to build it, although a slow request may overwrite the     *)
(* page of a faster one with an older page (cache.py:45-57).               *)
CachedIsFresh ==
  \A k \in DOMAIN cache : time - cache[k].readAt < Ttl + MaxBuild

(* The inductive invariant of TrendingApi_proofs. Of a row: its rank is at *)
(* most its place among all rows there could be.                           *)
Place(row) == (MaxStars - row.stars) * NumRepos + row.repo
Ranked(row) == row \in Row /\ row.rank <= Place(row)
CursorInv(c) == c = NoCursor \/ Ranked(c)

(* Of a page, wherever it is kept: it shows every repository between its   *)
(* two cursors whose counter did not change since, once.                   *)
Stable(r, since) == changedAt[r] < since /\ stars[r] > 0
Ahead(r, c) == c = NoCursor \/ Below(r, c)
Passed(r, c) == c # NoCursor /\ ~Below(r, c)
Lower(c, k) == c.stars < k.stars \/ (c.stars = k.stars /\ c.repo > k.repo)

PageInv(k, rows, readAt) ==
  /\ readAt <= time /\ Len(rows) <= Limit
  /\ \A i \in 1 .. Len(rows) : Ranked(rows[i])
  /\ \A i, j \in 1 .. Len(rows) : rows[i].repo = rows[j].repo => i = j
  /\ NextCursor(rows) # NoCursor /\ k # NoCursor => Lower(NextCursor(rows), k)
  /\ \A r \in Repos : Stable(r, readAt) =>
       ((\E i \in 1 .. Len(rows) : rows[i].repo = r) <=>
          Ahead(r, k) /\ (NextCursor(rows) = NoCursor \/ Passed(r, NextCursor(rows))))

CacheInv(k) ==
  /\ CursorInv(k) /\ PageInv(k, cache[k].rows, cache[k].readAt)
  /\ time < cache[k].expires /\ cache[k].expires <= cache[k].readAt + MaxBuild + Ttl

(* Of a walk: it has shown what its cursor has passed.                     *)
WalkInv(w) ==
  /\ CursorInv(cursor[w])
  /\ pc[w] = "set" => /\ PageInv(cursor[w], body[w].rows, body[w].readAt)
                      /\ body[w].readAt >= 1 /\ time <= body[w].readAt + MaxBuild
  /\ oldest[w] <= time \/ (seen[w] = <<>> /\ cursor[w] = NoCursor /\ pc[w] # "done")
  /\ \A r \in Repos : Stable(r, oldest[w]) =>
       /\ Shown(w, r) # {} <=> pc[w] = "done" \/ Passed(r, cursor[w])
       /\ \A i, j \in Shown(w, r) : i = j

TrendInv ==
  /\ TypeOK
  /\ \A k \in DOMAIN cache : CacheInv(k)
  /\ \A w \in Walkers : WalkInv(w)
=============================================================================
