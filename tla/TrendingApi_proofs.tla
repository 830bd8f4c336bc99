-------------------------- MODULE TrendingApi_proofs --------------------------
(***************************************************************************)
(* What TrendingApi promises, proved for any number of repositories and    *)
(* walkers, any size of the page and any lifetime of an entry. TrendInv,   *)
(* of module TrendingApi, is inductive; that a page shows what it should   *)
(* rests on PositionsAreTaken: ORDER BY numbers the rows without a gap.    *)
(***************************************************************************)
EXTENDS TrendingApi, FiniteSetTheorems, FunctionTheorems, TLAPS

-----------------------------------------------------------------------------
(* ORDER BY stars DESC, repo_id ASC. S is the rows to be ordered.          *)

Earlier(r, S) == {q \in S : Before(q, r)}

LEMMA ReposAreFinite ==
  ASSUME NEW S \in SUBSET Repos
  PROVE  IsFiniteSet(S) /\ Cardinality(S) \in Nat
<1>1. IsFiniteSet(Repos) BY FS_Interval, TrendingAssumption DEF Repos
<1>2. IsFiniteSet(S) BY <1>1, FS_Subset
<1> QED BY <1>2, FS_CardinalityType

LEMMA BeforeIsAnOrder ==
  ASSUME TypeOK
  PROVE  /\ \A p \in Repos : ~Before(p, p)
         /\ \A p, q \in Repos : p = q \/ Before(p, q) \/ Before(q, p)
         /\ \A p, q, r \in Repos : Before(p, q) /\ Before(q, r) => Before(p, r)
<1>1. \A p \in Repos : p \in Int /\ stars[p] \in Int BY TrendingAssumption DEF TypeOK, Repos
<1> QED BY <1>1 DEF Before

LEMMA PositionType ==
  ASSUME TypeOK, NEW S \in SUBSET Repos, NEW r \in S
  PROVE  /\ IsFiniteSet(Earlier(r, S)) /\ Cardinality(Earlier(r, S)) \in Nat
         /\ Position(r, S) = 1 + Cardinality(Earlier(r, S))
         /\ Position(r, S) \in 1 .. Cardinality(S)
<1>1. Earlier(r, S) \in SUBSET Repos BY DEF Earlier
<1>2. IsFiniteSet(Earlier(r, S)) /\ Cardinality(Earlier(r, S)) \in Nat BY <1>1, ReposAreFinite
<1>3. Position(r, S) = 1 + Cardinality(Earlier(r, S)) BY DEF Position, Earlier
<1>4. r \notin Earlier(r, S) BY BeforeIsAnOrder DEF Earlier
<1>5. Cardinality(Earlier(r, S) \cup {r}) = Cardinality(Earlier(r, S)) + 1
  BY <1>2, <1>4, FS_AddElement
<1>6. Earlier(r, S) \cup {r} \in SUBSET S BY DEF Earlier
<1>7. Cardinality(Earlier(r, S) \cup {r}) <= Cardinality(S) BY <1>6, ReposAreFinite, FS_Subset
<1>8. Cardinality(S) \in Nat BY ReposAreFinite
<1>9. Position(r, S) \in 1 .. Cardinality(S) BY <1>2, <1>3, <1>5, <1>7, <1>8
<1> QED BY <1>2, <1>3, <1>9

LEMMA PositionGrows ==
  ASSUME TypeOK, NEW S \in SUBSET Repos, NEW p \in S, NEW q \in S, Before(p, q)
  PROVE  Position(p, S) < Position(q, S)
<1>1. p \notin Earlier(p, S) BY BeforeIsAnOrder DEF Earlier
<1>2. Earlier(p, S) \cup {p} \in SUBSET Earlier(q, S) BY BeforeIsAnOrder DEF Earlier
<1>3. IsFiniteSet(Earlier(p, S)) /\ IsFiniteSet(Earlier(q, S)) BY PositionType
<1>4. Cardinality(Earlier(p, S) \cup {p}) = Cardinality(Earlier(p, S)) + 1
  BY <1>1, <1>3, FS_AddElement
<1>5. Cardinality(Earlier(p, S) \cup {p}) <= Cardinality(Earlier(q, S)) BY <1>2, <1>3, FS_Subset
<1>6. /\ Cardinality(Earlier(p, S)) \in Nat /\ Cardinality(Earlier(q, S)) \in Nat
      /\ Position(p, S) = 1 + Cardinality(Earlier(p, S))
      /\ Position(q, S) = 1 + Cardinality(Earlier(q, S))
  BY PositionType
<1> QED BY <1>4, <1>5, <1>6

LEMMA PositionIsInjective ==
  ASSUME TypeOK, NEW S \in SUBSET Repos, NEW p \in S, NEW q \in S, Position(p, S) = Position(q, S)
  PROVE  p = q
<1>1. Position(p, S) \in Int /\ Position(q, S) \in Int BY PositionType
<1>2. ~Before(p, q) /\ ~Before(q, p) BY <1>1, PositionGrows
<1> QED BY <1>2, BeforeIsAnOrder

(* The positions of the rows are the numbers from 1, none left out.        *)
LEMMA PositionsAreTaken ==
  ASSUME TypeOK, NEW S \in SUBSET Repos, NEW i \in 1 .. Cardinality(S)
  PROVE  \E r \in S : Position(r, S) = i
<1> DEFINE f == [r \in S |-> Position(r, S)]
           T == 1 .. Cardinality(S)
<1>1. IsFiniteSet(S) /\ Cardinality(S) \in Nat BY ReposAreFinite
<1>2. f \in [S -> T] BY PositionType
<1>3. \A p, q \in S : f[p] = f[q] => p = q BY PositionIsInjective
<1>4. f \in Injection(S, T) BY <1>2, <1>3, Fun_IsInj
<1>5. IsFiniteSet(T) /\ Cardinality(T) = Cardinality(S)
  BY <1>1, FS_Interval
<1>6. f \in Surjection(S, T)
  <2> HIDE DEF f, T
  <2> QED BY <1>4, <1>5, FS_Injection
<1>7. \A t \in T : \E r \in S : f[r] = t
  <2> HIDE DEF f, T
  <2> QED BY <1>6 DEF Surjection
<1> QED BY <1>7
-----------------------------------------------------------------------------
(* The place of a row among all there could be.                            *)

LEMMA PlaceGrows ==
  ASSUME NEW a \in 0 .. MaxStars, NEW b \in 0 .. MaxStars, NEW p \in Repos, NEW q \in Repos,
         a > b \/ (a = b /\ p < q)
  PROVE  (MaxStars - a) * NumRepos + p < (MaxStars - b) * NumRepos + q
<1> USE TrendingAssumption
<1>1. p \in 1 .. NumRepos /\ q \in 1 .. NumRepos BY DEF Repos
<1>2. CASE a = b /\ p < q
  <2>1. (MaxStars - a) * NumRepos \in Int OBVIOUS
  <2> QED BY <1>1, <1>2, <2>1
<1>3. CASE a > b
  <2> DEFINE i == MaxStars - a
             j == MaxStars - b
  <2>1. i \in Nat /\ j \in Nat /\ i + 1 <= j BY <1>3
  <2>2. (i + 1) * NumRepos <= j * NumRepos
    <3> HIDE DEF i, j
    <3> QED BY <2>1
  <2>3. (i + 1) * NumRepos = i * NumRepos + NumRepos BY <2>1
  <2>4. i * NumRepos \in Int /\ j * NumRepos \in Int BY <2>1
  <2> HIDE DEF i, j
  <2>5. i * NumRepos + p < j * NumRepos + q BY <1>1, <2>2, <2>3, <2>4
  <2> QED BY <2>5 DEF i, j
<1> QED BY <1>2, <1>3

LEMMA PlaceType ==
  ASSUME NEW a \in 1 .. MaxStars, NEW p \in Repos
  PROVE  (MaxStars - a) * NumRepos + p \in 1 .. NumRepos * MaxStars
<1> USE TrendingAssumption
<1>1. p \in 1 .. NumRepos BY DEF Repos
<1> DEFINE i == MaxStars - a
<1>2. i \in Nat /\ i + 1 <= MaxStars OBVIOUS
<1> HIDE DEF i
<1>3. i * NumRepos \in Nat BY <1>2
<1>4. (i + 1) * NumRepos <= MaxStars * NumRepos BY <1>2
<1>5. (i + 1) * NumRepos = i * NumRepos + NumRepos BY <1>2
<1>6. MaxStars * NumRepos = NumRepos * MaxStars /\ NumRepos * MaxStars \in Nat OBVIOUS
<1>7. i * NumRepos + p \in 1 .. NumRepos * MaxStars BY <1>1, <1>3, <1>4, <1>5, <1>6
<1> QED BY <1>7 DEF i

(* The rank of a row goes on from the cursor's by its position, and the    *)
(* rows that are not before the cursor have places enough for that.        *)
LEMMA RankIsAtMostPlace ==
  ASSUME TypeOK, NEW c, CursorInv(c), NEW r \in Rows(c)
  PROVE  c.rank + Position(r, Rows(c)) <= (MaxStars - stars[r]) * NumRepos + r
<1> DEFINE S == Rows(c)
           P(q) == (MaxStars - stars[q]) * NumRepos + q
           base == IF c = NoCursor THEN 0 ELSE Place(c)
           A == Earlier(r, S) \cup {r}
           T == base + 1 .. P(r)
           f == [q \in A |-> P(q)]
<1> USE TrendingAssumption
<1>1. S \in SUBSET Repos /\ r \in S BY DEF Rows
<1>2. \A q \in S : stars[q] \in 1 .. MaxStars /\ q \in Repos BY DEF Rows, TypeOK
<1>3. \A q \in S : P(q) \in Nat
  <2> TAKE q \in S
  <2>1. P(q) \in 1 .. NumRepos * MaxStars BY <1>2, PlaceType
  <2>2. NumRepos * MaxStars \in Nat OBVIOUS
  <2> QED BY <2>1, <2>2
<1>4. base \in Nat /\ c.rank \in Nat /\ c.rank <= base
  <2>1. CASE c = NoCursor BY <2>1 DEF NoCursor
  <2>2. CASE c # NoCursor
    <3>1. c \in Row /\ c.rank <= Place(c) BY <2>2 DEF CursorInv, Ranked
    <3>2. c.stars \in 1 .. MaxStars /\ c.repo \in Repos /\ c.rank \in 1 .. NumRepos * MaxStars
      BY <3>1 DEF Row
    <3>3. Place(c) \in 1 .. NumRepos * MaxStars BY <3>2, PlaceType DEF Place
    <3>4. NumRepos * MaxStars \in Nat OBVIOUS
    <3> QED BY <2>2, <3>1, <3>2, <3>3, <3>4
  <2> QED BY <2>1, <2>2
<1>5. \A q \in S : base + 1 <= P(q)
  <2> TAKE q \in S
  <2>1. CASE c = NoCursor
    <3>1. P(q) \in 1 .. NumRepos * MaxStars BY <1>2, PlaceType
    <3>2. NumRepos * MaxStars \in Nat OBVIOUS
    <3> QED BY <2>1, <3>1, <3>2
  <2>2. CASE c # NoCursor
    <3>1. c \in Row BY <2>2 DEF CursorInv, Ranked
    <3>2. c.stars \in 1 .. MaxStars /\ c.repo \in Repos BY <3>1 DEF Row
    <3>3. Below(q, c) BY <2>2 DEF Rows
    <3>4. c.stars > stars[q] \/ (c.stars = stars[q] /\ c.repo < q)
      BY <1>2, <3>2, <3>3 DEF Below, Repos
    <3>5. Place(c) < P(q)
      <4>1. c.stars \in 0 .. MaxStars /\ stars[q] \in 0 .. MaxStars /\ q \in Repos
        BY <1>2, <3>2
      <4>2. (MaxStars - c.stars) * NumRepos + c.repo < P(q)
        BY <3>2, <3>4, <4>1, PlaceGrows
      <4> QED BY <4>2 DEF Place
    <3>6. Place(c) \in Nat BY <1>4, <2>2
    <3> QED BY <1>3, <2>2, <3>5, <3>6
  <2> QED BY <2>1, <2>2
<1>6. \A p, q \in S : Before(p, q) => P(p) < P(q)
  <2> SUFFICES ASSUME NEW p \in S, NEW q \in S, Before(p, q) PROVE P(p) < P(q) OBVIOUS
  <2>1. /\ stars[p] \in 0 .. MaxStars /\ stars[q] \in 0 .. MaxStars
        /\ p \in Repos /\ q \in Repos
    BY <1>2
  <2>2. stars[p] > stars[q] \/ (stars[p] = stars[q] /\ p < q) BY DEF Before
  <2> HIDE DEF S
  <2> QED BY <2>1, <2>2, PlaceGrows
<1>7. A \in SUBSET S BY <1>1 DEF Earlier
<1> HIDE DEF P, base, S
<1>8. \A q \in A : P(q) \in T
  <2> SUFFICES ASSUME NEW q \in A PROVE P(q) \in T OBVIOUS
  <2>1. q = r \/ Before(q, r) BY DEF Earlier
  <2>2. P(q) <= P(r) BY <1>1, <1>3, <1>6, <1>7, <2>1
  <2>3. base + 1 <= P(q) /\ P(q) \in Nat /\ P(r) \in Nat BY <1>1, <1>3, <1>5, <1>7
  <2> QED BY <1>4, <2>2, <2>3
<1>9. \A p, q \in A : f[p] = f[q] => p = q
  <2> SUFFICES ASSUME NEW p \in A, NEW q \in A, P(p) = P(q) PROVE p = q OBVIOUS
  <2>1. P(p) \in Nat /\ P(q) \in Nat BY <1>3, <1>7
  <2>2. ~Before(p, q) /\ ~Before(q, p) BY <1>6, <1>7, <2>1
  <2> QED BY <1>1, <1>7, <2>2, BeforeIsAnOrder
<1>10. f \in [A -> T] BY <1>8
<1>11. IsFiniteSet(T) /\ Cardinality(T) = P(r) - base
  <2>1. base + 1 \in Int /\ P(r) \in Int /\ base + 1 <= P(r) BY <1>1, <1>3, <1>4, <1>5
  <2> HIDE DEF T
  <2>2. IsFiniteSet(T) /\ Cardinality(T) = IF base + 1 > P(r) THEN 0 ELSE P(r) - (base + 1) + 1
    BY <2>1, FS_Interval DEF T
  <2> QED BY <1>4, <2>1, <2>2
<1>12. Cardinality(A) <= Cardinality(T)
  <2> HIDE DEF f, A, T
  <2>1. f \in Injection(A, T) BY <1>9, <1>10, Fun_IsInj
  <2> QED BY <1>11, <2>1, FS_Injection
<1>13. Cardinality(A) = Position(r, S)
  <2>1. r \notin Earlier(r, S) BY <1>1, BeforeIsAnOrder DEF Earlier
  <2>2. IsFiniteSet(Earlier(r, S)) /\ Position(r, S) = 1 + Cardinality(Earlier(r, S))
        /\ Cardinality(Earlier(r, S)) \in Nat
    BY <1>1, PositionType
  <2>3. Cardinality(A) = Cardinality(Earlier(r, S)) + 1 BY <2>1, <2>2, FS_AddElement
  <2> QED BY <2>2, <2>3
<1>14. Position(r, S) \in Nat
  <2>1. Position(r, S) \in 1 .. Cardinality(S) BY <1>1, PositionType
  <2>2. Cardinality(S) \in Nat BY <1>1, ReposAreFinite
  <2> QED BY <2>1, <2>2
<1>15. c.rank + Position(r, S) <= P(r)
  <2>1. Position(r, S) <= P(r) - base BY <1>11, <1>12, <1>13
  <2>2. P(r) \in Nat BY <1>1, <1>3
  <2> QED BY <1>4, <1>14, <2>1, <2>2
<1> QED BY <1>15 DEF P, S
-----------------------------------------------------------------------------
(* What a query answers.                                                   *)

LEMMA PageRows ==
  ASSUME TypeOK, NEW c, CursorInv(c)
  PROVE  LET S == Rows(c)
             n == PageLength(S)
         IN  /\ S \in SUBSET Repos /\ n \in Nat /\ n <= Limit /\ n <= Cardinality(S)
             /\ n < Limit => n = Cardinality(S)
             /\ Len(Page(c)) = n /\ DOMAIN Page(c) = 1 .. n
             /\ \A i \in 1 .. n : \E r \in S :
                  /\ Position(r, S) = i
                  /\ Page(c)[i] = [repo |-> r, stars |-> stars[r], rank |-> c.rank + i]
             /\ \A r \in S : Position(r, S) <= n => Page(c)[Position(r, S)].repo = r
<1> DEFINE S == Rows(c)
           n == PageLength(S)
<1> USE TrendingAssumption
<1>1. S \in SUBSET Repos BY DEF Rows
<1>2. Cardinality(S) \in Nat BY <1>1, ReposAreFinite
<1>3. n \in Nat /\ n <= Limit /\ n <= Cardinality(S) /\ (n < Limit => n = Cardinality(S))
  BY <1>2 DEF PageLength
<1>4. DOMAIN Page(c) = 1 .. n BY DEF Page
<1>5. Len(Page(c)) = n BY <1>3, <1>4 DEF Page
<1>6. c.rank \in Int
  <2>1. CASE c = NoCursor BY <2>1 DEF NoCursor
  <2>2. CASE c # NoCursor
    <3>1. c \in Row BY <2>2 DEF CursorInv, Ranked
    <3>2. c.rank \in 1 .. NumRepos * MaxStars BY <3>1 DEF Row
    <3> QED BY <3>2
  <2> QED BY <2>1, <2>2
<1>7. ASSUME NEW i \in 1 .. n
      PROVE  \E r \in S : /\ Position(r, S) = i
                          /\ Page(c)[i] = [repo |-> r, stars |-> stars[r], rank |-> c.rank + i]
  <2> DEFINE r == CHOOSE r \in S : Position(r, S) = i
  <2>1. i \in 1 .. Cardinality(S) BY <1>2, <1>3
  <2>2. \E q \in S : Position(q, S) = i BY <1>1, <2>1, PositionsAreTaken
  <2>3. r \in S /\ Position(r, S) = i BY <2>2
  <2>4. Page(c)[i] = [repo |-> r, stars |-> stars[r], rank |-> RankAfter(c) + i - 1]
    BY DEF Page
  <2>5. RankAfter(c) + i - 1 = c.rank + i BY <1>6 DEF RankAfter
  <2> HIDE DEF r
  <2> QED BY <2>3, <2>4, <2>5
<1>8. ASSUME NEW r \in S, Position(r, S) <= n
      PROVE  Page(c)[Position(r, S)].repo = r
  <2>1. Position(r, S) \in 1 .. Cardinality(S) BY <1>1, PositionType
  <2>2. Position(r, S) \in 1 .. n BY <1>2, <1>3, <1>8, <2>1
  <2>3. PICK i \in 1 .. n : i = Position(r, S) BY <2>2
  <2>4. PICK q \in S : /\ Position(q, S) = i
                       /\ Page(c)[i] = [repo |-> q, stars |-> stars[q], rank |-> c.rank + i]
    BY <1>7
  <2>5. q = r BY <1>1, <2>3, <2>4, PositionIsInjective
  <2> QED BY <2>3, <2>4, <2>5
<1> QED BY <1>1, <1>3, <1>4, <1>5, <1>7, <1>8

LEMMA RowIsNoCursor == \A row \in Row : row # NoCursor
<1> SUFFICES ASSUME NEW row \in Row, row = NoCursor PROVE FALSE OBVIOUS
<1>1. row.stars \in 1 .. MaxStars BY DEF Row
<1>2. row.stars = 0 BY DEF NoCursor
<1> QED BY <1>1, <1>2, TrendingAssumption

LEMMA CursorFields ==
  ASSUME NEW c, CursorInv(c), c # NoCursor
  PROVE  c.stars \in 1 .. MaxStars /\ c.repo \in Repos /\ c \in Row
BY DEF CursorInv, Ranked, Row

(* A page that was just read is what PageInv says a page is.               *)
LEMMA PageIsRight ==
  ASSUME TypeOK, NEW c, CursorInv(c)
  PROVE  Page(c) \in Seq(Row) /\ PageInv(c, Page(c), time)
<1> DEFINE S == Rows(c)
           n == PageLength(S)
           page == Page(c)
           next == NextCursor(page)
<1> USE TrendingAssumption
<1>1. /\ S \in SUBSET Repos /\ n \in Nat /\ n <= Limit /\ n <= Cardinality(S)
      /\ n < Limit => n = Cardinality(S)
      /\ Len(page) = n /\ DOMAIN page = 1 .. n
      /\ \A i \in 1 .. n : \E r \in S :
           /\ Position(r, S) = i
           /\ page[i] = [repo |-> r, stars |-> stars[r], rank |-> c.rank + i]
      /\ \A r \in S : Position(r, S) <= n => page[Position(r, S)].repo = r
  BY PageRows
<1>2. \A r \in S : stars[r] \in 1 .. MaxStars /\ r \in Repos BY DEF Rows, TypeOK
<1>3. \A r \in Repos : stars[r] > 0 => (r \in S <=> Ahead(r, c)) BY DEF Rows, Ahead
<1>4. page = [i \in 1 .. n |-> page[i]] BY <1>1 DEF Page
<1>5. c.rank \in Nat
  <2>1. CASE c = NoCursor BY <2>1 DEF NoCursor
  <2>2. CASE c # NoCursor
    <3>1. c \in Row BY <2>2, CursorFields
    <3>2. c.rank \in 1 .. NumRepos * MaxStars BY <3>1 DEF Row
    <3> QED BY <3>2
  <2> QED BY <2>1, <2>2
<1>6. \A r \in S : Position(r, S) \in Nat /\ 1 <= Position(r, S) /\ Position(r, S) <= Cardinality(S)
  <2> TAKE r \in S
  <2>1. Position(r, S) \in 1 .. Cardinality(S) BY <1>1, PositionType
  <2>2. Cardinality(S) \in Nat BY <1>1, ReposAreFinite
  <2> QED BY <2>1, <2>2
<1>7. \A r \in S : c.rank + Position(r, S) <= (MaxStars - stars[r]) * NumRepos + r
  BY RankIsAtMostPlace
<1>8. \A p, q \in S : Before(p, q) => Position(p, S) < Position(q, S) BY <1>1, PositionGrows
<1> HIDE DEF S, n, page
<1>9. \A i \in 1 .. n : Ranked(page[i])
  <2> TAKE i \in 1 .. n
  <2>1. PICK r \in S : /\ Position(r, S) = i
                       /\ page[i] = [repo |-> r, stars |-> stars[r], rank |-> c.rank + i]
    BY <1>1
  <2>2. c.rank + i <= (MaxStars - stars[r]) * NumRepos + r BY <1>7, <2>1
  <2>3. (MaxStars - stars[r]) * NumRepos + r \in 1 .. NumRepos * MaxStars BY <1>2, PlaceType
  <2>4. c.rank + i \in 1 .. NumRepos * MaxStars
    <3>1. NumRepos * MaxStars \in Nat OBVIOUS
    <3> QED BY <1>1, <1>5, <2>2, <2>3, <3>1
  <2>5. page[i] \in Row BY <1>2, <2>1, <2>4 DEF Row
  <2> QED BY <2>1, <2>2, <2>5 DEF Ranked, Place
<1>10. page \in Seq(Row)
  <2>1. \A i \in 1 .. n : page[i] \in Row BY <1>9 DEF Ranked
  <2> QED BY <1>1, <1>4, <2>1
<1>11. \A i, j \in 1 .. n : page[i].repo = page[j].repo => i = j
  <2> SUFFICES ASSUME NEW i \in 1 .. n, NEW j \in 1 .. n, page[i].repo = page[j].repo PROVE i = j
    OBVIOUS
  <2>1. PICK p \in S : Position(p, S) = i /\ page[i].repo = p BY <1>1
  <2>2. PICK q \in S : Position(q, S) = j /\ page[j].repo = q BY <1>1
  <2> QED BY <2>1, <2>2
<1>12. CASE n < Limit
  <2>1. next = NoCursor BY <1>1, <1>12 DEF NextCursor
  <2>2. ASSUME NEW r \in Repos, Stable(r, time)
        PROVE  (\E i \in 1 .. n : page[i].repo = r) <=> Ahead(r, c)
    <3>1. ASSUME NEW i \in 1 .. n, page[i].repo = r PROVE r \in S BY <1>1, <3>1
    <3>2. ASSUME r \in S PROVE \E i \in 1 .. n : page[i].repo = r
      <4>1. Position(r, S) \in 1 .. n BY <1>1, <1>6, <1>12, <3>2
      <4> QED BY <1>1, <3>2, <4>1
    <3> QED BY <1>3, <2>2, <3>1, <3>2 DEF Stable
  <2> QED BY <1>1, <1>9, <1>10, <1>11, <2>1, <2>2 DEF PageInv, page, TypeOK
<1>13. CASE n = Limit
  <2>1. n \in 1 .. n BY <1>1, <1>13
  <2>2. PICK last \in S : /\ Position(last, S) = n
                          /\ page[n] = [repo |-> last, stars |-> stars[last], rank |-> c.rank + n]
    BY <1>1, <2>1
  <2>3. next = page[n] BY <1>1, <1>13, <2>2 DEF NextCursor
  <2>4. next \in Row /\ next # NoCursor BY <1>9, <2>1, <2>3, RowIsNoCursor DEF Ranked
  <2>5. next.stars = stars[last] /\ next.repo = last BY <2>2, <2>3
  <2>6. c # NoCursor => Lower(next, c)
    <3>1. c # NoCursor => Below(last, c) BY DEF Rows, S
    <3> QED BY <2>5, <3>1 DEF Lower, Below
  <2>7. ASSUME NEW r \in Repos, Stable(r, time)
        PROVE  (\E i \in 1 .. n : page[i].repo = r) <=> Ahead(r, c) /\ Passed(r, next)
    <3>1. Passed(r, next) <=> ~Before(last, r)
      <4>1. last \in Int /\ r \in Int /\ stars[last] \in Int /\ stars[r] \in Int
        BY <1>2 DEF Repos, TypeOK
      <4> QED BY <2>4, <2>5, <4>1 DEF Passed, Below, Before
    <3>2. ASSUME NEW i \in 1 .. n, page[i].repo = r PROVE r \in S /\ ~Before(last, r)
      <4>1. r \in S /\ Position(r, S) = i BY <1>1, <3>2
      <4>2. Position(last, S) \in Nat /\ i \in Nat /\ i <= n BY <1>1, <1>6
      <4>3. ~(Position(last, S) < Position(r, S)) BY <1>1, <2>2, <4>1, <4>2
      <4> QED BY <1>8, <4>1, <4>3
    <3>3. ASSUME r \in S, ~Before(last, r) PROVE \E i \in 1 .. n : page[i].repo = r
      <4>1. r = last \/ Before(r, last) BY <1>2, <3>3, BeforeIsAnOrder
      <4>2. Position(r, S) <= n
        <5>1. CASE r = last BY <1>1, <2>2, <5>1
        <5>2. CASE Before(r, last) BY <1>1, <1>6, <1>8, <2>2, <3>3, <5>2
        <5> QED BY <4>1, <5>1, <5>2
      <4>3. Position(r, S) \in 1 .. n BY <1>1, <1>6, <3>3, <4>2
      <4> QED BY <1>1, <3>3, <4>2, <4>3
    <3> QED BY <1>3, <2>7, <3>1, <3>2, <3>3 DEF Stable
  <2> QED BY <1>1, <1>9, <1>10, <1>11, <2>4, <2>6, <2>7 DEF PageInv, page, TypeOK
<1> QED BY <1>1, <1>12, <1>13
-----------------------------------------------------------------------------
(* What a step leaves as it was: the clock may go on, and a counter that   *)
(* changes is marked with the time.                                        *)
Quiet ==
  /\ time <= time'
  /\ \A r \in Repos : \/ stars'[r] = stars[r] /\ changedAt'[r] = changedAt[r]
                      \/ time <= changedAt'[r]

Resting(w) ==
  /\ pc'[w] = pc[w] /\ cursor'[w] = cursor[w] /\ body'[w] = body[w]
  /\ seen'[w] = seen[w] /\ oldest'[w] = oldest[w]
  /\ pc[w] = "set" => time' <= body[w].readAt + MaxBuild

(* What was stable and is not, or shows another count, is not stable since *)
(* a time that is over.                                                    *)
LEMMA StableStays ==
  ASSUME TypeOK, TypeOK', Quiet, NEW r \in Repos, NEW since \in Int, since <= time,
         changedAt'[r] < since, stars'[r] > 0
  PROVE  Stable(r, since) /\ stars'[r] = stars[r]
<1>1. changedAt'[r] \in Int /\ time \in Int BY DEF TypeOK
<1>2. ~(time <= changedAt'[r]) BY <1>1
<1>3. stars'[r] = stars[r] /\ changedAt'[r] = changedAt[r] BY <1>2 DEF Quiet
<1> QED BY <1>3 DEF Stable

LEMMA PageStays ==
  ASSUME TypeOK, TypeOK', Quiet, NEW k, NEW rows, NEW readAt \in Int, PageInv(k, rows, readAt)
  PROVE  PageInv(k, rows, readAt)'
<1>1. readAt <= time' BY DEF PageInv, Quiet, TypeOK
<1>2. ASSUME NEW r \in Repos, Stable(r, readAt)'
      PROVE  ((\E i \in 1 .. Len(rows) : rows[i].repo = r) <=>
               Ahead(r, k) /\ (NextCursor(rows) = NoCursor \/ Passed(r, NextCursor(rows))))'
  <2>1. readAt <= time BY DEF PageInv
  <2>2. Stable(r, readAt) /\ stars'[r] = stars[r] BY <1>2, <2>1, StableStays DEF Stable
  <2>3. (\E i \in 1 .. Len(rows) : rows[i].repo = r) <=>
               Ahead(r, k) /\ (NextCursor(rows) = NoCursor \/ Passed(r, NextCursor(rows)))
    BY <2>2 DEF PageInv
  <2> QED BY <2>2, <2>3 DEF Ahead, Passed, Below, NextCursor, NoCursor
<1> QED BY <1>1, <1>2 DEF PageInv, Ranked, Row, Place, NextCursor, NoCursor, Lower

LEMMA CursorStays == \A c : CursorInv(c) => CursorInv(c)'
BY DEF CursorInv, Ranked, Row, Place, NoCursor

LEMMA WalkStays ==
  ASSUME TypeOK, TypeOK', Quiet, NEW w \in Walkers, Resting(w), WalkInv(w)
  PROVE  WalkInv(w)'
<1>1. CursorInv(cursor[w])' BY CursorStays DEF WalkInv, Resting
<1>2. ASSUME pc[w] = "set"
      PROVE  /\ PageInv(cursor[w], body[w].rows, body[w].readAt)'
             /\ body[w].readAt >= 1 /\ time' <= body[w].readAt + MaxBuild
  <2>1. body[w].readAt \in Int BY DEF TypeOK
  <2>2. PICK k, rows, readAt : k = cursor[w] /\ rows = body[w].rows /\ readAt = body[w].readAt
    OBVIOUS
  <2>3. PageInv(k, rows, readAt) BY <1>2, <2>2 DEF WalkInv
  <2>4. PageInv(k, rows, readAt)' BY <2>1, <2>2, <2>3, PageStays
  <2>5. k = cursor'[w] /\ rows = body'[w].rows /\ readAt = body'[w].readAt
    BY <2>2 DEF Resting
  <2>6. PageInv(cursor[w], body[w].rows, body[w].readAt)' BY <2>4, <2>5
  <2> QED BY <1>2, <2>6 DEF WalkInv, Resting
<1>3. \/ oldest[w] <= time' /\ oldest[w] <= time
      \/ seen[w] = <<>> /\ cursor[w] = NoCursor /\ pc[w] # "done"
  BY DEF WalkInv, Quiet, TypeOK
<1>4. ASSUME NEW r \in Repos, Stable(r, oldest[w])'
      PROVE  /\ (Shown(w, r) # {} <=> pc[w] = "done" \/ Passed(r, cursor[w]))'
             /\ \A i, j \in Shown(w, r)' : i = j
  <2>1. Shown(w, r)' = Shown(w, r) BY DEF Shown, Resting
  <2>2. CASE oldest[w] <= time
    <3>1. oldest'[w] = oldest[w] /\ oldest[w] \in Int BY DEF Resting, TypeOK
    <3>2. Stable(r, oldest[w]) /\ stars'[r] = stars[r]
      BY <1>4, <2>2, <3>1, StableStays DEF Stable
    <3>3. (Passed(r, cursor[w]))' = Passed(r, cursor[w])
      BY <3>2 DEF Passed, Below, NoCursor, Resting
    <3> QED BY <2>1, <3>2, <3>3 DEF WalkInv, Resting
  <2>3. CASE seen[w] = <<>> /\ cursor[w] = NoCursor /\ pc[w] # "done"
    <3>1. Shown(w, r) = {} BY <2>3 DEF Shown
    <3> QED BY <2>1, <2>3, <3>1 DEF Passed, NoCursor, Resting
  <2> QED BY <1>3, <2>2, <2>3
<1>5. (oldest[w] <= time \/ (seen[w] = <<>> /\ cursor[w] = NoCursor /\ pc[w] # "done"))'
  BY <1>3 DEF Resting, NoCursor
<1>6. (pc[w] = "set" => /\ PageInv(cursor[w], body[w].rows, body[w].readAt)
                        /\ body[w].readAt >= 1 /\ time <= body[w].readAt + MaxBuild)'
  BY <1>2 DEF Resting
<1> QED BY <1>1, <1>4, <1>5, <1>6 DEF WalkInv

LEMMA CacheStays ==
  ASSUME TypeOK, TypeOK', Quiet, NEW k \in DOMAIN cache, CacheInv(k),
         cache'[k] = cache[k], time' < cache[k].expires
  PROVE  CacheInv(k)'
<1>1. cache[k].readAt \in Int BY DEF TypeOK
<1>2. PICK rows, readAt : rows = cache[k].rows /\ readAt = cache[k].readAt OBVIOUS
<1>3. PageInv(k, rows, readAt)' BY <1>1, <1>2, PageStays DEF CacheInv
<1>4. PageInv(k, cache[k].rows, cache[k].readAt)' BY <1>2, <1>3
<1>5. CursorInv(k)' BY CursorStays DEF CacheInv
<1> QED BY <1>4, <1>5 DEF CacheInv
-----------------------------------------------------------------------------
(* An answer.                                                              *)

LEMMA Concatenation ==
  ASSUME NEW s \in Seq(Row), NEW t \in Seq(Row)
  PROVE  /\ s \o t \in Seq(Row) /\ Len(s \o t) = Len(s) + Len(t)
         /\ Len(s) \in Nat /\ Len(t) \in Nat
         /\ \A i \in 1 .. Len(s) : (s \o t)[i] = s[i]
         /\ \A i \in 1 .. Len(t) : (s \o t)[Len(s) + i] = t[i]
OBVIOUS

(* Where a repository is in two pages one after the other.                 *)
In(s, r) == {i \in 1 .. Len(s) : s[i].repo = r}

LEMMA ConcatenationShows ==
  ASSUME NEW s \in Seq(Row), NEW t \in Seq(Row), NEW r
  PROVE  /\ In(s \o t, r) # {} <=> In(s, r) # {} \/ In(t, r) # {}
         /\ /\ In(s, r) = {} \/ In(t, r) = {}
            /\ \A i, j \in In(s, r) : i = j
            /\ \A i, j \in In(t, r) : i = j
            => \A i, j \in In(s \o t, r) : i = j
<1>1. /\ Len(s \o t) = Len(s) + Len(t) /\ Len(s) \in Nat /\ Len(t) \in Nat
      /\ \A i \in 1 .. Len(s) : (s \o t)[i] = s[i]
      /\ \A i \in 1 .. Len(t) : (s \o t)[Len(s) + i] = t[i]
  BY Concatenation
<1>2. \A i \in In(s, r) : i \in In(s \o t, r) BY <1>1 DEF In
<1>3. \A i \in In(t, r) : Len(s) + i \in In(s \o t, r) BY <1>1 DEF In
<1>4. \A i \in In(s \o t, r) : i \in Nat /\ (i \in In(s, r) \/ i - Len(s) \in In(t, r))
  <2> TAKE i \in In(s \o t, r)
  <2>1. i \in 1 .. Len(s) + Len(t) /\ (s \o t)[i].repo = r BY <1>1 DEF In
  <2>2. CASE i <= Len(s)
    <3>1. i \in 1 .. Len(s) BY <1>1, <2>1, <2>2
    <3> QED BY <1>1, <2>1, <3>1 DEF In
  <2>3. CASE i > Len(s)
    <3>1. i - Len(s) \in 1 .. Len(t) /\ Len(s) + (i - Len(s)) = i BY <1>1, <2>1, <2>3
    <3>2. t[i - Len(s)] = (s \o t)[i] BY <1>1, <3>1
    <3> QED BY <2>1, <3>1, <3>2 DEF In
  <2> QED BY <1>1, <2>1, <2>2, <2>3
<1>5. \A i, j \in Nat : i - Len(s) = j - Len(s) => i = j BY <1>1
<1> QED BY <1>2, <1>3, <1>4, <1>5

LEMMA NextCursorType ==
  ASSUME NEW rows \in Seq(Row), \A i \in 1 .. Len(rows) : Ranked(rows[i])
  PROVE  CursorInv(NextCursor(rows)) /\ NextCursor(rows) \in Row \cup {NoCursor}
<1>1. CASE Len(rows) = Limit
  <2>1. Len(rows) \in 1 .. Len(rows) BY <1>1, TrendingAssumption
  <2> DEFINE last == rows[Len(rows)]
  <2>2. Ranked(last) BY <2>1
  <2>3. last = [repo |-> last.repo, stars |-> last.stars, rank |-> last.rank]
    BY <2>2 DEF Ranked, Row
  <2>4. NextCursor(rows) = last BY <1>1, <2>3 DEF NextCursor
  <2> QED BY <2>2, <2>4 DEF CursorInv, Ranked
<1>2. CASE Len(rows) # Limit BY <1>2 DEF NextCursor, CursorInv
<1> QED BY <1>1, <1>2

(* Below the lower of two cursors is below both.                           *)
LEMMA LowerPasses ==
  ASSUME TypeOK, NEW r \in Repos, NEW c, NEW k, CursorInv(c), CursorInv(k),
         c # NoCursor, k # NoCursor, Lower(c, k), Below(r, c)
  PROVE  Below(r, k)
<1>1. /\ c.stars \in 1 .. MaxStars /\ c.repo \in Repos
      /\ k.stars \in 1 .. MaxStars /\ k.repo \in Repos
  BY CursorFields
<1>2. stars[r] \in Int /\ r \in Int /\ c.repo \in Int /\ k.repo \in Int BY <1>1 DEF TypeOK, Repos
<1> QED BY <1>1, <1>2 DEF Lower, Below

(* The walk keeps its invariant with any page that has that of a page.     *)
LEMMA ReceiveKeeps ==
  ASSUME TrendInv, NEW w \in Walkers, pc[w] \in {"get", "set"}, UNCHANGED <<time, stars, changedAt>>,
         NEW page, page.rows \in Seq(Row), page.readAt \in 1 .. MaxTime,
         PageInv(cursor[w], page.rows, page.readAt), Receive(w, page)
  PROVE  /\ pc' \in [Walkers -> {"get", "build", "set", "done"}]
         /\ cursor' \in [Walkers -> Row \cup {NoCursor}]
         /\ seen' \in [Walkers -> Seq(Row)]
         /\ oldest' \in [Walkers -> 0 .. MaxTime]
         /\ WalkInv(w)'
         /\ \A v \in Walkers \ {w} : /\ pc'[v] = pc[v] /\ cursor'[v] = cursor[v]
                                     /\ seen'[v] = seen[v] /\ oldest'[v] = oldest[v]
<1> DEFINE c == cursor[w]
           next == NextCursor(page.rows)
<1> USE TrendingAssumption
<1>1. TypeOK BY DEF TrendInv
<1>2. WalkInv(w) BY DEF TrendInv
<1>3. \A i \in 1 .. Len(page.rows) : Ranked(page.rows[i]) BY DEF PageInv
<1>4. CursorInv(next) /\ next \in Row \cup {NoCursor} BY <1>3, NextCursorType
<1>5. seen[w] \in Seq(Row) /\ oldest[w] \in 0 .. MaxTime BY <1>1 DEF TypeOK
<1>6. seen[w] \o page.rows \in Seq(Row) BY <1>5, Concatenation
<1>7. /\ seen'[w] = seen[w] \o page.rows
      /\ oldest'[w] \in 0 .. MaxTime /\ oldest'[w] <= oldest[w] /\ oldest'[w] <= page.readAt
      /\ cursor'[w] = next
      /\ pc'[w] = IF next = NoCursor THEN "done" ELSE "get"
  BY <1>1, <1>5 DEF Receive, TypeOK
<1>8. /\ pc' \in [Walkers -> {"get", "build", "set", "done"}]
      /\ cursor' \in [Walkers -> Row \cup {NoCursor}]
      /\ seen' \in [Walkers -> Seq(Row)]
      /\ oldest' \in [Walkers -> 0 .. MaxTime]
  BY <1>1, <1>4, <1>6 DEF Receive, TypeOK
<1>9. \A v \in Walkers \ {w} : /\ pc'[v] = pc[v] /\ cursor'[v] = cursor[v]
                               /\ seen'[v] = seen[v] /\ oldest'[v] = oldest[v]
  BY <1>1 DEF Receive, TypeOK
<1> HIDE DEF next, c
<1>10. CursorInv(cursor[w])' BY <1>4, <1>7, CursorStays
<1>11. oldest'[w] <= time' BY <1>1, <1>7 DEF PageInv, TypeOK
<1>12. ASSUME NEW r \in Repos, Stable(r, oldest[w])'
       PROVE  /\ (Shown(w, r) # {} <=> pc[w] = "done" \/ Passed(r, cursor[w]))'
              /\ \A i, j \in Shown(w, r)' : i = j
  <2>1. Stable(r, oldest[w]) /\ Stable(r, page.readAt)
    BY <1>1, <1>5, <1>7, <1>12 DEF Stable, TypeOK
  <2>2. /\ In(seen[w], r) # {} <=> Passed(r, c)
        /\ \A i, j \in In(seen[w], r) : i = j
    BY <1>2, <2>1 DEF WalkInv, Shown, In, c
  <2>3. /\ In(page.rows, r) # {} <=> Ahead(r, c) /\ (next = NoCursor \/ Passed(r, next))
        /\ \A i, j \in In(page.rows, r) : i = j
    BY <2>1 DEF PageInv, In, c, next
  <2>4. Ahead(r, c) <=> ~Passed(r, c) BY DEF Ahead, Passed
  <2>5. Passed(r, c) => next = NoCursor \/ Passed(r, next)
    <3> SUFFICES ASSUME Passed(r, c), next # NoCursor, Below(r, next) PROVE FALSE
      BY DEF Passed
    <3>1. c # NoCursor /\ Lower(next, c) BY DEF Passed, PageInv, c, next
    <3>2. CursorInv(c) BY <1>2 DEF WalkInv, c
    <3>3. Below(r, c) BY <1>1, <1>4, <3>1, <3>2, LowerPasses
    <3> QED BY <3>3 DEF Passed
  <2>6. Shown(w, r)' = In(seen[w] \o page.rows, r) BY <1>7 DEF Shown, In
  <2>7. In(seen[w] \o page.rows, r) # {} <=> In(seen[w], r) # {} \/ In(page.rows, r) # {}
    BY <1>5, ConcatenationShows
  <2>8. \A i, j \in In(seen[w] \o page.rows, r) : i = j
    BY <1>5, <2>2, <2>3, <2>4, ConcatenationShows
  <2>9. In(seen[w] \o page.rows, r) # {} <=> next = NoCursor \/ Passed(r, next)
    BY <2>2, <2>3, <2>4, <2>5, <2>7
  <2>10. (pc[w] = "done" \/ Passed(r, cursor[w]))' <=> next = NoCursor \/ Passed(r, next)
    BY <1>7 DEF Passed, Below, NoCursor
  <2> QED BY <2>6, <2>8, <2>9, <2>10
<1>13. pc'[w] # "set" BY <1>7
<1>14. WalkInv(w)' BY <1>10, <1>11, <1>12, <1>13 DEF WalkInv
<1> QED BY <1>8, <1>9, <1>14
-----------------------------------------------------------------------------
LEMMA TrendInit == Init => TrendInv
<1> SUFFICES ASSUME Init PROVE TrendInv OBVIOUS
<1> USE TrendingAssumption DEF Init
<1>1. DOMAIN cache = {} OBVIOUS
<1>2. <<>> \in Seq(Row) OBVIOUS
<1>3. NoBody \in [rows : Seq(Row), readAt : 0 .. MaxTime] BY <1>2 DEF NoBody
<1>4. stars \in [Repos -> 0 .. MaxStars] BY DEF Repos
<1>5. TypeOK
  <2>1. 1 \in 1 .. MaxTime /\ 0 \in 0 .. MaxTime /\ MaxTime \in 0 .. MaxTime OBVIOUS
  <2>2. body \in [Walkers -> [rows : Seq(Row), readAt : 0 .. MaxTime]] BY <1>3
  <2>3. seen \in [Walkers -> Seq(Row)] BY <1>2
  <2>4. 0 \in 0 .. MaxChanges OBVIOUS
  <2> QED BY <1>1, <1>4, <2>1, <2>2, <2>3, <2>4 DEF TypeOK
<1>6. ASSUME NEW w \in Walkers PROVE WalkInv(w)
  <2>1. \A r \in Repos : Shown(w, r) = {} BY DEF Shown
  <2> QED BY <2>1 DEF WalkInv, CursorInv, Passed
<1> QED BY <1>1, <1>5, <1>6 DEF TrendInv

LEMMA GetHitKeeps ==
  ASSUME TrendInv, NEW w \in Walkers, GetHit(w)
  PROVE  TrendInv'
<1> USE DEF GetHit, AfterHit, Key, Hit
<1>1. TypeOK BY DEF TrendInv
<1>2. PICK page : page = cache[cursor[w]] OBVIOUS
<1>3. page.rows \in Seq(Row) /\ page.readAt \in 1 .. MaxTime BY <1>1, <1>2 DEF TypeOK
<1>4. PageInv(cursor[w], page.rows, page.readAt) BY <1>2 DEF TrendInv, CacheInv
<1>5. Receive(w, page) BY <1>2 DEF Receive
<1>6. /\ pc' \in [Walkers -> {"get", "build", "set", "done"}]
      /\ cursor' \in [Walkers -> Row \cup {NoCursor}]
      /\ seen' \in [Walkers -> Seq(Row)]
      /\ oldest' \in [Walkers -> 0 .. MaxTime]
      /\ WalkInv(w)'
      /\ \A v \in Walkers \ {w} : /\ pc'[v] = pc[v] /\ cursor'[v] = cursor[v]
                                  /\ seen'[v] = seen[v] /\ oldest'[v] = oldest[v]
  BY <1>3, <1>4, <1>5, ReceiveKeeps
<1>7. TypeOK' BY <1>1, <1>6 DEF TypeOK, Row, NoCursor, Repos
<1>8. Quiet BY <1>1 DEF Quiet, TypeOK
<1>9. \A v \in Walkers \ {w} : WalkInv(v)'
  BY <1>1, <1>6, <1>7, <1>8, WalkStays DEF TrendInv, WalkInv, Resting
<1>10. \A k \in DOMAIN cache' : CacheInv(k)'
  BY <1>1, <1>7, <1>8, CacheStays DEF TrendInv, CacheInv
<1> QED BY <1>6, <1>7, <1>9, <1>10 DEF TrendInv

LEMMA SetKeeps ==
  ASSUME TrendInv, NEW w \in Walkers, Set(w)
  PROVE  TrendInv'
<1> USE TrendingAssumption DEF Set, Key
<1>1. TypeOK BY DEF TrendInv
<1>2. PICK page, k : page = body[w] /\ k = cursor[w] OBVIOUS
<1>3. /\ PageInv(k, page.rows, page.readAt) /\ CursorInv(k)
      /\ page.readAt >= 1 /\ time <= page.readAt + MaxBuild
  BY <1>2 DEF TrendInv, WalkInv
<1>4. page.rows \in Seq(Row) /\ page.readAt \in 1 .. MaxTime
  BY <1>1, <1>2, <1>3 DEF TypeOK
<1>5. Receive(w, page) BY <1>2 DEF Receive
<1>6. /\ pc' \in [Walkers -> {"get", "build", "set", "done"}]
      /\ cursor' \in [Walkers -> Row \cup {NoCursor}]
      /\ seen' \in [Walkers -> Seq(Row)]
      /\ oldest' \in [Walkers -> 0 .. MaxTime]
      /\ WalkInv(w)'
      /\ \A v \in Walkers \ {w} : /\ pc'[v] = pc[v] /\ cursor'[v] = cursor[v]
                                  /\ seen'[v] = seen[v] /\ oldest'[v] = oldest[v]
  BY <1>2, <1>3, <1>4, <1>5, ReceiveKeeps
<1>7. /\ DOMAIN cache' = DOMAIN cache \cup {k} /\ cache'[k] = Entry(page)
      /\ \A j \in DOMAIN cache \ {k} : cache'[j] = cache[j]
  BY <1>2 DEF Put
<1>8. /\ Entry(page) \in [rows : Seq(Row), readAt : 1 .. MaxTime, expires : 1 .. MaxTime + Ttl]
      /\ Len(Entry(page).rows) <= Limit
  <2>1. Entry(page) = [rows |-> page.rows, readAt |-> page.readAt, expires |-> time + Ttl]
    BY DEF Entry
  <2>2. time + Ttl \in 1 .. MaxTime + Ttl BY <1>1 DEF TypeOK
  <2>3. Len(page.rows) <= Limit BY <1>3 DEF PageInv
  <2> QED BY <1>4, <2>1, <2>2, <2>3
<1>9. TypeOK'
  <2>1. NoBody \in [rows : Seq(Row), readAt : 0 .. MaxTime]
    <3>1. <<>> \in Seq(Row) /\ 0 \in 0 .. MaxTime OBVIOUS
    <3> QED BY <3>1 DEF NoBody
  <2>2. body' \in [Walkers -> [rows : Seq(Row), readAt : 0 .. MaxTime]] BY <1>1, <2>1 DEF TypeOK
  <2>3. k \in Row \cup {NoCursor} BY <1>1, <1>2 DEF TypeOK
  <2>4. /\ DOMAIN cache' \subseteq Row \cup {NoCursor}
        /\ \A j \in DOMAIN cache' :
             /\ cache'[j] \in [rows : Seq(Row), readAt : 1 .. MaxTime, expires : 1 .. MaxTime + Ttl]
             /\ Len(cache'[j].rows) <= Limit
    BY <1>1, <1>7, <1>8, <2>3 DEF TypeOK
  <2> QED BY <1>1, <1>6, <2>2, <2>4 DEF TypeOK, Row, NoCursor, Repos
<1>10. Quiet BY <1>1 DEF Quiet, TypeOK
<1>11. \A v \in Walkers \ {w} : WalkInv(v)'
  <2> TAKE v \in Walkers \ {w}
  <2>1. body'[v] = body[v] BY <1>1 DEF TypeOK
  <2> QED BY <1>1, <1>6, <1>9, <1>10, <2>1, WalkStays DEF TrendInv, WalkInv, Resting
<1>12. \A j \in DOMAIN cache \ {k} : CacheInv(j)'
  BY <1>1, <1>7, <1>9, <1>10, CacheStays DEF TrendInv, CacheInv
<1>13. CacheInv(k)'
  <2>1. /\ cache'[k].rows = page.rows /\ cache'[k].readAt = page.readAt
        /\ cache'[k].expires = time + Ttl
    BY <1>7 DEF Entry
  <2>2. PICK rows, readAt : rows = page.rows /\ readAt = page.readAt OBVIOUS
  <2>3. PageInv(k, rows, readAt)' BY <1>1, <1>3, <1>4, <1>9, <1>10, <2>2, PageStays
  <2>4. PageInv(k, cache[k].rows, cache[k].readAt)' BY <2>1, <2>2, <2>3
  <2>5. CursorInv(k)' BY <1>3, CursorStays
  <2>6. time' < cache'[k].expires /\ cache'[k].expires <= cache'[k].readAt + MaxBuild + Ttl
    BY <1>1, <1>3, <1>4, <2>1 DEF TypeOK
  <2> QED BY <2>4, <2>5, <2>6 DEF CacheInv
<1> QED BY <1>6, <1>7, <1>9, <1>11, <1>12, <1>13 DEF TrendInv

(* A walker asks, and is not answered yet.                                 *)
LEMMA WalkerAsks ==
  ASSUME TrendInv, NEW w \in Walkers, pc[w] # "done",
         NEW place \in {"get", "build", "set"}, pc' = [pc EXCEPT ![w] = place],
         UNCHANGED <<time, stars, changedAt, changes, cache, cursor, seen, oldest>>,
         body' \in [Walkers -> [rows : Seq(Row), readAt : 0 .. MaxTime]],
         \A v \in Walkers \ {w} : body'[v] = body[v],
         place = "set" => /\ PageInv(cursor[w], body'[w].rows, body'[w].readAt)
                          /\ body'[w].readAt = time
  PROVE  TrendInv'
<1> USE TrendingAssumption
<1>1. TypeOK BY DEF TrendInv
<1>2. TypeOK' BY <1>1 DEF TypeOK, Row, NoCursor, Repos
<1>3. Quiet BY <1>1 DEF Quiet, TypeOK
<1>4. \A v \in Walkers \ {w} : WalkInv(v)'
  BY <1>1, <1>2, <1>3, WalkStays DEF TrendInv, WalkInv, Resting, TypeOK
<1>5. \A k \in DOMAIN cache' : CacheInv(k)'
  BY <1>1, <1>2, <1>3, CacheStays DEF TrendInv, CacheInv
<1>6. WalkInv(w)'
  <2>1. WalkInv(w) /\ pc'[w] = place BY <1>1 DEF TrendInv, TypeOK
  <2>2. CursorInv(cursor[w])' BY <2>1, CursorStays DEF WalkInv
  <2>3. place = "set" =>
          /\ PageInv(cursor[w], body[w].rows, body[w].readAt)'
          /\ body'[w].readAt >= 1 /\ time' <= body'[w].readAt + MaxBuild
    <3> SUFFICES ASSUME place = "set"
                 PROVE  /\ PageInv(cursor[w], body[w].rows, body[w].readAt)'
                        /\ body'[w].readAt >= 1 /\ time' <= body'[w].readAt + MaxBuild
      OBVIOUS
    <3>1. PICK k, rows, readAt : k = cursor[w] /\ rows = body'[w].rows /\ readAt = body'[w].readAt
      OBVIOUS
    <3>2. PageInv(k, rows, readAt) /\ readAt = time BY <3>1
    <3>3. PageInv(k, rows, readAt)' BY <1>1, <1>2, <1>3, <3>2, PageStays DEF TypeOK
    <3>4. k = cursor'[w] /\ rows = body'[w].rows /\ readAt = body'[w].readAt BY <3>1
    <3>5. PageInv(cursor[w], body[w].rows, body[w].readAt)' BY <3>3, <3>4
    <3> QED BY <1>1, <3>5 DEF TypeOK
  <2>4. (oldest[w] <= time \/ (seen[w] = <<>> /\ cursor[w] = NoCursor /\ pc[w] # "done"))'
    BY <2>1 DEF WalkInv, NoCursor
  <2>5. ASSUME NEW r \in Repos, Stable(r, oldest[w])'
        PROVE  /\ (Shown(w, r) # {} <=> pc[w] = "done" \/ Passed(r, cursor[w]))'
               /\ \A i, j \in Shown(w, r)' : i = j
    <3>1. Stable(r, oldest[w]) BY <2>5 DEF Stable
    <3>2. Shown(w, r)' = Shown(w, r) BY DEF Shown
    <3>3. Passed(r, cursor[w])' = Passed(r, cursor[w]) BY DEF Passed, Below, NoCursor
    <3>4. pc[w] # "done" /\ pc'[w] # "done" BY <2>1
    <3> QED BY <2>1, <3>1, <3>2, <3>3, <3>4 DEF WalkInv
  <2> QED BY <2>1, <2>2, <2>3, <2>4, <2>5 DEF WalkInv
<1> QED BY <1>2, <1>4, <1>5, <1>6 DEF TrendInv

LEMMA BuildKeeps ==
  ASSUME TrendInv, NEW w \in Walkers, Build(w)
  PROVE  TrendInv'
<1> USE DEF Build
<1>1. TypeOK /\ CursorInv(cursor[w]) BY DEF TrendInv, WalkInv
<1>2. Page(cursor[w]) \in Seq(Row) /\ PageInv(cursor[w], Page(cursor[w]), time)
  BY <1>1, PageIsRight
<1>3. body'[w] = [rows |-> Page(cursor[w]), readAt |-> time] BY <1>1 DEF TypeOK
<1>4. body' \in [Walkers -> [rows : Seq(Row), readAt : 0 .. MaxTime]]
  <2>1. [rows |-> Page(cursor[w]), readAt |-> time] \in [rows : Seq(Row), readAt : 0 .. MaxTime]
    <3>1. time \in 0 .. MaxTime BY <1>1 DEF TypeOK
    <3> QED BY <1>2, <3>1
  <2> QED BY <1>1, <2>1 DEF TypeOK
<1>5. \A v \in Walkers \ {w} : body'[v] = body[v] BY <1>1 DEF TypeOK
<1>6. PageInv(cursor[w], body'[w].rows, body'[w].readAt) /\ body'[w].readAt = time
  BY <1>2, <1>3
<1>7. pc[w] # "done" /\ pc' = [pc EXCEPT ![w] = "set"] OBVIOUS
<1>8. UNCHANGED <<time, stars, changedAt, changes, cache, cursor, seen, oldest>> OBVIOUS
<1> QED BY <1>4, <1>5, <1>6, <1>7, <1>8, WalkerAsks

LEMMA ChangeKeeps ==
  ASSUME TrendInv, NEW r \in Repos, Change(r)
  PROVE  TrendInv'
<1> USE TrendingAssumption DEF Change
<1>1. TypeOK BY DEF TrendInv
<1>2. TypeOK'
  <2>1. time \in 0 .. MaxTime BY <1>1 DEF TypeOK
  <2>2. changedAt' \in [Repos -> 0 .. MaxTime] BY <1>1, <2>1 DEF TypeOK
  <2>3. stars' \in [Repos -> 0 .. MaxStars] BY <1>1 DEF TypeOK
  <2>4. changes' \in 0 .. MaxChanges BY <1>1 DEF TypeOK
  <2> QED BY <1>1, <2>2, <2>3, <2>4 DEF TypeOK, Row, NoCursor, Repos
<1>3. Quiet BY <1>1 DEF Quiet, TypeOK
<1>4. \A w \in Walkers : WalkInv(w)'
  BY <1>1, <1>2, <1>3, WalkStays DEF TrendInv, WalkInv, Resting
<1>5. \A k \in DOMAIN cache' : CacheInv(k)'
  BY <1>1, <1>2, <1>3, CacheStays DEF TrendInv, CacheInv
<1> QED BY <1>2, <1>4, <1>5 DEF TrendInv

LEMMA TickKeeps ==
  ASSUME TrendInv, Tick
  PROVE  TrendInv'
<1> USE TrendingAssumption DEF Tick
<1>1. TypeOK BY DEF TrendInv
<1>2. /\ DOMAIN cache' \subseteq DOMAIN cache
      /\ \A k \in DOMAIN cache' : cache'[k] = cache[k] /\ time' < cache[k].expires
  BY DEF Unexpired
<1>3. TypeOK'
  <2>1. time' \in 1 .. MaxTime BY <1>1 DEF TypeOK
  <2> QED BY <1>1, <1>2, <2>1 DEF TypeOK, Row, NoCursor, Repos
<1>4. Quiet BY <1>1 DEF Quiet, TypeOK
<1>5. ASSUME NEW w \in Walkers PROVE WalkInv(w)'
  <2>1. pc[w] = "set" => time' <= body[w].readAt + MaxBuild
    BY <1>1 DEF TypeOK
  <2>2. Resting(w) BY <2>1 DEF Resting
  <2> QED BY <1>1, <1>3, <1>4, <2>2, WalkStays DEF TrendInv
<1>6. \A k \in DOMAIN cache' : CacheInv(k)'
  BY <1>1, <1>2, <1>3, <1>4, CacheStays DEF TrendInv
<1> QED BY <1>3, <1>5, <1>6 DEF TrendInv

LEMMA TrendStep == TrendInv /\ [Next]_vars => TrendInv'
<1> SUFFICES ASSUME TrendInv, [Next]_vars PROVE TrendInv' OBVIOUS
<1>1. ASSUME NEW w \in Walkers, GetHit(w) \/ GetMiss(w) \/ Build(w) \/ BuildFails(w) \/ Set(w)
      PROVE  TrendInv'
  <2>1. CASE GetHit(w) BY <2>1, GetHitKeeps
  <2>2. CASE GetMiss(w) BY <2>2, WalkerAsks DEF GetMiss, TrendInv, TypeOK
  <2>3. CASE Build(w) BY <2>3, BuildKeeps
  <2>4. CASE BuildFails(w) BY <2>4, WalkerAsks DEF BuildFails, TrendInv, TypeOK
  <2>5. CASE Set(w) BY <2>5, SetKeeps
  <2> QED BY <1>1, <2>1, <2>2, <2>3, <2>4, <2>5
<1>2. ASSUME NEW r \in Repos, Change(r) PROVE TrendInv' BY <1>2, ChangeKeeps
<1>3. CASE Tick BY <1>3, TickKeeps
<1>4. CASE UNCHANGED vars
  <2> USE <1>4 DEF vars
  <2>1. TypeOK BY DEF TrendInv
  <2>2. TypeOK' BY <2>1 DEF TypeOK, Row, NoCursor, Repos
  <2>3. Quiet BY <2>1 DEF Quiet, TypeOK
  <2>4. \A w \in Walkers : WalkInv(w)'
    BY <2>1, <2>2, <2>3, WalkStays DEF TrendInv, WalkInv, Resting
  <2>5. \A k \in DOMAIN cache' : CacheInv(k)'
    BY <2>1, <2>2, <2>3, CacheStays DEF TrendInv, CacheInv
  <2> QED BY <2>2, <2>4, <2>5 DEF TrendInv
<1> QED BY <1>1, <1>2, <1>3, <1>4 DEF Next
-----------------------------------------------------------------------------
(* TrendInv holds in every state, however the walks, the cache and the     *)
(* changes of the counters interleave (queries.py, pagination.py,          *)
(* cache.py).                                                              *)
THEOREM TrendInvariant == Spec => []TrendInv
<1>1. Init => TrendInv BY TrendInit
<1>2. TrendInv /\ [Next]_vars => TrendInv' BY TrendStep
<1> QED BY <1>1, <1>2, PTL DEF Spec

(* Every state has its shape: no page is longer than Limit, and keys,      *)
(* cursors and ranks are those of some ranking.                            *)
THEOREM TrendTypeCorrect == Spec => []TypeOK
<1>1. TrendInv => TypeOK BY DEF TrendInv
<1> QED BY <1>1, TrendInvariant, PTL

(* StableShownOnce, for any number of repositories, walkers and pages: a   *)
(* repository whose counter did not change since the oldest page of a walk *)
(* was read is shown once, and not left out (pagination.py:3-9).           *)
THEOREM StableIsShownOnce == Spec => []StableShownOnce
<1>1. TrendInv => StableShownOnce
  <2> SUFFICES ASSUME TrendInv, NEW w \in Walkers, NEW r \in Repos,
                      changedAt[r] < oldest[w], stars[r] > 0
               PROVE  /\ Cardinality(Shown(w, r)) <= 1
                      /\ pc[w] = "done" => Shown(w, r) # {}
    BY DEF StableShownOnce
  <2>1. /\ Shown(w, r) # {} <=> pc[w] = "done" \/ Passed(r, cursor[w])
        /\ \A i, j \in Shown(w, r) : i = j
    BY DEF TrendInv, WalkInv, Stable
  <2>2. CASE Shown(w, r) = {}
    <3>1. Cardinality(Shown(w, r)) = 0 BY <2>2, FS_EmptySet
    <3> QED BY <2>1, <2>2, <3>1
  <2>3. CASE Shown(w, r) # {}
    <3>1. PICK i : i \in Shown(w, r) BY <2>3
    <3>2. Shown(w, r) = {i} BY <2>1, <3>1
    <3>3. Cardinality(Shown(w, r)) = 1 BY <3>2, FS_Singleton
    <3> QED BY <2>3, <3>3
  <2> QED BY <2>2, <2>3
<1> QED BY <1>1, TrendInvariant, PTL

(* CachedIsFresh, for any lifetime of an entry and any time a page takes:  *)
(* no answer shows counters older than the two together, although a slow   *)
(* request may overwrite a newer page with an older one (cache.py:45-57).  *)
THEOREM CacheStaysFresh == Spec => []CachedIsFresh
<1>1. TrendInv => CachedIsFresh
  <2> SUFFICES ASSUME TrendInv, NEW k \in DOMAIN cache
               PROVE  time - cache[k].readAt < Ttl + MaxBuild
    BY DEF CachedIsFresh
  <2>1. /\ time \in Int /\ cache[k].readAt \in Int /\ cache[k].expires \in Int
        /\ Ttl \in Int /\ MaxBuild \in Int
    BY TrendingAssumption DEF TrendInv, TypeOK
  <2>2. time < cache[k].expires /\ cache[k].expires <= cache[k].readAt + MaxBuild + Ttl
    BY DEF TrendInv, CacheInv
  <2> QED BY <2>1, <2>2
<1> QED BY <1>1, TrendInvariant, PTL
=============================================================================
