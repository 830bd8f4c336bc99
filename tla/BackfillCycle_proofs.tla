------------------------- MODULE BackfillCycle_proofs -------------------------
(***************************************************************************)
(* What BackfillCycle and EventCounters promise, proved for any number of  *)
(* hours, any length of an hour and of a month, any archive and any number *)
(* of copies. CycleInv, of module BackfillCycle, is inductive. It rests on *)
(* the arithmetic of hours (cutting at bounds is monotone) and on counting *)
(* rows: an inserted row adds one to the count of its hour and of no other.*)
(***************************************************************************)
EXTENDS BackfillCycle, FiniteSetTheorems, TLAPS

-----------------------------------------------------------------------------
(* Cutting time into hours.                                                *)

LEMMA DivBounds ==
  ASSUME NEW n \in Nat, NEW d \in Nat \ {0}
  PROVE  /\ n \div d \in Nat
         /\ (n \div d) * d <= n
         /\ n <= (n \div d) * d + d - 1
OBVIOUS

LEMMA DivIsMonotone ==
  ASSUME NEW m \in Nat, NEW n \in Nat, NEW d \in Nat \ {0}, m <= n
  PROVE  m \div d <= n \div d
<1> DEFINE p == m \div d
           q == n \div d
<1>1. /\ p \in Nat /\ p * d <= m /\ q \in Nat /\ n <= q * d + d - 1
  BY DivBounds
<1> HIDE DEF p, q
<1>2. p <= q
  <2> SUFFICES ASSUME p >= q + 1 PROVE FALSE BY <1>1
  <2>1. p * d >= (q + 1) * d BY <1>1
  <2>2. (q + 1) * d = q * d + d BY <1>1
  <2>3. p * d \in Nat /\ q * d \in Nat BY <1>1
  <2> QED BY <1>1, <2>1, <2>2, <2>3
<1> QED BY <1>2 DEF p, q

LEMMA DivBelow ==
  ASSUME NEW n \in Nat, NEW k \in Nat, NEW d \in Nat \ {0}
  PROVE  /\ n < k * d => n \div d < k
         /\ n <= k * d => n \div d <= k
<1> DEFINE q == n \div d
<1>1. q \in Nat /\ q * d <= n BY DivBounds
<1> HIDE DEF q
<1>2. n < k * d => q < k
  <2> SUFFICES ASSUME q >= k, n < k * d PROVE FALSE BY <1>1
  <2>1. q * d >= k * d BY <1>1
  <2>2. q * d \in Nat /\ k * d \in Nat BY <1>1
  <2> QED BY <1>1, <2>1, <2>2
<1>3. n <= k * d => q <= k
  <2> SUFFICES ASSUME q >= k + 1, n <= k * d PROVE FALSE BY <1>1
  <2>1. q * d >= (k + 1) * d BY <1>1
  <2>2. (k + 1) * d = k * d + d OBVIOUS
  <2>3. q * d \in Nat /\ k * d \in Nat BY <1>1
  <2> QED BY <1>1, <2>1, <2>2, <2>3
<1> QED BY <1>2, <1>3 DEF q

LEMMA MomentsAreInHours ==
  /\ \A t \in Moments : t \in Bounds /\ HourOf(t) \in Hours
  /\ \A h \in Hours : MonthOf(h) \in Months
<1> USE CountersAssumption
<1>1. NumHours * Ticks \in Nat OBVIOUS
<1>2. ASSUME NEW t \in Moments PROVE t \in Bounds /\ HourOf(t) \in Hours
  <2>1. t \in Nat /\ t < NumHours * Ticks BY <1>1 DEF Moments
  <2>2. t \div Ticks < NumHours /\ t \div Ticks \in Nat BY <2>1, DivBelow, DivBounds
  <2>3. HourOf(t) \in Hours
    <3> DEFINE q == t \div Ticks
    <3>1. q \in Nat /\ q < NumHours BY <2>2
    <3> HIDE DEF q
    <3>2. q \in Hours BY <3>1 DEF Hours
    <3> QED BY <3>2 DEF q, HourOf
  <2>4. t \in Bounds BY <1>1, <2>1 DEF Bounds
  <2> QED BY <2>3, <2>4
<1> QED BY <1>2 DEF Months

LEMMA HoursOfBounds ==
  /\ \A b \in Bounds : HourOf(b) \in 0 .. NumHours
  /\ \A a, b \in Bounds : a <= b => HourOf(a) <= HourOf(b)
<1> USE CountersAssumption
<1>1. NumHours * Ticks \in Nat OBVIOUS
<1>2. Bounds \subseteq Nat BY DEF Bounds
<1>3. ASSUME NEW b \in Bounds PROVE HourOf(b) \in 0 .. NumHours
  <2>1. b \in Nat /\ b <= NumHours * Ticks BY <1>1 DEF Bounds
  <2>2. b \div Ticks <= NumHours /\ b \div Ticks \in Nat BY <2>1, DivBelow, DivBounds
  <2> DEFINE q == b \div Ticks
  <2>3. q \in Nat /\ q <= NumHours BY <2>2
  <2> HIDE DEF q
  <2>4. q \in 0 .. NumHours BY <2>3
  <2> QED BY <2>4 DEF q, HourOf
<1>4. ASSUME NEW a \in Bounds, NEW b \in Bounds, a <= b PROVE HourOf(a) <= HourOf(b)
  <2>1. a \in Nat /\ b \in Nat BY <1>2
  <2>2. a \div Ticks <= b \div Ticks BY <1>4, <2>1, DivIsMonotone
  <2> QED BY <2>2 DEF HourOf
<1> QED BY <1>3, <1>4
-----------------------------------------------------------------------------
(* Counting the rows of an hour. Places is RowsIn of any table.            *)

Places(r, h) == UNION {{t} \X (1 .. r[t]) : t \in {u \in Moments : HourOf(u) = h}}

LEMMA PlacesOf ==
  ASSUME NEW r, NEW h, NEW x
  PROVE  x \in Places(r, h)
           <=> \E t \in Moments : HourOf(t) = h /\ \E i \in 1 .. r[t] : x = <<t, i>>
BY DEF Places

LEMMA PlacesAreFinite ==
  ASSUME NEW r \in [Moments -> Nat], NEW h
  PROVE  IsFiniteSet(Places(r, h)) /\ Cardinality(Places(r, h)) \in Nat
<1> DEFINE T == {u \in Moments : HourOf(u) = h}
           F == {{t} \X (1 .. r[t]) : t \in T}
           g == [t \in T |-> {t} \X (1 .. r[t])]
<1>1. NumHours * Ticks \in Nat BY CountersAssumption
<1>2. IsFiniteSet(Moments)
  <2>1. NumHours * Ticks - 1 \in Int BY <1>1
  <2> QED BY <2>1, FS_Interval DEF Moments
<1>3. IsFiniteSet(T) BY <1>2, FS_Subset
<1>4. IsFiniteSet(F)
  <2>1. g \in Surjection(T, F) BY DEF Surjection
  <2> HIDE DEF g, F, T
  <2> QED BY <1>3, <2>1, FS_Surjection
<1>5. \A S \in F : IsFiniteSet(S)
  <2> SUFFICES ASSUME NEW t \in T PROVE IsFiniteSet({t} \X (1 .. r[t])) OBVIOUS
  <2>1. r[t] \in Int OBVIOUS
  <2>2. IsFiniteSet(1 .. r[t]) BY <2>1, FS_Interval
  <2>3. IsFiniteSet({t}) BY FS_Singleton
  <2> QED BY <2>2, <2>3, FS_Product
<1>6. IsFiniteSet(UNION F)
  <2> HIDE DEF F
  <2> QED BY <1>4, <1>5, FS_UNION
<1>7. IsFiniteSet(Places(r, h)) BY <1>6 DEF Places
<1> QED BY <1>7, FS_CardinalityType

LEMMA EmptyHourHasNoPlaces ==
  ASSUME NEW r \in [Moments -> Nat], NEW h,
         \A t \in Moments : HourOf(t) = h => r[t] = 0
  PROVE  Cardinality(Places(r, h)) = 0
<1>1. Places(r, h) = {}
  <2> SUFFICES ASSUME NEW x, x \in Places(r, h) PROVE FALSE OBVIOUS
  <2>1. PICK t \in Moments : HourOf(t) = h /\ \E i \in 1 .. r[t] : x = <<t, i>> BY PlacesOf
  <2>2. r[t] = 0 BY <2>1
  <2> QED BY <2>1, <2>2
<1> QED BY <1>1, FS_EmptySet

LEMMA RowTakesAPlace ==
  ASSUME NEW r \in [Moments -> Nat], NEW t \in Moments, NEW h
  PROVE  Cardinality(Places([r EXCEPT ![t] = @ + 1], h))
           = Cardinality(Places(r, h)) + (IF h = HourOf(t) THEN 1 ELSE 0)
<1> DEFINE s == [r EXCEPT ![t] = @ + 1]
           new == <<t, r[t] + 1>>
<1>1. s \in [Moments -> Nat] /\ s[t] = r[t] + 1 /\ \A u \in Moments \ {t} : s[u] = r[u]
  OBVIOUS
<1>2. r[t] \in Nat OBVIOUS
<1>3. IsFiniteSet(Places(r, h)) /\ Cardinality(Places(r, h)) \in Nat BY PlacesAreFinite
<1> HIDE DEF s
<1>4. CASE h # HourOf(t)
  <2>1. ASSUME NEW x PROVE x \in Places(s, h) <=> x \in Places(r, h)
    <3>1. \A u \in Moments : HourOf(u) = h => s[u] = r[u] BY <1>1, <1>4
    <3> QED BY <3>1, PlacesOf
  <2>2. Places(s, h) = Places(r, h) BY <2>1
  <2> QED BY <1>3, <1>4, <2>2 DEF s
<1>5. CASE h = HourOf(t)
  <2>1. new \notin Places(r, h)
    <3> SUFFICES ASSUME new \in Places(r, h) PROVE FALSE OBVIOUS
    <3>1. PICK u \in Moments : \E i \in 1 .. r[u] : new = <<u, i>> BY PlacesOf
    <3>2. PICK i \in 1 .. r[u] : new = <<u, i>> BY <3>1
    <3>3. u = t /\ i = r[t] + 1 BY <3>2
    <3> QED BY <1>2, <3>2, <3>3
  <2>2. ASSUME NEW x PROVE x \in Places(s, h) <=> x \in Places(r, h) \cup {new}
    <3>1. ASSUME x \in Places(s, h) PROVE x \in Places(r, h) \cup {new}
      <4>1. PICK u \in Moments : HourOf(u) = h /\ \E i \in 1 .. s[u] : x = <<u, i>>
        BY <3>1, PlacesOf
      <4>2. PICK i \in 1 .. s[u] : x = <<u, i>> BY <4>1
      <4>3. CASE u # t
        <5>1. i \in 1 .. r[u] BY <1>1, <4>2, <4>3
        <5> QED BY <4>1, <4>2, <5>1, PlacesOf
      <4>4. CASE u = t
        <5>1. i \in 1 .. r[t] \/ i = r[t] + 1 BY <1>1, <1>2, <4>2, <4>4
        <5>2. i \in 1 .. r[t] => x \in Places(r, h) BY <4>1, <4>2, <4>4, PlacesOf
        <5>3. i = r[t] + 1 => x = new BY <4>2, <4>4
        <5> QED BY <5>1, <5>2, <5>3
      <4> QED BY <4>3, <4>4
    <3>2. ASSUME x \in Places(r, h) PROVE x \in Places(s, h)
      <4>1. PICK u \in Moments : HourOf(u) = h /\ \E i \in 1 .. r[u] : x = <<u, i>>
        BY <3>2, PlacesOf
      <4>2. PICK i \in 1 .. r[u] : x = <<u, i>> BY <4>1
      <4>3. r[u] \in Nat OBVIOUS
      <4>4. i \in 1 .. s[u] BY <1>1, <4>2, <4>3
      <4> QED BY <4>1, <4>2, <4>4, PlacesOf
    <3>3. new \in Places(s, h)
      <4>1. r[t] + 1 \in 1 .. s[t] BY <1>1, <1>2
      <4> QED BY <1>5, <4>1, PlacesOf
    <3> QED BY <3>1, <3>2, <3>3
  <2>3. Places(s, h) = Places(r, h) \cup {new} BY <2>2
  <2> HIDE DEF new
  <2>4. Cardinality(Places(s, h)) = Cardinality(Places(r, h)) + 1
    BY <1>3, <2>1, <2>3, FS_AddElement
  <2> QED BY <1>5, <2>4 DEF s
<1> QED BY <1>4, <1>5

LEMMA RowsOfIsPlaces == \A h : RowsOf(h) = Cardinality(Places(rows, h))
BY DEF RowsOf, RowsIn, Places

LEMMA RowsOfType ==
  ASSUME CountersTypeOK, NEW h
  PROVE  RowsOf(h) \in Nat
<1>1. rows \in [Moments -> Nat] BY DEF CountersTypeOK
<1>2. Cardinality(Places(rows, h)) \in Nat BY <1>1, PlacesAreFinite
<1> QED BY <1>2, RowsOfIsPlaces
-----------------------------------------------------------------------------
(* The counters, one lemma per step of the table, the view or the script.  *)

LEMMA TableUnchanged ==
  ASSUME CountersTypeOK, UNCHANGED rows
  PROVE  \A h : RowsOf(h)' = RowsOf(h)
BY DEF RowsOf, RowsIn

LEMMA InsertKeepsCounters ==
  ASSUME CountersTypeOK, CountersInv, NEW t \in Moments, Insert(t)
  PROVE  CountersTypeOK' /\ CountersInv'
<1>1. /\ rows \in [Moments -> Nat] /\ counter \in [Hours -> Nat]
      /\ created \in BOOLEAN /\ todo \subseteq Months /\ touched \subseteq Months
  BY DEF CountersTypeOK
<1>2. HourOf(t) \in Hours BY MomentsAreInHours
<1>3. /\ rows' = [rows EXCEPT ![t] = @ + 1]
      /\ counter' = IF created THEN [counter EXCEPT ![HourOf(t)] = @ + 1] ELSE counter
      /\ touched' = touched \cup (todo \cap {MonthOf(HourOf(t))})
      /\ created' = created /\ script' = script /\ todo' = todo
  BY DEF Insert, Counted
<1>4. CountersTypeOK'
  <2>1. rows' \in [Moments -> Nat] BY <1>1, <1>3
  <2>2. counter' \in [Hours -> Nat] BY <1>1, <1>2, <1>3
  <2> QED BY <1>3, <2>1, <2>2 DEF CountersTypeOK
<1>5. \A h \in Hours : RowsOf(h)' = RowsOf(h) + (IF h = HourOf(t) THEN 1 ELSE 0)
  <2> TAKE h \in Hours
  <2>1. RowsOf(h)' = Cardinality(Places(rows', h)) BY DEF RowsOf, RowsIn, Places
  <2>2. RowsOf(h) = Cardinality(Places(rows, h)) BY DEF RowsOf, RowsIn, Places
  <2>3. Cardinality(Places([rows EXCEPT ![t] = @ + 1], h))
          = Cardinality(Places(rows, h)) + (IF h = HourOf(t) THEN 1 ELSE 0)
    BY <1>1, RowTakesAPlace
  <2> QED BY <1>3, <2>1, <2>2, <2>3
<1>6. \A h \in Hours : RowsOf(h) \in Nat /\ counter[h] \in Nat BY <1>1, RowsOfType
<1>7. created => \A h \in Hours :
        counter'[h] = counter[h] + (IF h = HourOf(t) THEN 1 ELSE 0)
  BY <1>1, <1>2, <1>3
<1>8. ASSUME ~created PROVE CountersInv'
  BY <1>3, <1>8 DEF CountersInv
<1>9. ASSUME created PROVE CountersInv'
  <2>1. ASSUME script = "running", NEW h \in Hours, MonthOf(h) \in todo \ touched'
        PROVE  counter'[h] = 0
    <3>1. h # HourOf(t) /\ MonthOf(h) \in todo \ touched BY <1>3, <2>1
    <3>2. counter[h] = 0 BY <2>1, <3>1 DEF CountersInv
    <3> QED BY <1>7, <1>9, <3>1, <3>2
  <2>2. ASSUME script \in {"running", "done"}, NEW h \in Hours, MonthOf(h) \notin todo
        PROVE  /\ counter'[h] >= RowsOf(h)'
               /\ MonthOf(h) \notin touched' => counter'[h] = RowsOf(h)'
    <3>1. /\ counter[h] >= RowsOf(h)
          /\ MonthOf(h) \notin touched => counter[h] = RowsOf(h)
      BY <2>2 DEF CountersInv
    <3>2. MonthOf(h) \notin touched' => MonthOf(h) \notin touched BY <1>3
    <3> QED BY <1>5, <1>6, <1>7, <1>9, <3>1, <3>2
  <2>3. script = "done" => todo = {} BY DEF CountersInv
  <2> QED BY <1>3, <1>9, <2>1, <2>2, <2>3 DEF CountersInv
<1> QED BY <1>4, <1>8, <1>9

LEMMA CreateViewKeepsCounters ==
  ASSUME CountersTypeOK, CountersInv, CreateView
  PROVE  CountersTypeOK' /\ CountersInv'
<1>1. \A h : RowsOf(h)' = RowsOf(h) BY TableUnchanged DEF CreateView
<1>2. script = "idle" BY DEF CreateView, CountersInv
<1> QED BY <1>1, <1>2 DEF CreateView, CountersInv, CountersTypeOK

(* The counters are zero, so a month that is not listed has neither rows   *)
(* nor counts.                                                             *)
LEMMA StartKeepsCounters ==
  ASSUME CountersTypeOK, CountersInv, StartScript
  PROVE  CountersTypeOK' /\ CountersInv'
<1>1. /\ created /\ created' = created /\ rows' = rows /\ counter' = counter
      /\ todo' = MonthsOfTable /\ touched' = {}
      /\ script' = IF MonthsOfTable = {} THEN "done" ELSE "running"
      /\ \A h \in Hours : counter[h] = 0
  BY DEF StartScript, ViewsEmpty
<1>2. MonthsOfTable \subseteq Months BY MomentsAreInHours DEF MonthsOfTable
<1>3. CountersTypeOK' BY <1>1, <1>2 DEF CountersTypeOK
<1>4. ASSUME NEW h \in Hours, MonthOf(h) \notin MonthsOfTable
      PROVE  RowsOf(h)' = 0
  <2>1. rows \in [Moments -> Nat] BY DEF CountersTypeOK
  <2>2. \A t \in Moments : HourOf(t) = h => rows[t] = 0
    <3> SUFFICES ASSUME NEW t \in Moments, HourOf(t) = h PROVE ~(rows[t] > 0) BY <2>1
    <3> QED BY <1>4 DEF MonthsOfTable
  <2>3. Cardinality(Places(rows, h)) = 0 BY <2>1, <2>2, EmptyHourHasNoPlaces
  <2>4. RowsOf(h)' = Cardinality(Places(rows', h)) BY DEF RowsOf, RowsIn, Places
  <2> QED BY <1>1, <2>3, <2>4
<1>5. CountersInv' BY <1>1, <1>4 DEF CountersInv
<1> QED BY <1>3, <1>5

LEMMA AddMonthKeepsCounters ==
  ASSUME CountersTypeOK, CountersInv, NEW k \in Months, AddMonth(k)
  PROVE  CountersTypeOK' /\ CountersInv'
<1>1. /\ script = "running" /\ k \in todo
      /\ counter' = [h \in Hours |-> IF MonthOf(h) = k THEN counter[h] + RowsOf(h)
                                                       ELSE counter[h]]
      /\ todo' = todo \ {k}
      /\ script' = IF todo = {k} THEN "done" ELSE "running"
      /\ rows' = rows /\ created' = created /\ touched' = touched
  BY DEF AddMonth
<1>2. \A h \in Hours : RowsOf(h) \in Nat /\ counter[h] \in Nat
  BY RowsOfType DEF CountersTypeOK
<1>3. \A h : RowsOf(h)' = RowsOf(h) BY <1>1, TableUnchanged
<1>4. counter' \in [Hours -> Nat] BY <1>1, <1>2
<1>5. CountersTypeOK' BY <1>1, <1>4 DEF CountersTypeOK
<1>6. created BY <1>1 DEF CountersInv, CountersTypeOK
<1>7. ASSUME NEW h \in Hours, MonthOf(h) \in todo' \ touched'
      PROVE  counter'[h] = 0
  <2>1. MonthOf(h) # k /\ MonthOf(h) \in todo \ touched BY <1>1, <1>7
  <2> QED BY <1>1, <2>1 DEF CountersInv
<1>8. ASSUME NEW h \in Hours, MonthOf(h) \notin todo'
      PROVE  /\ counter'[h] >= RowsOf(h)'
             /\ MonthOf(h) \notin touched' => counter'[h] = RowsOf(h)'
  <2>1. CASE MonthOf(h) = k
    <3>1. counter'[h] = counter[h] + RowsOf(h) BY <1>1, <2>1
    <3>2. MonthOf(h) \notin touched => counter[h] = 0 BY <1>1, <2>1 DEF CountersInv
    <3> QED BY <1>1, <1>2, <1>3, <3>1, <3>2
  <2>2. CASE MonthOf(h) # k
    <3>1. counter'[h] = counter[h] /\ MonthOf(h) \notin todo BY <1>1, <1>8, <2>2
    <3>2. /\ counter[h] >= RowsOf(h)
          /\ MonthOf(h) \notin touched => counter[h] = RowsOf(h)
      BY <1>1, <3>1 DEF CountersInv
    <3> QED BY <1>1, <1>3, <3>1, <3>2
  <2> QED BY <2>1, <2>2
<1>9. script' = "done" => todo' = {} BY <1>1
<1>10. CountersInv' BY <1>1, <1>6, <1>7, <1>8, <1>9 DEF CountersInv
<1> QED BY <1>5, <1>10

LEMMA FailKeepsCounters ==
  ASSUME CountersTypeOK, CountersInv, ScriptFails
  PROVE  CountersTypeOK' /\ CountersInv'
<1>1. \A h : RowsOf(h)' = RowsOf(h) BY TableUnchanged DEF ScriptFails
<1>2. created BY DEF ScriptFails, CountersInv, CountersTypeOK
<1> QED BY <1>1, <1>2 DEF ScriptFails, CountersInv, CountersTypeOK
-----------------------------------------------------------------------------
(* The cycle. CountersKept and ReportKept are about steps that leave the   *)
(* table and its views, or the archive and the report, alone.              *)

LEMMA CountersKept ==
  ASSUME CountersTypeOK, CountersInv, UNCHANGED counterVars
  PROVE  CountersTypeOK' /\ CountersInv'
<1>1. \A h : RowsOf(h)' = RowsOf(h) BY TableUnchanged DEF counterVars
<1> QED BY <1>1 DEF CountersTypeOK, CountersInv, counterVars

LEMMA ReportKept ==
  ASSUME CommandFillsReport, FilledIsNotReported, UNCHANGED <<archive, report>>
  PROVE  CommandFillsReport' /\ FilledIsNotReported'
BY DEF CommandFillsReport, FilledIsNotReported, EventsOf

LEMMA ArchiveHoldsMoments ==
  ASSUME TypeOK
  PROVE  archive \subseteq Moments /\ \A h : EventsOf(h) \subseteq Moments
BY CycleAssumption DEF TypeOK, EventsOf

(* What the page calls missing is inside what gh-collector resolves.       *)
LEMMA GridIsResolved ==
  ASSUME NEW start \in Bounds, NEW end \in Bounds
  PROVE  Grid(start, end) \subseteq ResolveHours(Command(start, end))
<1>1. HourOf(start) \in Int /\ HourOf(end) \in Int /\ start \in Int /\ end \in Int
  BY HoursOfBounds, CountersAssumption DEF Bounds
<1>2. CASE end <= start
  <2>1. HourOf(end) <= HourOf(start) BY <1>2, HoursOfBounds
  <2>2. Grid(start, end) = {} BY <1>1, <2>1 DEF Grid
  <2> QED BY <2>2
<1>3. CASE start < end
  <2>1. Command(start, end) = <<HourOf(start), HourOf(end)>> BY <1>1, <1>3 DEF Command
  <2> DEFINE a == HourOf(start)
             b == HourOf(end)
  <2>2. a \in Int /\ b \in Int BY <1>1
  <2> HIDE DEF a, b
  <2>3. a .. b - 1 \subseteq ResolveHours(<<a, b>>) BY <2>2 DEF ResolveHours, Rejected
  <2> QED BY <2>1, <2>3 DEF Grid, a, b
<1> QED BY <1>1, <1>2, <1>3

LEMMA GridIsInHours ==
  ASSUME NEW start \in Bounds, NEW end \in Bounds
  PROVE  Grid(start, end) \subseteq Hours
<1>1. HourOf(start) \in 0 .. NumHours /\ HourOf(end) \in 0 .. NumHours BY HoursOfBounds
<1>2. NumHours \in Nat BY CountersAssumption
<1> QED BY <1>1, <1>2 DEF Grid, Hours

LEMMA CycleInit == Init => CycleInv
<1> SUFFICES ASSUME Init PROVE CycleInv OBVIOUS
<1> USE DEF Init, CountersInit
<1>1. NumHours * Ticks \in Nat /\ MaxRows \in Nat BY CountersAssumption, CycleAssumption
<1>2. CountersTypeOK BY DEF CountersTypeOK
<1>3. report \in [start : Bounds, end : Bounds, missing : SUBSET Hours, filled : SUBSET Hours]
  <2>1. 0 \in Bounds BY <1>1 DEF Bounds
  <2> QED BY <2>1
<1>4. TypeOK BY <1>1, <1>2, <1>3 DEF TypeOK
<1>5. CountersInv BY DEF CountersInv
<1>6. CollectedIsKept BY DEF CollectedIsKept
<1>7. CommandFillsReport BY DEF CommandFillsReport
<1>8. FilledIsNotReported BY DEF FilledIsNotReported
<1> QED BY <1>4, <1>5, <1>6, <1>7, <1>8 DEF CycleInv

(* GET /admin/completeness: an hour that is filled and has an event in the *)
(* range is present in it.                                                 *)
LEMMA AskKeeps ==
  ASSUME CycleInv, NEW start \in Bounds, NEW end \in Bounds, AskReport(start, end)
  PROVE  CycleInv'
<1> USE DEF CycleInv
<1>1. /\ report' = [start |-> start, end |-> end,
                    missing |-> Missing(start, end), filled |-> Filled]
      /\ UNCHANGED <<counterVars, archive, pending, fetching, collected>>
  BY DEF AskReport
<1>2. CountersTypeOK' /\ CountersInv' BY <1>1, CountersKept DEF TypeOK
<1>3. Missing(start, end) \subseteq Hours BY GridIsInHours DEF Missing
<1>4. Filled \subseteq Hours BY DEF Filled, TypeOK
<1>5. report' \in [start : Bounds, end : Bounds,
                   missing : SUBSET Hours, filled : SUBSET Hours]
  BY <1>1, <1>3, <1>4
<1>6. TypeOK' BY <1>1, <1>2, <1>5 DEF TypeOK, counterVars
<1>7. CollectedIsKept' BY <1>1 DEF CollectedIsKept, EventsOf, counterVars
<1>8. CommandFillsReport'
  <2>1. Missing(start, end) \subseteq ResolveHours(Command(start, end))
    BY GridIsResolved DEF Missing
  <2> QED BY <1>1, <2>1 DEF CommandFillsReport
<1>9. FilledIsNotReported'
  <2>1. ASSUME NEW h \in Filled, NEW t \in EventsOf(h), start <= t, t < end
        PROVE  h \notin Missing(start, end)
    <3>1. t \in Moments /\ HourOf(t) = h BY ArchiveHoldsMoments DEF EventsOf
    <3>2. h \in collected /\ pending[t] = 0 BY <2>1 DEF Filled
    <3>3. rows[t] > 0 BY <2>1, <3>2 DEF CollectedIsKept
    <3>4. h \in Present(start, end) BY <2>1, <3>1, <3>3 DEF Present
    <3> QED BY <3>4 DEF Missing
  <2>2. \A h : EventsOf(h)' = EventsOf(h) BY <1>1 DEF EventsOf
  <2> QED BY <1>1, <2>1, <2>2 DEF FilledIsNotReported
<1> QED BY <1>2, <1>6, <1>7, <1>8, <1>9

LEMMA RunKeeps ==
  ASSUME CycleInv, RunCommand
  PROVE  CycleInv'
<1> USE DEF CycleInv
<1>1. /\ UNCHANGED <<counterVars, archive, pending, collected, report>>
      /\ fetching' \subseteq Hours
  BY DEF RunCommand
<1>2. CountersTypeOK' /\ CountersInv' BY <1>1, CountersKept DEF TypeOK
<1>3. TypeOK' BY <1>1, <1>2 DEF TypeOK, counterVars
<1>4. CollectedIsKept' BY <1>1 DEF CollectedIsKept, EventsOf, counterVars
<1>5. CommandFillsReport' /\ FilledIsNotReported' BY <1>1, ReportKept
<1> QED BY <1>2, <1>3, <1>4, <1>5

(* What every production of copies keeps.                                  *)
LEMMA ProducedKeeps ==
  ASSUME CycleInv, NEW S \in SUBSET Moments, \A t \in S : HasRoom(t),
         pending' = Produced(S), fetching' \subseteq Hours, collected' \subseteq Hours,
         UNCHANGED <<counterVars, archive, report>>
  PROVE  /\ TypeOK' /\ CountersInv' /\ CommandFillsReport' /\ FilledIsNotReported'
         /\ \A t \in Moments : pending'[t] >= pending[t]
         /\ \A t \in S : pending'[t] > 0
<1> USE DEF CycleInv
<1>1. CountersTypeOK' /\ CountersInv' BY CountersKept DEF TypeOK
<1>2. /\ rows \in [Moments -> Nat] /\ pending \in [Moments -> Nat] /\ rows' = rows
      /\ MaxRows \in Nat
  BY CycleAssumption DEF TypeOK, CountersTypeOK, counterVars
<1>3. pending' = [t \in Moments |-> IF t \in S THEN pending[t] + 1 ELSE pending[t]]
  BY DEF Produced
<1>4. /\ pending' \in [Moments -> Nat]
      /\ \A t \in Moments : pending'[t] >= pending[t]
      /\ \A t \in S : pending'[t] > 0
  BY <1>2, <1>3
<1>5. \A t \in Moments : rows'[t] + pending'[t] <= MaxRows
  <2> TAKE t \in Moments
  <2>1. rows[t] + pending[t] <= MaxRows BY DEF TypeOK
  <2>2. t \in S => rows[t] + pending[t] < MaxRows BY DEF HasRoom
  <2>3. rows[t] \in Nat /\ pending[t] \in Nat BY <1>2
  <2> QED BY <1>2, <1>3, <2>1, <2>2, <2>3
<1>6. TypeOK' BY <1>1, <1>4, <1>5 DEF TypeOK
<1>7. CommandFillsReport' /\ FilledIsNotReported' BY ReportKept
<1> QED BY <1>1, <1>4, <1>6, <1>7

LEMMA CollectKeeps ==
  ASSUME CycleInv, NEW h \in Hours, CollectHour(h)
  PROVE  CycleInv'
<1> USE DEF CycleInv
<1>1. /\ \A t \in EventsOf(h) : HasRoom(t)
      /\ pending' = Produced(EventsOf(h))
      /\ fetching' = fetching \ {h} /\ collected' = collected \cup {h}
      /\ UNCHANGED <<counterVars, archive, report>>
  BY DEF CollectHour
<1>2. EventsOf(h) \in SUBSET Moments BY ArchiveHoldsMoments
<1>3. fetching' \subseteq Hours /\ collected' \subseteq Hours BY <1>1 DEF TypeOK
<1>4. /\ TypeOK' /\ CountersInv' /\ CommandFillsReport' /\ FilledIsNotReported'
      /\ \A t \in Moments : pending'[t] >= pending[t]
      /\ \A t \in EventsOf(h) : pending'[t] > 0
  BY <1>1, <1>2, <1>3, ProducedKeeps
<1>5. CollectedIsKept'
  <2>1. \A g : EventsOf(g)' = EventsOf(g) BY <1>1 DEF EventsOf
  <2>2. ASSUME NEW g \in collected \cup {h}, NEW t \in EventsOf(g)
        PROVE  rows[t] > 0 \/ pending'[t] > 0
    <3>1. t \in Moments BY ArchiveHoldsMoments
    <3>2. pending[t] \in Nat /\ pending'[t] \in Nat BY <1>4, <3>1 DEF TypeOK
    <3>3. CASE g = h BY <1>4, <3>3
    <3>4. CASE g # h
      <4>1. rows[t] > 0 \/ pending[t] > 0 BY <3>4 DEF CollectedIsKept
      <4> QED BY <1>4, <3>1, <3>2, <4>1
    <3> QED BY <3>3, <3>4
  <2>3. rows' = rows BY <1>1 DEF counterVars
  <2> QED BY <1>1, <2>1, <2>2, <2>3 DEF CollectedIsKept
<1> QED BY <1>4, <1>5

LEMMA ProducedOnlyKeeps ==
  ASSUME CycleInv, NEW S \in SUBSET Moments, \A t \in S : HasRoom(t),
         pending' = Produced(S), fetching' \subseteq Hours,
         UNCHANGED <<counterVars, archive, collected, report>>
  PROVE  CycleInv'
<1> USE DEF CycleInv
<1>1. collected' \subseteq Hours BY DEF TypeOK
<1>2. /\ TypeOK' /\ CountersInv' /\ CommandFillsReport' /\ FilledIsNotReported'
      /\ \A t \in Moments : pending'[t] >= pending[t]
  BY <1>1, ProducedKeeps
<1>3. CollectedIsKept'
  <2>1. \A g : EventsOf(g)' = EventsOf(g) BY DEF EventsOf
  <2>2. rows' = rows BY DEF counterVars
  <2>3. ASSUME NEW g \in collected, NEW t \in EventsOf(g)
        PROVE  rows[t] > 0 \/ pending'[t] > 0
    <3>1. t \in Moments BY ArchiveHoldsMoments
    <3>2. pending[t] \in Nat /\ pending'[t] \in Nat BY <1>2, <3>1 DEF TypeOK
    <3>3. rows[t] > 0 \/ pending[t] > 0 BY DEF CollectedIsKept
    <3> QED BY <1>2, <3>1, <3>2, <3>3
  <2> QED BY <2>1, <2>2, <2>3 DEF CollectedIsKept
<1> QED BY <1>2, <1>3

LEMMA EndsEarlyKeeps ==
  ASSUME CycleInv, NEW h \in Hours, RunEndsEarly(h)
  PROVE  CycleInv'
<1>1. PICK S \in SUBSET EventsOf(h) : /\ \A t \in S : HasRoom(t)
                                     /\ pending' = Produced(S)
  BY DEF RunEndsEarly
<1>2. S \in SUBSET Moments BY ArchiveHoldsMoments DEF CycleInv
<1>3. fetching' \subseteq Hours /\ UNCHANGED <<counterVars, archive, collected, report>>
  BY DEF RunEndsEarly
<1> QED BY <1>1, <1>2, <1>3, ProducedOnlyKeeps

LEMMA LiveKeeps ==
  ASSUME CycleInv, NEW t \in Moments, CollectLive(t)
  PROVE  CycleInv'
<1>1. {t} \in SUBSET Moments /\ \A u \in {t} : HasRoom(u) BY DEF CollectLive
<1>2. pending' = Produced({t}) BY DEF CollectLive
<1>3. fetching' \subseteq Hours BY DEF CollectLive, CycleInv, TypeOK
<1>4. UNCHANGED <<counterVars, archive, collected, report>> BY DEF CollectLive
<1> QED BY <1>1, <1>2, <1>3, <1>4, ProducedOnlyKeeps

(* The message that leaves gh.events is a row now, and one that stays may  *)
(* become another.                                                         *)
LEMMA ConsumeKeeps ==
  ASSUME CycleInv, NEW t \in Moments, Consume(t)
  PROVE  CycleInv'
<1> USE DEF CycleInv
<1>1. /\ pending[t] > 0 /\ Insert(t)
      /\ \/ pending' = [pending EXCEPT ![t] = @ - 1]
         \/ HasRoom(t) /\ pending' = pending
      /\ UNCHANGED <<archive, fetching, collected, report>>
  BY DEF Consume
<1>2. CountersTypeOK' /\ CountersInv' BY <1>1, InsertKeepsCounters DEF TypeOK
<1>3. /\ rows \in [Moments -> Nat] /\ pending \in [Moments -> Nat] /\ MaxRows \in Nat
      /\ \A u \in Moments : rows[u] + pending[u] <= MaxRows
  BY CycleAssumption DEF TypeOK, CountersTypeOK
<1>4. rows' = [rows EXCEPT ![t] = @ + 1] BY <1>1 DEF Insert
<1>5. pending' \in [Moments -> Nat] BY <1>1, <1>3
<1>6. /\ rows'[t] = rows[t] + 1
      /\ \A u \in Moments \ {t} : rows'[u] = rows[u] /\ pending'[u] = pending[u]
      /\ \/ pending'[t] = pending[t] - 1
         \/ HasRoom(t) /\ pending'[t] = pending[t]
  <2>1. rows'[t] = rows[t] + 1 /\ \A u \in Moments \ {t} : rows'[u] = rows[u]
    BY <1>3, <1>4
  <2>2. CASE pending' = [pending EXCEPT ![t] = @ - 1]
    <3>1. pending'[t] = pending[t] - 1 BY <1>3, <2>2
    <3>2. \A u \in Moments \ {t} : pending'[u] = pending[u] BY <1>3, <2>2
    <3> QED BY <2>1, <3>1, <3>2
  <2>3. CASE HasRoom(t) /\ pending' = pending BY <2>1, <2>3
  <2> QED BY <1>1, <2>2, <2>3
<1>7. \A u \in Moments : rows'[u] + pending'[u] <= MaxRows
  <2> TAKE u \in Moments
  <2>1. /\ rows[u] \in Nat /\ pending[u] \in Nat /\ rows[u] + pending[u] <= MaxRows
    BY <1>3
  <2>2. CASE u # t BY <1>6, <2>1, <2>2
  <2>3. CASE u = t
    <3>1. HasRoom(t) => rows[t] + pending[t] < MaxRows BY DEF HasRoom
    <3> QED BY <1>3, <1>6, <2>1, <2>3, <3>1
  <2> QED BY <2>2, <2>3
<1>8. TypeOK' BY <1>1, <1>2, <1>5, <1>7 DEF TypeOK
<1>9. CollectedIsKept'
  <2>1. \A g : EventsOf(g)' = EventsOf(g) BY <1>1 DEF EventsOf
  <2>2. ASSUME NEW g \in collected, NEW u \in EventsOf(g)
        PROVE  rows'[u] > 0 \/ pending'[u] > 0
    <3>1. u \in Moments BY ArchiveHoldsMoments
    <3>2. rows[u] > 0 \/ pending[u] > 0 BY DEF CollectedIsKept
    <3>3. rows[u] \in Nat BY <1>3, <3>1
    <3> QED BY <1>6, <3>1, <3>2, <3>3
  <2> QED BY <1>1, <2>1, <2>2 DEF CollectedIsKept
<1>10. CommandFillsReport' /\ FilledIsNotReported' BY <1>1, ReportKept
<1> QED BY <1>2, <1>8, <1>9, <1>10

(* The view and the script do not change the table.                        *)
LEMMA CountersStepKeeps ==
  ASSUME CycleInv, CountersStep, UNCHANGED cycleVars
  PROVE  CycleInv'
<1> USE DEF CycleInv
<1>1. CountersTypeOK' /\ CountersInv'
  BY CreateViewKeepsCounters, StartKeepsCounters, FailKeepsCounters, AddMonthKeepsCounters
  DEF CountersStep, TypeOK
<1>2. rows' = rows
  BY DEF CountersStep, CreateView, StartScript, ScriptFails, AddMonth
<1>3. TypeOK' BY <1>1, <1>2 DEF TypeOK, cycleVars
<1>4. CollectedIsKept' BY <1>2 DEF CollectedIsKept, EventsOf, cycleVars
<1>5. CommandFillsReport' /\ FilledIsNotReported' BY ReportKept DEF cycleVars
<1> QED BY <1>1, <1>3, <1>4, <1>5

LEMMA CycleStutter ==
  ASSUME CycleInv, UNCHANGED vars
  PROVE  CycleInv'
<1> USE DEF CycleInv
<1>1. UNCHANGED counterVars /\ UNCHANGED cycleVars BY DEF vars
<1>2. CountersTypeOK' /\ CountersInv' BY <1>1, CountersKept DEF TypeOK
<1>3. TypeOK' BY <1>1, <1>2 DEF TypeOK, counterVars, cycleVars
<1>4. CollectedIsKept' BY <1>1 DEF CollectedIsKept, EventsOf, counterVars, cycleVars
<1>5. CommandFillsReport' /\ FilledIsNotReported' BY <1>1, ReportKept DEF cycleVars
<1> QED BY <1>2, <1>3, <1>4, <1>5

LEMMA CycleStep == CycleInv /\ [Next]_vars => CycleInv'
<1> SUFFICES ASSUME CycleInv, [Next]_vars PROVE CycleInv' OBVIOUS
<1>1. ASSUME NEW range \in Asked, AskReport(range[1], range[2]) PROVE CycleInv'
  <2>1. range[1] \in Bounds /\ range[2] \in Bounds BY CycleAssumption
  <2> QED BY <1>1, <2>1, AskKeeps
<1>2. ASSUME RunCommand PROVE CycleInv' BY <1>2, RunKeeps
<1>3. ASSUME NEW h \in Hours, CollectHour(h) PROVE CycleInv' BY <1>3, CollectKeeps
<1>4. ASSUME NEW h \in Hours, RunEndsEarly(h) PROVE CycleInv' BY <1>4, EndsEarlyKeeps
<1>5. ASSUME NEW t \in Moments, CollectLive(t) PROVE CycleInv' BY <1>5, LiveKeeps
<1>6. ASSUME NEW t \in Moments, Consume(t) PROVE CycleInv' BY <1>6, ConsumeKeeps
<1>7. ASSUME CountersStep, UNCHANGED cycleVars PROVE CycleInv'
  BY <1>7, CountersStepKeeps
<1>8. ASSUME UNCHANGED vars PROVE CycleInv' BY <1>8, CycleStutter
<1> QED BY <1>1, <1>2, <1>3, <1>4, <1>5, <1>6, <1>7, <1>8 DEF Next
-----------------------------------------------------------------------------
(* CycleInv holds always: the rows of a collected hour are in the table or *)
(* on their way, and the counters are what the script has left to add.     *)
THEOREM CycleInvariant == Spec => []CycleInv
<1>1. Init => CycleInv BY CycleInit
<1>2. CycleInv /\ [Next]_vars => CycleInv' BY CycleStep
<1> QED BY <1>1, <1>2, PTL DEF Spec

(* Every state has its shape; hours of a report and of a run are hours of  *)
(* the table.                                                              *)
THEOREM CycleTypeCorrect == Spec => []TypeOK
<1>1. CycleInv => TypeOK BY DEF CycleInv
<1> QED BY <1>1, CycleInvariant, PTL

(* CommandFillsReport, for any bounds within any number of hours of any    *)
(* length: the printed command collects every hour that the page calls     *)
(* missing (completeness.py:51-76, backfill.py:26-54, main.go:320-350).    *)
THEOREM CommandCoversReport == Spec => []CommandFillsReport
<1>1. CycleInv => CommandFillsReport BY DEF CycleInv
<1> QED BY <1>1, CycleInvariant, PTL

(* FilledIsNotReported, for any archive and any number of runs, broken off *)
(* or not: an hour that was collected and inserted is not asked for again  *)
(* (completeness.py:29-76).                                                *)
THEOREM FilledStaysFilled == Spec => []FilledIsNotReported
<1>1. CycleInv => FilledIsNotReported BY DEF CycleInv
<1> QED BY <1>1, CycleInvariant, PTL

(* CountersNeverShort, for any number of rows and months: after the script *)
(* no row is missing from the view, whatever arrived while it ran          *)
(* (002_mv_hourly.sql:4-8, 002_mv_hourly_backfill.sql:4-16).               *)
THEOREM CountersMissNothing == Spec => []CountersNeverShort
<1>1. CycleInv => CountersNeverShort
  BY DEF CycleInv, CountersInv, CountersNeverShort
<1> QED BY <1>1, CycleInvariant, PTL

(* CountersMatch, for any number of rows and months: a month that did not  *)
(* grow between the list and its turn is counted exactly, however often    *)
(* the script was started or broke off (002_mv_hourly_backfill.sql:81-93). *)
THEOREM CountersAreExact == Spec => []CountersMatch
<1>1. CycleInv => CountersMatch
  BY DEF CycleInv, CountersInv, CountersMatch
<1> QED BY <1>1, CycleInvariant, PTL
=============================================================================
