------------------------ MODULE AnalyticsReads_proofs ------------------------
(***************************************************************************)
(* What AnalyticsReads promises, proved for any finite set of events, any  *)
(* lengths of hours, days and windows, and any endpoint. ReadsInv, of      *)
(* module AnalyticsReads, is inductive.                                    *)
(*                                                                         *)
(* A count is a sum, and a sum is defined by recursion over the subsets of *)
(* a finite set. The induction theorems of the library take a predicate as *)
(* a parameter; here a smallest counterexample takes their place           *)
(* (SmallestSubset), which exists because the strict inclusion of finite   *)
(* sets is well-founded.                                                   *)
(***************************************************************************)
EXTENDS AnalyticsReads, FiniteSetTheorems, TLAPS

AnyOf(s) == CHOOSE x \in s : TRUE

(* g sums f over every subset of S, by the recursion of MapThenFoldSet.    *)
IsSumming(g, f, S) ==
  g = [s \in SUBSET S |-> IF s = {} THEN 0 ELSE f[AnyOf(s)] + g[s \ {AnyOf(s)}]]

LEMMA SumUnfolds ==
  ASSUME NEW f, NEW S
  PROVE  SumFunctionOnSet(f, S) = (CHOOSE g : IsSumming(g, f, S))[S]
BY DEF SumFunctionOnSet, FoldFunctionOnSet, MapThenFoldSet, IsSumming, AnyOf

LEMMA AnyOfIsIn == \A s : s # {} => AnyOf(s) \in s
BY DEF AnyOf

(* Among some subsets of a finite set there is one that contains no other. *)
LEMMA SmallestSubset ==
  ASSUME NEW S, IsFiniteSet(S), NEW Bad \in SUBSET (SUBSET S), Bad # {}
  PROVE  \E T \in Bad : \A U \in Bad : ~ (U \subseteq T /\ U # T)
<1>1. IsWellFoundedOn(StrictSubsetOrdering(S), FiniteSubsetsOf(S))
  BY FS_StrictSubsetOrderingWellFounded
<1>2. FiniteSubsetsOf(S) = SUBSET S BY FS_FiniteSubsetsOfFinite
<1>3. PICK T \in Bad : \A U \in Bad : ~ (<<U, T>> \in StrictSubsetOrdering(S))
  BY <1>1, <1>2, WFMin
<1> QED BY <1>3 DEF StrictSubsetOrdering

LEMMA SummingIsUnique ==
  ASSUME NEW f, NEW S, IsFiniteSet(S), NEW T \in SUBSET S,
         NEW g, NEW h, IsSumming(g, f, S), IsSumming(h, f, T)
  PROVE  \A s \in SUBSET T : g[s] = h[s]
<1> DEFINE Bad == {s \in SUBSET T : g[s] # h[s]}
<1> SUFFICES ASSUME Bad # {} PROVE FALSE OBVIOUS
<1>1. IsFiniteSet(T) BY FS_Subset
<1>2. Bad \in SUBSET (SUBSET T) OBVIOUS
<1>3. PICK s \in Bad : \A u \in Bad : ~ (u \subseteq s /\ u # s)
  <2> HIDE DEF Bad
  <2> QED BY <1>1, <1>2, SmallestSubset
<1>4. s \in SUBSET T /\ s \in SUBSET S OBVIOUS
<1>5. g[s] = IF s = {} THEN 0 ELSE f[AnyOf(s)] + g[s \ {AnyOf(s)}] BY <1>4 DEF IsSumming
<1>6. h[s] = IF s = {} THEN 0 ELSE f[AnyOf(s)] + h[s \ {AnyOf(s)}] BY <1>4 DEF IsSumming
<1>7. s # {} BY <1>5, <1>6
<1>8. s \ {AnyOf(s)} \in SUBSET T /\ s \ {AnyOf(s)} # s BY <1>4, <1>7, AnyOfIsIn
<1>9. g[s \ {AnyOf(s)}] = h[s \ {AnyOf(s)}] BY <1>3, <1>8
<1> QED BY <1>5, <1>6, <1>9

LEMMA SummingExists ==
  ASSUME NEW f, NEW S, IsFiniteSet(S)
  PROVE  \E g : IsSumming(g, f, S)
<1> DEFINE Bad == {s \in SUBSET S : ~ \E g : IsSumming(g, f, s)}
<1> SUFFICES ASSUME Bad # {} PROVE FALSE OBVIOUS
<1>1. Bad \in SUBSET (SUBSET S) OBVIOUS
<1>2. PICK T \in Bad : \A u \in Bad : ~ (u \subseteq T /\ u # T)
  <2> HIDE DEF Bad
  <2> QED BY <1>1, SmallestSubset
<1>3. T \subseteq S OBVIOUS
<1> DEFINE G(u) == CHOOSE g : IsSumming(g, f, u)
           Rest(s) == s \ {AnyOf(s)}
           h == [s \in SUBSET T |-> IF s = {} THEN 0 ELSE f[AnyOf(s)] + G(Rest(s))[Rest(s)]]
<1>4. \A u \in SUBSET T : u # T => IsSumming(G(u), f, u) BY <1>2, <1>3
<1>5. ASSUME NEW s \in SUBSET T, s # {}
      PROVE  h[Rest(s)] = G(Rest(s))[Rest(s)]
  <2> DEFINE u == Rest(s)
  <2>1. u \in SUBSET T /\ u # T BY <1>5, AnyOfIsIn
  <2>2. IsSumming(G(u), f, u) BY <2>1, <1>4
  <2>3. G(u)[u] = IF u = {} THEN 0 ELSE f[AnyOf(u)] + G(u)[Rest(u)] BY <2>2 DEF IsSumming
  <2>4. h[u] = IF u = {} THEN 0 ELSE f[AnyOf(u)] + G(Rest(u))[Rest(u)] BY <2>1
  <2>5. CASE u = {} BY <2>3, <2>4, <2>5
  <2>6. CASE u # {}
    <3>1. Rest(u) \in SUBSET u /\ Rest(u) \in SUBSET T /\ Rest(u) # T BY <2>1, <2>6, AnyOfIsIn
    <3>2. IsSumming(G(Rest(u)), f, Rest(u)) BY <3>1, <1>4
    <3>3. IsFiniteSet(u) BY <2>1, <1>3, FS_Subset
    <3>4. Rest(u) \in SUBSET Rest(u) OBVIOUS
    <3> HIDE DEF u, G, Rest
    <3>5. \A t \in SUBSET Rest(u) : G(u)[t] = G(Rest(u))[t] BY <2>2, <3>1, <3>2, <3>3, SummingIsUnique
    <3>6. G(u)[Rest(u)] = G(Rest(u))[Rest(u)] BY <3>5, <3>4
    <3> HIDE DEF h
    <3>7. h[u] = G(u)[u] BY <2>3, <2>4, <2>6, <3>6
    <3> QED BY <3>7 DEF u
  <2> QED BY <2>5, <2>6
<1>6. IsSumming(h, f, T)
  <2> HIDE DEF G
  <2>1. h = [s \in SUBSET T |-> IF s = {} THEN 0 ELSE f[AnyOf(s)] + h[Rest(s)]] BY <1>5
  <2> QED BY <2>1 DEF IsSumming
<1> QED BY <1>6, <1>2

LEMMA SumOfNone == \A f : SumFunctionOnSet(f, {}) = 0
<1> TAKE f
<1>1. IsSumming(CHOOSE g : IsSumming(g, f, {}), f, {}) BY SummingExists, FS_EmptySet
<1>2. {} \in SUBSET {} OBVIOUS
<1> QED BY <1>1, <1>2, SumUnfolds DEF IsSumming

LEMMA SumOfRest ==
  ASSUME NEW f, NEW S, IsFiniteSet(S), S # {}
  PROVE  SumFunctionOnSet(f, S) = f[AnyOf(S)] + SumFunctionOnSet(f, S \ {AnyOf(S)})
<1> DEFINE R == S \ {AnyOf(S)}
           g == CHOOSE sums : IsSumming(sums, f, S)
           h == CHOOSE sums : IsSumming(sums, f, R)
<1>1. IsFiniteSet(R) /\ R \in SUBSET S BY FS_Subset
<1>2. IsSumming(g, f, S) /\ IsSumming(h, f, R) BY <1>1, SummingExists
<1>3. SumFunctionOnSet(f, S) = g[S] /\ SumFunctionOnSet(f, R) = h[R] BY SumUnfolds
<1>4. g[S] = f[AnyOf(S)] + g[R]
  <2> HIDE DEF g
  <2> QED BY <1>2 DEF IsSumming
<1>5. g[R] = h[R]
  <2>1. R \in SUBSET R OBVIOUS
  <2> HIDE DEF g, h, R
  <2> QED BY <1>1, <1>2, <2>1, SummingIsUnique
<1> QED BY <1>3, <1>4, <1>5
-----------------------------------------------------------------------------
(* Sums of natural numbers over finite sets. The order in which the        *)
(* recursion takes the elements does not matter.                           *)
AreNumbers(f, S) == \A x \in S : f[x] \in Nat

LEMMA SumType ==
  ASSUME NEW f, NEW S, IsFiniteSet(S), AreNumbers(f, S)
  PROVE  SumFunctionOnSet(f, S) \in Nat
<1> DEFINE Bad == {s \in SUBSET S : SumFunctionOnSet(f, s) \notin Nat}
<1> SUFFICES ASSUME Bad # {} PROVE FALSE OBVIOUS
<1>1. Bad \in SUBSET (SUBSET S) OBVIOUS
<1>2. PICK T \in Bad : \A u \in Bad : ~ (u \subseteq T /\ u # T)
  <2> HIDE DEF Bad
  <2> QED BY <1>1, SmallestSubset
<1>3. T # {} BY SumOfNone
<1>4. IsFiniteSet(T) /\ AnyOf(T) \in T BY <1>3, FS_Subset, AnyOfIsIn
<1>5. SumFunctionOnSet(f, T) = f[AnyOf(T)] + SumFunctionOnSet(f, T \ {AnyOf(T)})
  BY <1>3, <1>4, SumOfRest
<1>6. T \ {AnyOf(T)} \subseteq T /\ T \ {AnyOf(T)} # T /\ T \ {AnyOf(T)} \in SUBSET S BY <1>4
<1>7. SumFunctionOnSet(f, T \ {AnyOf(T)}) \in Nat BY <1>2, <1>6
<1>8. f[AnyOf(T)] \in Nat BY <1>4 DEF AreNumbers
<1> QED BY <1>5, <1>7, <1>8

LEMMA SumWithout ==
  ASSUME NEW f, NEW S, IsFiniteSet(S), AreNumbers(f, S), NEW x \in S
  PROVE  SumFunctionOnSet(f, S) = f[x] + SumFunctionOnSet(f, S \ {x})
<1> DEFINE Bad == {s \in SUBSET S : \E y \in s : SumFunctionOnSet(f, s) # f[y] + SumFunctionOnSet(f, s \ {y})}
<1> SUFFICES ASSUME Bad # {} PROVE FALSE OBVIOUS
<1>1. Bad \in SUBSET (SUBSET S) OBVIOUS
<1>2. PICK T \in Bad : \A u \in Bad : ~ (u \subseteq T /\ u # T)
  <2> HIDE DEF Bad
  <2> QED BY <1>1, SmallestSubset
<1>3. PICK y \in T : SumFunctionOnSet(f, T) # f[y] + SumFunctionOnSet(f, T \ {y}) OBVIOUS
<1> DEFINE z == AnyOf(T)
<1>4. IsFiniteSet(T) /\ z \in T /\ T \subseteq S BY FS_Subset, AnyOfIsIn
<1>5. SumFunctionOnSet(f, T) = f[z] + SumFunctionOnSet(f, T \ {z}) BY <1>4, SumOfRest
<1>6. y # z BY <1>3, <1>5
<1> HIDE DEF z
<1>7. SumFunctionOnSet(f, T \ {z}) = f[y] + SumFunctionOnSet(f, (T \ {z}) \ {y})
  <2>1. T \ {z} \notin Bad BY <1>2, <1>4
  <2> QED BY <2>1, <1>4, <1>6
<1>8. SumFunctionOnSet(f, T \ {y}) = f[z] + SumFunctionOnSet(f, (T \ {y}) \ {z})
  <2>1. T \ {y} \notin Bad BY <1>2
  <2> QED BY <2>1, <1>4, <1>6
<1>9. (T \ {z}) \ {y} = (T \ {y}) \ {z} OBVIOUS
<1>10. SumFunctionOnSet(f, (T \ {y}) \ {z}) \in Nat
  <2>1. IsFiniteSet((T \ {y}) \ {z}) BY <1>4, FS_Subset
  <2>2. AreNumbers(f, (T \ {y}) \ {z}) BY <1>4 DEF AreNumbers
  <2> QED BY <2>1, <2>2, SumType
<1>11. f[y] \in Nat /\ f[z] \in Nat BY <1>4 DEF AreNumbers
<1> QED BY <1>3, <1>5, <1>7, <1>8, <1>9, <1>10, <1>11

LEMMA SumMonotone ==
  ASSUME NEW f, NEW g, NEW T, IsFiniteSet(T), NEW S \in SUBSET T,
         AreNumbers(f, S), AreNumbers(g, T), \A x \in S : f[x] <= g[x]
  PROVE  SumFunctionOnSet(f, S) <= SumFunctionOnSet(g, T)
<1> DEFINE Bad == {t \in SUBSET T : ~ (SumFunctionOnSet(f, t \cap S) <= SumFunctionOnSet(g, t))}
<1>1. Bad = {} => SumFunctionOnSet(f, T \cap S) <= SumFunctionOnSet(g, T) OBVIOUS
<1>2. T \cap S = S OBVIOUS
<1> SUFFICES ASSUME Bad # {} PROVE FALSE BY <1>1, <1>2
<1>3. Bad \in SUBSET (SUBSET T) OBVIOUS
<1>4. PICK t \in Bad : \A u \in Bad : ~ (u \subseteq t /\ u # t)
  <2> HIDE DEF Bad
  <2> QED BY <1>3, SmallestSubset
<1>5. t # {}
  <2>1. {} \cap S = {} OBVIOUS
  <2> QED BY <2>1, SumOfNone
<1> DEFINE z == AnyOf(t)
<1>6. IsFiniteSet(t) /\ z \in t /\ t \subseteq T /\ IsFiniteSet(t \cap S) BY <1>5, FS_Subset, AnyOfIsIn
<1> HIDE DEF z
<1>7. SumFunctionOnSet(f, (t \ {z}) \cap S) <= SumFunctionOnSet(g, t \ {z})
  <2>1. t \ {z} \notin Bad BY <1>4, <1>6
  <2> QED BY <2>1, <1>6
<1>8. AreNumbers(g, t) /\ AreNumbers(f, t \cap S) BY <1>6 DEF AreNumbers
<1>9. SumFunctionOnSet(g, t) = g[z] + SumFunctionOnSet(g, t \ {z}) BY <1>6, <1>8, SumWithout
<1>10. SumFunctionOnSet(g, t \ {z}) \in Nat /\ SumFunctionOnSet(f, (t \ {z}) \cap S) \in Nat
  <2>1. IsFiniteSet(t \ {z}) /\ IsFiniteSet((t \ {z}) \cap S) BY <1>6, FS_Subset
  <2>2. AreNumbers(g, t \ {z}) /\ AreNumbers(f, (t \ {z}) \cap S) BY <1>8 DEF AreNumbers
  <2> QED BY <2>1, <2>2, SumType
<1>11. g[z] \in Nat BY <1>6, <1>8 DEF AreNumbers
<1> DEFINE less == SumFunctionOnSet(f, (t \ {z}) \cap S)
           rest == SumFunctionOnSet(g, t \ {z})
<1>12. ~ (SumFunctionOnSet(f, t \cap S) <= g[z] + rest) BY <1>4, <1>9
<1>13. less \in Nat /\ rest \in Nat /\ less <= rest BY <1>7, <1>10
<1>14. CASE z \in S
  <2>1. SumFunctionOnSet(f, t \cap S) = f[z] + SumFunctionOnSet(f, (t \cap S) \ {z})
    BY <1>6, <1>8, <1>14, SumWithout
  <2>2. (t \cap S) \ {z} = (t \ {z}) \cap S OBVIOUS
  <2>3. f[z] \in Nat /\ f[z] <= g[z] BY <1>14 DEF AreNumbers
  <2>4. SumFunctionOnSet(f, t \cap S) = f[z] + less BY <2>1, <2>2
  <2> HIDE DEF less, rest
  <2> QED BY <2>3, <2>4, <1>11, <1>12, <1>13
<1>15. CASE z \notin S
  <2>1. t \cap S = (t \ {z}) \cap S BY <1>15
  <2>2. SumFunctionOnSet(f, t \cap S) = less BY <2>1
  <2> HIDE DEF less, rest
  <2> QED BY <2>2, <1>11, <1>12, <1>13
<1> QED BY <1>14, <1>15

LEMMA SumEqual ==
  ASSUME NEW f, NEW g, NEW S, IsFiniteSet(S), AreNumbers(f, S), \A x \in S : f[x] = g[x]
  PROVE  SumFunctionOnSet(f, S) = SumFunctionOnSet(g, S)
<1>1. AreNumbers(g, S) BY DEF AreNumbers
<1>2. \A x \in S : f[x] <= g[x] /\ g[x] <= f[x] BY <1>1 DEF AreNumbers
<1>3. S \in SUBSET S OBVIOUS
<1>4. SumFunctionOnSet(f, S) <= SumFunctionOnSet(g, S) BY <1>1, <1>2, <1>3, SumMonotone
<1>5. SumFunctionOnSet(g, S) <= SumFunctionOnSet(f, S) BY <1>1, <1>2, <1>3, SumMonotone
<1>6. SumFunctionOnSet(f, S) \in Nat /\ SumFunctionOnSet(g, S) \in Nat BY <1>1, SumType
<1> QED BY <1>4, <1>5, <1>6

(* What adds nothing can be left out. *)
LEMMA SumOfSupport ==
  ASSUME NEW f, NEW S, IsFiniteSet(S), AreNumbers(f, S), NEW T \in SUBSET S, \A x \in S \ T : f[x] = 0
  PROVE  SumFunctionOnSet(f, T) = SumFunctionOnSet(f, S)
<1> DEFINE Bad == {s \in SUBSET S : SumFunctionOnSet(f, s \cap T) # SumFunctionOnSet(f, s)}
<1>1. Bad = {} => SumFunctionOnSet(f, S \cap T) = SumFunctionOnSet(f, S) OBVIOUS
<1>2. S \cap T = T OBVIOUS
<1> SUFFICES ASSUME Bad # {} PROVE FALSE BY <1>1, <1>2
<1>3. Bad \in SUBSET (SUBSET S) OBVIOUS
<1>4. PICK s \in Bad : \A u \in Bad : ~ (u \subseteq s /\ u # s)
  <2> HIDE DEF Bad
  <2> QED BY <1>3, SmallestSubset
<1>5. s # {}
  <2>1. {} \cap T = {} OBVIOUS
  <2> QED BY <2>1
<1> DEFINE z == AnyOf(s)
<1>6. z \in s /\ s \subseteq S /\ IsFiniteSet(s) /\ IsFiniteSet(s \cap T) BY <1>5, FS_Subset, AnyOfIsIn
<1> HIDE DEF z
<1> DEFINE rest == SumFunctionOnSet(f, s \ {z})
<1>7. SumFunctionOnSet(f, (s \ {z}) \cap T) = rest
  <2>1. s \ {z} \notin Bad BY <1>4, <1>6
  <2> QED BY <2>1, <1>6
<1>8. AreNumbers(f, s) /\ AreNumbers(f, s \cap T) BY <1>6 DEF AreNumbers
<1>9. SumFunctionOnSet(f, s) = f[z] + rest BY <1>6, <1>8, SumWithout
<1>10. rest \in Nat
  <2>1. IsFiniteSet(s \ {z}) /\ AreNumbers(f, s \ {z}) BY <1>6, <1>8, FS_Subset DEF AreNumbers
  <2> QED BY <2>1, SumType
<1>11. CASE z \in T
  <2>1. SumFunctionOnSet(f, s \cap T) = f[z] + SumFunctionOnSet(f, (s \cap T) \ {z})
    BY <1>6, <1>8, <1>11, SumWithout
  <2>2. (s \cap T) \ {z} = (s \ {z}) \cap T OBVIOUS
  <2>3. SumFunctionOnSet(f, s \cap T) = f[z] + rest BY <1>7, <2>1, <2>2
  <2> QED BY <1>4, <1>9, <2>3
<1>12. CASE z \notin T
  <2>1. s \cap T = (s \ {z}) \cap T BY <1>12
  <2>2. f[z] = 0 BY <1>6, <1>12
  <2>3. SumFunctionOnSet(f, s \cap T) = rest BY <1>7, <2>1
  <2> HIDE DEF rest
  <2>4. SumFunctionOnSet(f, s) = rest BY <1>9, <1>10, <2>2
  <2> QED BY <1>4, <2>3, <2>4
<1> QED BY <1>11, <1>12

LEMMA SumOfOne ==
  ASSUME NEW f, NEW x, f[x] \in Nat
  PROVE  SumFunctionOnSet(f, {x}) = f[x]
<1>1. IsFiniteSet({x}) /\ AreNumbers(f, {x}) BY FS_Singleton DEF AreNumbers
<1>2. {x} \ {x} = {} OBVIOUS
<1>3. x \in {x} OBVIOUS
<1>4. SumFunctionOnSet(f, {x}) = f[x] + SumFunctionOnSet(f, {x} \ {x}) BY <1>1, <1>3, SumWithout
<1> QED BY <1>2, <1>4, SumOfNone

LEMMA SumOfZeros ==
  ASSUME NEW f, NEW S, IsFiniteSet(S), \A x \in S : f[x] = 0
  PROVE  SumFunctionOnSet(f, S) = 0
<1> DEFINE Bad == {s \in SUBSET S : SumFunctionOnSet(f, s) # 0}
<1> SUFFICES ASSUME Bad # {} PROVE FALSE OBVIOUS
<1>1. Bad \in SUBSET (SUBSET S) OBVIOUS
<1>2. PICK T \in Bad : \A u \in Bad : ~ (u \subseteq T /\ u # T)
  <2> HIDE DEF Bad
  <2> QED BY <1>1, SmallestSubset
<1>3. T # {} BY SumOfNone
<1> DEFINE z == AnyOf(T)
<1>4. IsFiniteSet(T) /\ z \in T /\ T \subseteq S BY <1>3, FS_Subset, AnyOfIsIn
<1>5. SumFunctionOnSet(f, T) = f[z] + SumFunctionOnSet(f, T \ {z}) BY <1>4, SumOfRest
<1> HIDE DEF z
<1>6. T \ {z} \notin Bad BY <1>2, <1>4
<1> QED BY <1>4, <1>5, <1>6

(* One element changes. *)
LEMMA SumExcept ==
  ASSUME NEW f, NEW g, NEW S, IsFiniteSet(S), AreNumbers(f, S), AreNumbers(g, S),
         NEW x \in S, \A y \in S \ {x} : f[y] = g[y]
  PROVE  SumFunctionOnSet(g, S) + f[x] = SumFunctionOnSet(f, S) + g[x]
<1>1. IsFiniteSet(S \ {x}) BY FS_Subset
<1>2. AreNumbers(f, S \ {x}) /\ AreNumbers(g, S \ {x}) BY DEF AreNumbers
<1>3. SumFunctionOnSet(f, S \ {x}) = SumFunctionOnSet(g, S \ {x}) BY <1>1, <1>2, SumEqual
<1>4. SumFunctionOnSet(f, S) = f[x] + SumFunctionOnSet(f, S \ {x}) BY SumWithout
<1>5. SumFunctionOnSet(g, S) = g[x] + SumFunctionOnSet(g, S \ {x}) BY SumWithout
<1>6. f[x] \in Nat /\ g[x] \in Nat BY DEF AreNumbers
<1>7. SumFunctionOnSet(f, S \ {x}) \in Nat BY <1>1, <1>2, SumType
<1> QED BY <1>3, <1>4, <1>5, <1>6, <1>7

LEMMA SumAtLeast ==
  ASSUME NEW f, NEW S, IsFiniteSet(S), AreNumbers(f, S), NEW T \in SUBSET S
  PROVE  SumFunctionOnSet(f, T) <= SumFunctionOnSet(f, S)
<1>1. AreNumbers(f, T) /\ \A x \in T : f[x] <= f[x] BY DEF AreNumbers
<1> QED BY <1>1, SumMonotone
-----------------------------------------------------------------------------
(* The rows of a view. *)

LEMMA FiniteImage ==
  ASSUME NEW S, IsFiniteSet(S), NEW f
  PROVE  IsFiniteSet({f[x] : x \in S})
<1> DEFINE g == [x \in S |-> f[x]]
<1>1. g \in Surjection(S, {f[x] : x \in S}) BY DEF Surjection
<1> HIDE DEF g
<1> QED BY <1>1, FS_Surjection

LEMMA RowsAreFinite == \A v \in Views : IsFiniteSet(Keys(v)) /\ IsFiniteSet(Rows(v))
<1> TAKE v \in Views
<1> DEFINE K == {k \in Kinds : Counts(v, k)}
           f == [e \in K |-> Key(v, e)]
           T == Keys(v) \X (1 .. MaxEvents)
           g == [p \in T |-> Row(p[1], p[2])]
<1>1. IsFiniteSet(K) BY ReadsAssumption, FS_Subset
<1>2. Keys(v) = {f[e] : e \in K} BY DEF Keys
<1>3. IsFiniteSet(Keys(v))
  <2> HIDE DEF f, K
  <2> QED BY <1>1, <1>2, FiniteImage
<1>4. IsFiniteSet(T)
  <2>1. IsFiniteSet(1 .. MaxEvents) BY ReadsAssumption, FS_Interval
  <2> QED BY <1>3, <2>1, FS_Product
<1>5. Rows(v) = {g[p] : p \in T}
  <2>1. ASSUME NEW row \in Rows(v) PROVE row \in {g[p] : p \in T}
    <3>1. <<row.key, row.n>> \in T /\ row = Row(row.key, row.n) BY <2>1 DEF Rows, Row
    <3> QED BY <3>1
  <2>2. \A p \in T : g[p] \in Rows(v) BY DEF Rows, Row
  <2> QED BY <2>1, <2>2
<1>6. IsFiniteSet(Rows(v))
  <2> HIDE DEF g, T
  <2> QED BY <1>4, <1>5, FiniteImage
<1> QED BY <1>3, <1>6

LEMMA RowShape == \A v : \A row \in Rows(v) : row.n \in Nat /\ row.n > 0 /\ row.key \in Keys(v)
<1> SUFFICES ASSUME NEW v, NEW row \in Rows(v) PROVE row.n \in Nat /\ row.n > 0 /\ row.key \in Keys(v) OBVIOUS
<1>1. row.n \in 1 .. MaxEvents /\ row.key \in Keys(v) BY DEF Rows
<1>2. MaxEvents \in Nat BY ReadsAssumption
<1> QED BY <1>1, <1>2

LEMMA LanguageIsKnown == \A row \in Rows("languages") : row.key[1] # ""
<1>1. \A row \in Rows("languages") : row.key \in Keys("languages") BY RowShape
<1>2. ASSUME NEW e \in Kinds, Counts("languages", e) PROVE Key("languages", e)[1] # ""
  BY <1>2 DEF Counts, Key
<1> QED BY <1>1, <1>2 DEF Keys

(* A number of copies of each row of a view. *)
LEMMA WeightsAreNumbers ==
  ASSUME NEW v \in Views, NEW rows \in [Rows(v) -> Nat], NEW S \in SUBSET Rows(v)
  PROVE  AreNumbers(Weight(rows), S)
<1>1. \A row \in Rows(v) : row.n \in Nat /\ rows[row] \in Nat BY RowShape
<1>2. \A row \in Rows(v) : row.n * rows[row] \in Nat BY <1>1
<1> QED BY <1>2 DEF AreNumbers, Weight

LEMMA WeightOfPlus ==
  ASSUME NEW v \in Views, NEW rows \in [Rows(v) -> Nat], NEW row \in Rows(v), NEW S \in SUBSET Rows(v)
  PROVE  /\ Plus(rows, row) \in [Rows(v) -> Nat]
         /\ SumFunctionOnSet(Weight(Plus(rows, row)), S)
              = SumFunctionOnSet(Weight(rows), S) + IF row \in S THEN row.n ELSE 0
<1> DEFINE more == Plus(rows, row)
<1>1. more \in [Rows(v) -> Nat] BY DEF Plus
<1>2. IsFiniteSet(S) BY RowsAreFinite, FS_Subset
<1>3. AreNumbers(Weight(rows), S) /\ AreNumbers(Weight(more), S)
  <2> HIDE DEF more
  <2> QED BY <1>1, WeightsAreNumbers
<1>4. \A r \in Rows(v) \ {row} : Weight(more)[r] = Weight(rows)[r] BY DEF Weight, Plus
<1>5. more[row] = rows[row] + 1 BY DEF Plus
<1>6. Weight(more)[row] = Weight(rows)[row] + row.n
  <2>1. row.n \in Nat /\ rows[row] \in Nat BY RowShape
  <2>2. \A x, y \in Nat : x * (y + 1) = x * y + x OBVIOUS
  <2>3. DOMAIN more = Rows(v) BY <1>1
  <2> HIDE DEF more
  <2> QED BY <2>1, <2>2, <2>3, <1>5 DEF Weight
<1>7. SumFunctionOnSet(Weight(rows), S) \in Nat /\ SumFunctionOnSet(Weight(more), S) \in Nat
  BY <1>2, <1>3, SumType
<1> HIDE DEF more
<1>8. CASE row \in S
  <2>1. \A r \in S \ {row} : Weight(rows)[r] = Weight(more)[r] BY <1>4
  <2>2. SumFunctionOnSet(Weight(more), S) + Weight(rows)[row] = SumFunctionOnSet(Weight(rows), S) + Weight(more)[row]
    BY <1>2, <1>3, <1>8, <2>1, SumExcept
  <2>3. Weight(rows)[row] \in Nat /\ row.n \in Nat BY <1>3, <1>8, RowShape DEF AreNumbers
  <2> QED BY <1>1, <1>6, <1>7, <1>8, <2>2, <2>3 DEF more
<1>9. CASE row \notin S
  <2>1. \A r \in S : Weight(rows)[r] = Weight(more)[r] BY <1>4, <1>9
  <2>2. SumFunctionOnSet(Weight(rows), S) = SumFunctionOnSet(Weight(more), S)
    BY <1>2, <1>3, <2>1, SumEqual
  <2> QED BY <1>1, <1>7, <1>9, <2>2 DEF more
<1> QED BY <1>8, <1>9

LEMMA WeightOfMinus ==
  ASSUME NEW v \in Views, NEW rows \in [Rows(v) -> Nat], NEW row \in Rows(v), NEW S \in SUBSET Rows(v),
         rows[row] > 0
  PROVE  /\ Minus(rows, row) \in [Rows(v) -> Nat]
         /\ SumFunctionOnSet(Weight(rows), S)
              = SumFunctionOnSet(Weight(Minus(rows, row)), S) + IF row \in S THEN row.n ELSE 0
<1>1. Minus(rows, row) \in [Rows(v) -> Nat] BY DEF Minus
<1>2. Plus(Minus(rows, row), row) = rows
  <2> DEFINE back == Plus(Minus(rows, row), row)
  <2>1. back = [r \in Rows(v) |-> back[r]] BY DEF Plus, Minus
  <2>2. \A r \in Rows(v) : back[r] = rows[r] BY DEF Plus, Minus
  <2>3. rows = [r \in Rows(v) |-> rows[r]] OBVIOUS
  <2> HIDE DEF back
  <2>4. [r \in Rows(v) |-> back[r]] = [r \in Rows(v) |-> rows[r]] BY <2>2
  <2> QED BY <2>1, <2>3, <2>4 DEF back
<1> QED BY <1>1, <1>2, WeightOfPlus
-----------------------------------------------------------------------------
(* What the sums of the specification are sums of. *)

LEMMA TotalIsSum ==
  /\ Total(table, LAMBDA e : TRUE) = SumFunctionOnSet(table, Kinds)
  /\ Total(table, LAMBDA e : TRUE)' = SumFunctionOnSet(table', Kinds)
<1>1. {e \in Kinds : TRUE} = Kinds OBVIOUS
<1> QED BY <1>1 DEF Total

LEMMA TableShape ==
  TypeOK => \A e \in Kinds : table[e] \in Nat /\ floor[e] \in Nat /\ table[e] <= MaxEvents
<1>1. MaxEvents \in Nat BY ReadsAssumption
<1>2. \A n \in 0 .. MaxEvents : n \in Nat /\ n <= MaxEvents BY <1>1
<1>3. TypeOK => \A e \in Kinds : table[e] \in 0 .. MaxEvents /\ floor[e] \in 0 .. MaxEvents BY DEF TypeOK
<1> QED BY <1>2, <1>3

LEMMA ReadIsOfViews == TypeOK => Read \subseteq Views
BY DEF TypeOK, Read, Routes, Views

Sources == Views \cup {"table"}

(* What was there when the client asked is there now. *)
LEMMA StoredLiesBetween ==
  ASSUME TypeOK, StoreInOrder, NEW source \in Sources, NEW e \in Kinds
  PROVE  /\ AtStart(source)[e] \in Nat /\ Stored(source)[e] \in Nat /\ table[e] \in Nat
         /\ AtStart(source)[e] <= Stored(source)[e] /\ Stored(source)[e] <= table[e]
<1>1. table[e] \in Nat /\ floor[e] \in Nat /\ floor[e] <= table[e]
  BY TableShape DEF StoreInOrder
<1>2. CASE source \in Views
  BY <1>1, <1>2 DEF StoreInOrder, AtStart, Stored
<1>3. CASE source = "table"
  <2>1. <<source, e>> \notin lag /\ <<source, e>> \notin due BY <1>3 DEF TypeOK, Views
  <2> QED BY <1>1, <2>1 DEF AtStart, Stored
<1> QED BY <1>2, <1>3 DEF Sources

LEMMA TableIsBounded ==
  ASSUME TypeOK, StoreInOrder
  PROVE  /\ IsFiniteSet(Kinds) /\ AreNumbers(table, Kinds)
         /\ SumFunctionOnSet(table, Kinds) \in Nat /\ SumFunctionOnSet(table, Kinds) <= MaxEvents
         /\ \A e \in Kinds : table[e] <= SumFunctionOnSet(table, Kinds)
<1>1. IsFiniteSet(Kinds) BY ReadsAssumption
<1>2. AreNumbers(table, Kinds) BY TableShape DEF AreNumbers
<1>3. SumFunctionOnSet(table, Kinds) \in Nat BY <1>1, <1>2, SumType
<1>4. SumFunctionOnSet(table, Kinds) <= MaxEvents BY TotalIsSum DEF StoreInOrder
<1>5. ASSUME NEW e \in Kinds PROVE table[e] <= SumFunctionOnSet(table, Kinds)
  <2>1. {e} \in SUBSET Kinds OBVIOUS
  <2>2. SumFunctionOnSet(table, {e}) <= SumFunctionOnSet(table, Kinds) BY <1>1, <1>2, <2>1, SumAtLeast
  <2>3. SumFunctionOnSet(table, {e}) = table[e] BY <1>2, SumOfOne DEF AreNumbers
  <2> QED BY <2>2, <2>3
<1> QED BY <1>1, <1>2, <1>3, <1>4, <1>5

(* All the rows of a view together count no more than the table holds. *)
LEMMA ViewsAreBounded ==
  ASSUME TypeOK, StoreInOrder, ViewsComplete, NEW v \in Read
  PROVE  SumFunctionOnSet(Weight(parts[v]), Rows(v)) <= MaxEvents
<1>1. v \in Views BY ReadIsOfViews
<1>2. Keys(v) \in SUBSET Keys(v) OBVIOUS
<1>3. SumFunctionOnSet(Weight(parts[v]), {row \in Rows(v) : row.key \in Keys(v)})
        = SumFunctionOnSet(Stored(v), CountedUnder(v, Keys(v)))
  BY <1>2 DEF ViewsComplete
<1>4. {row \in Rows(v) : row.key \in Keys(v)} = Rows(v) BY RowShape
<1>5. SumFunctionOnSet(Stored(v), CountedUnder(v, Keys(v))) <= SumFunctionOnSet(table, Kinds)
  <2>1. CountedUnder(v, Keys(v)) \in SUBSET Kinds BY DEF CountedUnder
  <2>2. \A e \in Kinds : Stored(v)[e] \in Nat /\ Stored(v)[e] <= table[e]
    BY <1>1, StoredLiesBetween DEF Sources
  <2>3. AreNumbers(Stored(v), CountedUnder(v, Keys(v))) /\ \A e \in CountedUnder(v, Keys(v)) : Stored(v)[e] <= table[e]
    BY <2>1, <2>2 DEF AreNumbers
  <2> QED BY <2>1, <2>3, TableIsBounded, SumMonotone
<1>6. SumFunctionOnSet(Stored(v), CountedUnder(v, Keys(v))) <= MaxEvents /\ MaxEvents \in Nat
  <2>1. SumFunctionOnSet(Stored(v), CountedUnder(v, Keys(v))) \in Nat
    <3>1. CountedUnder(v, Keys(v)) \in SUBSET Kinds BY DEF CountedUnder
    <3>2. AreNumbers(Stored(v), CountedUnder(v, Keys(v)))
      BY <1>1, <3>1, StoredLiesBetween DEF Sources, AreNumbers
    <3> QED BY <3>1, <3>2, TableIsBounded, FS_Subset, SumType
  <2> QED BY <1>5, <2>1, TableIsBounded, ReadsAssumption
<1> QED BY <1>3, <1>4, <1>6
-----------------------------------------------------------------------------
(* A sound result stays sound while events are inserted and time passes.   *)

LEMMA ConstantShape ==
  /\ HourTicks \in Nat \ {0} /\ DayHours \in Nat \ {0} /\ WeekDays \in Nat \ {0}
  /\ Window \in Nat /\ TrendsDays \in Nat /\ MaxEvents \in Nat /\ MaxTime \in Nat
  /\ MinTime \in Nat /\ MinTime <= MaxTime /\ MinTime .. MaxTime \subseteq Nat
  /\ \A e \in Kinds : e.at \in Nat /\ e.at <= MaxTime
<1>1. MaxTime \in Nat /\ MinTime \in 0 .. MaxTime BY ReadsAssumption
<1>2. \A e \in Kinds : e.at \in 0 .. MaxTime BY ReadsAssumption
<1> QED BY <1>1, <1>2, ReadsAssumption

LEMMA TimeShape ==
  TypeOK => now \in Nat /\ now <= MaxTime /\ startedAt \in Nat /\ startedAt <= now
<1> SUFFICES ASSUME TypeOK PROVE now \in Nat /\ now <= MaxTime /\ startedAt \in Nat /\ startedAt <= now OBVIOUS
<1>1. now \in MinTime .. MaxTime /\ startedAt \in MinTime .. now BY DEF TypeOK
<1>2. MinTime \in Nat /\ MaxTime \in Nat BY ConstantShape
<1> QED BY <1>1, <1>2

LEMMA LengthShape == \A q : Length(q) \in Nat
<1>1. TrendsDays * DayHours * HourTicks \in Nat BY ConstantShape
<1> QED BY <1>1, ConstantShape DEF Length

LEMMA SourceOf == \A q : Source(q) \in Sources
BY DEF Source, Sources, Views

LEMMA CountsStay ==
  ASSUME TypeOK, StoreInOrder,
         \A e \in Kinds : table'[e] \in Nat /\ table[e] <= table'[e],
         now' \in Int, now <= now',
         UNCHANGED <<repoId, floor, lag, startedAt>>,
         NEW q, NEW rows, IsBetween(q, rows)
  PROVE  IsBetween(q, rows)'
<1> SUFFICES ASSUME NEW key \in KeysOf(q)
             PROVE  CountIn(rows, key) \in SumFunctionOnSet(AtStart(Source(q))', MustCount(q, key)')
                                             .. SumFunctionOnSet(table', MayCount(q, key)')
  BY DEF IsBetween
<1> DEFINE min == SumFunctionOnSet(AtStart(Source(q)), MustCount(q, key))
           max == SumFunctionOnSet(table, MayCount(q, key))
           count == CountIn(rows, key)
<1>1. count \in min .. max BY DEF IsBetween
<1>2. AtStart(Source(q))' = AtStart(Source(q)) BY DEF AtStart
<1>3. MayCount(q, key)' = MayCount(q, key) BY DEF MayCount, IsOf, Border
<1>4. MustCount(q, key)' \subseteq MustCount(q, key)
  <2>1. Length(q) \in Nat /\ now \in Nat BY LengthShape, TimeShape
  <2>2. \A e \in Kinds : e.at >= now' - Length(q) => e.at >= now - Length(q) BY <2>1, ConstantShape
  <2>3. \A e \in Kinds : IsOf(q, key, e)' <=> IsOf(q, key, e) BY DEF IsOf
  <2>4. Length(q)' = Length(q) BY DEF Length
  <2> QED BY <2>2, <2>3, <2>4 DEF MustCount
<1>5. IsFiniteSet(MustCount(q, key)) /\ IsFiniteSet(MayCount(q, key))
  BY ReadsAssumption, FS_Subset DEF MustCount, MayCount
<1>6. AreNumbers(AtStart(Source(q)), MustCount(q, key))
  BY StoredLiesBetween, SourceOf DEF AreNumbers, MustCount
<1>7. AreNumbers(table, MayCount(q, key)) /\ AreNumbers(table', MayCount(q, key))
  BY TableShape DEF AreNumbers, MayCount
<1>8. min \in Nat /\ max \in Nat BY <1>5, <1>6, <1>7, SumType
<1>9. SumFunctionOnSet(AtStart(Source(q)), MustCount(q, key)') <= min BY <1>4, <1>5, <1>6, SumAtLeast
<1>10. max <= SumFunctionOnSet(table', MayCount(q, key))
  <2>1. \A e \in MayCount(q, key) : table[e] <= table'[e] BY DEF MayCount
  <2>2. MayCount(q, key) \in SUBSET MayCount(q, key) OBVIOUS
  <2> QED BY <1>5, <1>7, <2>1, <2>2, SumMonotone
<1>11. SumFunctionOnSet(table', MayCount(q, key)) \in Nat BY <1>5, <1>7, SumType
<1>12. SumFunctionOnSet(AtStart(Source(q)), MustCount(q, key)') \in Nat
  <2>1. IsFiniteSet(MustCount(q, key)') BY <1>4, <1>5, FS_Subset
  <2>2. AreNumbers(AtStart(Source(q)), MustCount(q, key)') BY <1>4, <1>6 DEF AreNumbers
  <2> QED BY <2>1, <2>2, SumType
<1> HIDE DEF min, max, count
<1>13. count \in SumFunctionOnSet(AtStart(Source(q)), MustCount(q, key)')
                   .. SumFunctionOnSet(table', MayCount(q, key))
  BY <1>1, <1>8, <1>9, <1>10, <1>11, <1>12
<1> QED BY <1>2, <1>3, <1>13 DEF count

(* Every step but that of resolving a name, asking and answering.          *)
LEMMA ResultsStay ==
  ASSUME ReadsInv, table' \in [Kinds -> 0 .. MaxEvents],
         \A e \in Kinds : table[e] <= table'[e],
         now' \in Int, now <= now',
         UNCHANGED <<repoId, floor, lag, startedAt, route, pc, answer, held>>
  PROVE  /\ \A q, rows : IsSound(q, rows) => IsSound(q, rows)'
         /\ HeldIsBetween'
         /\ WindowNeverShort'
<1>1. TypeOK /\ StoreInOrder BY DEF ReadsInv
<1>2. \A e \in Kinds : table'[e] \in Nat /\ table[e] <= table'[e] BY ConstantShape
<1>3. ASSUME NEW q, NEW rows, IsBetween(q, rows) PROVE IsBetween(q, rows)'
  BY <1>1, <1>2, <1>3, CountsStay
<1>4. \A q, rows : IsSound(q, rows) => IsSound(q, rows)' BY <1>3 DEF IsSound, OneRowPerKey
<1>5. Confirmed' = Confirmed /\ QueriesOf(route)' = QueriesOf(route) BY DEF Confirmed, QueriesOf
<1>6. HeldIsBetween'
  <2> SUFFICES ASSUME Confirmed
               PROVE /\ DOMAIN held \ {"generatedAt"} = QueriesOf(route)
                     /\ \A q \in QueriesOf(route) \ Windowed : IsBetween(q, held[q])'
                     /\ \A q \in QueriesOf(route) \cap {"days", "cells"} : OneRowPerKey(held[q])
    <3>1. Total(floor, LAMBDA e : e.name = CardName)' = Total(floor, LAMBDA e : e.name = CardName)
      BY DEF Total
    <3> QED BY <1>5, <3>1 DEF HeldIsBetween, OneRowPerKey, ReadsInv
  <2> QED BY <1>3 DEF ReadsInv, HeldIsBetween
<1>7. WindowNeverShort'
  <2> SUFFICES ASSUME Confirmed
               PROVE \A q \in QueriesOf(route) \cap Windowed : IsBetween(q, held[q])'
    BY <1>5 DEF WindowNeverShort
  <2> QED BY <1>3 DEF ReadsInv, WindowNeverShort
<1> QED BY <1>4, <1>6, <1>7
-----------------------------------------------------------------------------
(* The steps of the store. *)

LEMMA InsertRowKeeps ==
  ASSUME ReadsInv, NEW e \in Kinds, InsertRow(e)
  PROVE  ReadsInv'
<1>1. TypeOK /\ StoreInOrder /\ ViewsComplete BY DEF ReadsInv
<1>2. UNCHANGED <<now, parts, route, pc, todo, body, repoId, floor, lag, startedAt, held, answer>>
  BY DEF InsertRow, request
<1>3. /\ table' = [table EXCEPT ![e] = @ + 1]
      /\ due' = due \cup {<<v, e>> : v \in {u \in Read : Counts(u, e)}}
      /\ \A v \in Views : <<v, e>> \notin due
  BY DEF InsertRow
<1>4. /\ DOMAIN table = Kinds /\ \A k \in Kinds : table[k] \in Nat
      /\ table'[e] = table[e] + 1 /\ \A k \in Kinds \ {e} : table'[k] = table[k]
  BY <1>1, <1>3, TableShape DEF TypeOK
<1>5. \A k \in Kinds : table'[k] \in Nat /\ table[k] <= table'[k] BY <1>4
<1>6. SumFunctionOnSet(table', Kinds) = SumFunctionOnSet(table, Kinds) + 1
  <2>1. AreNumbers(table, Kinds) /\ AreNumbers(table', Kinds) BY <1>4, <1>5 DEF AreNumbers
  <2>2. \A k \in Kinds \ {e} : table[k] = table'[k] BY <1>4
  <2>3. SumFunctionOnSet(table', Kinds) + table[e] = SumFunctionOnSet(table, Kinds) + table'[e]
    BY <1>1, <2>1, <2>2, TableIsBounded, SumExcept
  <2>4. SumFunctionOnSet(table', Kinds) \in Nat BY <1>1, <2>1, TableIsBounded, SumType
  <2> QED BY <1>1, <1>4, <2>3, <2>4, TableIsBounded
<1>7. SumFunctionOnSet(table, Kinds) < MaxEvents BY TotalIsSum DEF InsertRow
<1>8. table' \in [Kinds -> 0 .. MaxEvents]
  <2>1. table[e] + 1 <= MaxEvents BY <1>1, <1>4, <1>7, TableIsBounded, ConstantShape
  <2>2. table[e] + 1 \in 0 .. MaxEvents BY <1>4, <2>1, ConstantShape
  <2> QED BY <1>1, <1>3, <2>2 DEF TypeOK
<1>9. TypeOK'
  <2>1. Read \subseteq Views BY <1>1, ReadIsOfViews
  <2>2. {<<v, e>> : v \in {u \in Read : Counts(u, e)}} \subseteq Views \X Kinds BY <2>1
  <2>3. due \subseteq Views \X Kinds BY <1>1 DEF TypeOK
  <2>4. due' \subseteq Views \X Kinds
    <3> HIDE DEF Views
    <3> QED BY <1>3, <2>2, <2>3
  <2> QED BY <1>1, <1>2, <1>8, <2>4 DEF TypeOK, Present, QueriesOf
<1>10. ASSUME NEW v \in Views, NEW k \in Kinds
       PROVE  /\ Stored(v)[k] <= Stored(v)'[k]
              /\ v \in Read /\ Counts(v, k) => Stored(v)'[k] = Stored(v)[k]
  <2>1. Stored(v)[k] = IF <<v, k>> \in due THEN table[k] - 1 ELSE table[k] BY DEF Stored
  <2>2. Stored(v)'[k] = IF <<v, k>> \in due' THEN table'[k] - 1 ELSE table'[k] BY DEF Stored
  <2>3. CASE k # e
    <3>1. <<v, k>> \in due' <=> <<v, k>> \in due BY <1>3, <2>3
    <3> QED BY <2>1, <2>2, <2>3, <3>1, <1>4
  <2>4. CASE k = e
    <3>1. <<v, k>> \in due' <=> v \in Read /\ Counts(v, k) BY <1>3, <2>4
    <3> QED BY <2>1, <2>2, <2>4, <3>1, <1>3, <1>4
  <2> QED BY <2>3, <2>4
<1>11. Read' = Read BY <1>2 DEF Read
<1>12. ViewsComplete'
  <2> SUFFICES ASSUME NEW v \in Read, NEW keys \in SUBSET Keys(v)
               PROVE  SumFunctionOnSet(Stored(v)', CountedUnder(v, keys)) = SumFunctionOnSet(Stored(v), CountedUnder(v, keys))
    BY <1>1, <1>2, <1>11 DEF ViewsComplete, Present
  <2>1. v \in Views BY <1>1, ReadIsOfViews
  <2>2. \A k \in CountedUnder(v, keys) : Stored(v)[k] \in Nat /\ Stored(v)[k] = Stored(v)'[k]
    BY <1>1, <1>10, <2>1, StoredLiesBetween DEF CountedUnder, Sources
  <2>3. IsFiniteSet(CountedUnder(v, keys)) BY ReadsAssumption, FS_Subset DEF CountedUnder
  <2> QED BY <2>2, <2>3, SumEqual DEF AreNumbers
<1>13. StoreInOrder'
  <2>1. Total(table, LAMBDA k : TRUE)' <= MaxEvents
    BY <1>1, <1>6, <1>7, TotalIsSum, TableIsBounded, ConstantShape
  <2>2. ASSUME NEW v \in Views, NEW k \in Kinds
        PROVE  /\ <<v, k>> \in due' => v \in Read' /\ Counts(v, k) /\ table'[k] > 0
               /\ <<v, k>> \in lag' => floor'[k] > 0
               /\ AtStart(v)'[k] <= Stored(v)'[k]
    <3>1. <<v, k>> \in due' => v \in Read' /\ Counts(v, k) /\ table'[k] > 0
      BY <1>1, <1>3, <1>4, <1>5, <1>11 DEF StoreInOrder
    <3>2. <<v, k>> \in lag' => floor'[k] > 0 BY <1>1, <1>2 DEF StoreInOrder
    <3>3. AtStart(v)' = AtStart(v) BY <1>2 DEF AtStart
    <3>4. AtStart(v)[k] \in Nat /\ Stored(v)[k] \in Nat /\ AtStart(v)[k] <= Stored(v)[k]
      BY <1>1, StoredLiesBetween DEF Sources
    <3>5. Stored(v)'[k] \in Int BY <1>5 DEF Stored
    <3>6. AtStart(v)'[k] <= Stored(v)'[k] BY <1>10, <3>3, <3>4, <3>5
    <3> QED BY <3>1, <3>2, <3>6
  <2>3. \A k \in Kinds : floor'[k] <= table'[k] BY <1>1, <1>2, <1>5, TableShape DEF StoreInOrder
  <2> QED BY <2>1, <2>2, <2>3 DEF StoreInOrder
<1>14. RequestInOrder' BY <1>2 DEF ReadsInv, RequestInOrder, QueriesOf
<1>15. now' \in Int /\ now <= now' BY <1>1, <1>2, TimeShape
<1>16. /\ \A q, rows : IsSound(q, rows) => IsSound(q, rows)'
       /\ HeldIsBetween' /\ WindowNeverShort'
  BY <1>2, <1>5, <1>8, <1>15, ResultsStay
<1>17. \A q \in DOMAIN body : IsSound(q, body[q])' BY <1>2, <1>16 DEF ReadsInv
<1> QED BY <1>2, <1>9, <1>12, <1>13, <1>14, <1>16, <1>17 DEF ReadsInv

(* The trigger of a view and the merge touch only what the view counts.    *)
LEMMA PartsChange ==
  ASSUME ReadsInv, NEW v \in Read, NEW rows \in [Rows(v) -> Nat],
         parts' = [parts EXCEPT ![v] = rows],
         due' \subseteq due,
         UNCHANGED <<now, table, request>>,
         \A u \in Views \ {v}, e \in Kinds : <<u, e>> \in due' <=> <<u, e>> \in due,
         \A keys \in SUBSET Keys(v) :
           SumFunctionOnSet(Weight(rows), {row \in Rows(v) : row.key \in keys})
             = SumFunctionOnSet(Stored(v)', CountedUnder(v, keys))
  PROVE  ReadsInv'
<1>1. TypeOK /\ StoreInOrder /\ ViewsComplete /\ v \in Views BY ReadIsOfViews DEF ReadsInv
<1>2. UNCHANGED <<now, table, route, pc, todo, body, repoId, floor, lag, startedAt, held, answer>>
  BY DEF request
<1>3. DOMAIN parts = Views /\ \A u \in Views : parts[u] \in [Rows(u) -> Nat] BY <1>1 DEF TypeOK
<1>4. DOMAIN parts' = Views /\ parts'[v] = rows /\ \A u \in Views \ {v} : parts'[u] = parts[u]
  BY <1>1, <1>3
<1>5. TypeOK'
  <2>1. \A u \in Views : parts'[u] \in [Rows(u) -> Nat] BY <1>3, <1>4
  <2>2. \A u \in Views : u = "languages" => \A row \in Present(u)' : row.key[1] # ""
    BY LanguageIsKnown DEF Present
  <2>3. due' \subseteq Views \X Kinds BY <1>1 DEF TypeOK
  <2>4. QueriesOf(route)' = QueriesOf(route) BY <1>2 DEF QueriesOf
  <2> QED BY <1>1, <1>2, <1>4, <2>1, <2>2, <2>3, <2>4 DEF TypeOK
<1>6. Read' = Read BY <1>2 DEF Read
<1>7. \A u \in Views \ {v} : Stored(u)' = Stored(u) BY <1>2 DEF Stored
<1>8. ViewsComplete'
  <2>1. ASSUME NEW u \in Read, NEW keys \in SUBSET Keys(u)
        PROVE  SumFunctionOnSet(Weight(parts'[u]), {row \in Rows(u) : row.key \in keys})
                 = SumFunctionOnSet(Stored(u)', CountedUnder(u, keys))
    <3>1. u \in Views BY <1>1, ReadIsOfViews
    <3>2. CASE u = v BY <1>4, <3>2
    <3>3. CASE u # v
      <4>1. Stored(u)' = Stored(u) /\ parts'[u] = parts[u] BY <1>4, <1>7, <3>1, <3>3
      <4> QED BY <1>1, <4>1 DEF ViewsComplete
    <3> QED BY <3>2, <3>3
  <2>2. \A u \in Views \ Read : Present(u)' = {} BY <1>1, <1>4 DEF ViewsComplete, Present
  <2> QED BY <1>6, <2>1, <2>2 DEF ViewsComplete
<1>9. StoreInOrder'
  <2>1. Total(table, LAMBDA k : TRUE)' <= MaxEvents BY <1>1, <1>2, TotalIsSum DEF StoreInOrder
  <2>2. ASSUME NEW u \in Views, NEW e \in Kinds
        PROVE  /\ <<u, e>> \in due' => u \in Read' /\ Counts(u, e) /\ table'[e] > 0
               /\ <<u, e>> \in lag' => floor'[e] > 0
               /\ AtStart(u)'[e] <= Stored(u)'[e]
    <3>1. <<u, e>> \in due' => u \in Read' /\ Counts(u, e) /\ table'[e] > 0
      BY <1>1, <1>2, <1>6 DEF StoreInOrder
    <3>2. <<u, e>> \in lag' => floor'[e] > 0 BY <1>1, <1>2 DEF StoreInOrder
    <3>3. AtStart(u)' = AtStart(u) BY <1>2 DEF AtStart
    <3>4. AtStart(u)[e] \in Nat /\ Stored(u)[e] \in Nat /\ AtStart(u)[e] <= Stored(u)[e]
      BY <1>1, StoredLiesBetween DEF Sources
    <3>5. table[e] \in Nat BY <1>1, TableShape
    <3>6. Stored(u)[e] = IF <<u, e>> \in due THEN table[e] - 1 ELSE table[e] BY DEF Stored
    <3>7. Stored(u)'[e] = IF <<u, e>> \in due' THEN table[e] - 1 ELSE table[e] BY <1>2 DEF Stored
    <3>8. AtStart(u)'[e] <= Stored(u)'[e] BY <3>3, <3>4, <3>5, <3>6, <3>7
    <3> QED BY <3>1, <3>2, <3>8
  <2>3. \A e \in Kinds : floor'[e] <= table'[e] BY <1>1, <1>2 DEF StoreInOrder
  <2> QED BY <2>1, <2>2, <2>3 DEF StoreInOrder
<1>10. RequestInOrder' BY <1>2 DEF ReadsInv, RequestInOrder, QueriesOf
<1>11. /\ now' \in Int /\ now <= now' /\ table' \in [Kinds -> 0 .. MaxEvents]
       /\ \A e \in Kinds : table[e] <= table'[e]
  <2>1. now' \in Int /\ now <= now' BY <1>1, <1>2, TimeShape
  <2>2. table' \in [Kinds -> 0 .. MaxEvents] BY <1>1, <1>2 DEF TypeOK
  <2>3. \A e \in Kinds : table[e] <= table'[e] BY <1>1, <1>2, TableShape
  <2> QED BY <2>1, <2>2, <2>3
<1>12. /\ \A q, w : IsSound(q, w) => IsSound(q, w)'
       /\ HeldIsBetween' /\ WindowNeverShort'
  BY <1>2, <1>11, ResultsStay
<1>13. \A q \in DOMAIN body : IsSound(q, body[q])' BY <1>2, <1>12 DEF ReadsInv
<1> QED BY <1>2, <1>5, <1>8, <1>9, <1>10, <1>12, <1>13 DEF ReadsInv

LEMMA TriggerKeeps ==
  ASSUME ReadsInv, NEW e \in Kinds, NEW v \in Views, Trigger(v, e)
  PROVE  ReadsInv'
<1>1. TypeOK /\ StoreInOrder /\ ViewsComplete BY DEF ReadsInv
<1>2. <<v, e>> \in due /\ v \in Read /\ Counts(v, e) /\ table[e] \in Nat /\ table[e] > 0
  BY <1>1, TableShape DEF Trigger, StoreInOrder
<1> DEFINE row == Row(Key(v, e), 1)
           rows == Plus(parts[v], row)
<1>3. row \in Rows(v)
  <2>1. MaxEvents \in Nat /\ table[e] <= MaxEvents BY <1>1, ConstantShape, TableShape
  <2>2. 1 \in 1 .. MaxEvents BY <1>2, <2>1
  <2>3. Key(v, e) \in Keys(v) BY <1>2 DEF Keys
  <2> QED BY <2>2, <2>3 DEF Row, Rows
<1>4. parts[v] \in [Rows(v) -> Nat] BY <1>1 DEF TypeOK
<1>5. rows \in [Rows(v) -> Nat]
  <2>1. {} \in SUBSET Rows(v) OBVIOUS
  <2> HIDE DEF row
  <2> QED BY <1>3, <1>4, <2>1, WeightOfPlus
<1>6. ASSUME NEW keys \in SUBSET Keys(v)
      PROVE  SumFunctionOnSet(Weight(rows), {r \in Rows(v) : r.key \in keys})
               = SumFunctionOnSet(Stored(v)', CountedUnder(v, keys))
  <2> DEFINE S == {r \in Rows(v) : r.key \in keys}
             E == CountedUnder(v, keys)
  <2>1. SumFunctionOnSet(Weight(parts[v]), S) = SumFunctionOnSet(Stored(v), E)
    BY <1>1, <1>2 DEF ViewsComplete
  <2>2. SumFunctionOnSet(Weight(rows), S) = SumFunctionOnSet(Weight(parts[v]), S) + IF row \in S THEN row.n ELSE 0
    <3>1. S \in SUBSET Rows(v) OBVIOUS
    <3> HIDE DEF S, row
    <3> QED BY <1>3, <1>4, <3>1, WeightOfPlus
  <2>3. row.n = 1 /\ row.key = Key(v, e) BY DEF Row
  <2>4. row \in S <=> e \in E BY <1>2, <1>3, <2>3 DEF CountedUnder
  <2>5. IsFiniteSet(E) /\ \A k \in E : k \in Kinds BY ReadsAssumption, FS_Subset DEF CountedUnder
  <2>6. \A k \in Kinds : Stored(v)[k] = IF <<v, k>> \in due THEN table[k] - 1 ELSE table[k] BY DEF Stored
  <2>7. \A k \in Kinds : Stored(v)'[k] = IF <<v, k>> \in due \ {<<v, e>>} THEN table[k] - 1 ELSE table[k]
    BY DEF Stored, Trigger
  <2>8. \A k \in Kinds \ {e} : Stored(v)[k] = Stored(v)'[k] BY <2>6, <2>7
  <2>9. Stored(v)'[e] = Stored(v)[e] + 1 /\ Stored(v)'[e] \in Nat /\ Stored(v)[e] \in Nat
    <3>1. Stored(v)[e] = table[e] - 1 BY <1>2, <2>6
    <3>2. Stored(v)'[e] = table[e] BY <2>7
    <3> QED BY <1>2, <3>1, <3>2
  <2>10. \A k \in Kinds : Stored(v)[k] \in Nat BY <1>1, StoredLiesBetween DEF Sources
  <2>11. AreNumbers(Stored(v), E) /\ AreNumbers(Stored(v)', E) BY <2>5, <2>8, <2>9, <2>10 DEF AreNumbers
  <2>12. SumFunctionOnSet(Stored(v), E) \in Nat /\ SumFunctionOnSet(Stored(v)', E) \in Nat
    BY <2>5, <2>11, SumType
  <2> HIDE DEF S, E, row, rows
  <2>13. CASE e \in E
    <3>1. \A k \in E \ {e} : Stored(v)[k] = Stored(v)'[k] BY <2>5, <2>8
    <3>2. SumFunctionOnSet(Stored(v)', E) + Stored(v)[e] = SumFunctionOnSet(Stored(v), E) + Stored(v)'[e]
      BY <2>5, <2>11, <2>13, <3>1, SumExcept
    <3> QED BY <2>1, <2>2, <2>3, <2>4, <2>9, <2>12, <2>13, <3>2 DEF S, E
  <2>14. CASE e \notin E
    <3>1. \A k \in E : Stored(v)[k] = Stored(v)'[k] BY <2>5, <2>8, <2>14
    <3>2. SumFunctionOnSet(Stored(v), E) = SumFunctionOnSet(Stored(v)', E) BY <2>5, <2>11, <3>1, SumEqual
    <3> QED BY <2>1, <2>2, <2>4, <2>12, <2>14, <3>2 DEF S, E
  <2> QED BY <2>13, <2>14
<1>7. parts' = [parts EXCEPT ![v] = rows] BY DEF Trigger
<1>8. due' = due \ {<<v, e>>} /\ UNCHANGED <<now, table, request>> BY DEF Trigger
<1>9. due' \subseteq due /\ \A u \in Views \ {v}, k \in Kinds : <<u, k>> \in due' <=> <<u, k>> \in due
  BY <1>8
<1> HIDE DEF rows
<1> QED BY <1>2, <1>5, <1>6, <1>7, <1>8, <1>9, PartsChange

LEMMA MergeKeeps ==
  ASSUME ReadsInv, NEW v \in Views, Merge(v)
  PROVE  ReadsInv'
<1>1. TypeOK /\ StoreInOrder /\ ViewsComplete BY DEF ReadsInv
<1>2. PICK a \in Rows(v), b \in Rows(v) :
        /\ a.key = b.key
        /\ parts[v][a] > 0 /\ parts[v][b] > (IF a = b THEN 1 ELSE 0)
        /\ parts' = [parts EXCEPT ![v] = Plus(Minus(Minus(@, a), b), Row(a.key, a.n + b.n))]
  BY DEF Merge
<1> DEFINE one == parts[v]
           two == Minus(one, a)
           three == Minus(two, b)
           c == Row(a.key, a.n + b.n)
           four == Plus(three, c)
           W(rows, S) == SumFunctionOnSet(Weight(rows), S)
<1>3. v \in Read BY <1>1, <1>2 DEF ViewsComplete, Present
<1>4. one \in [Rows(v) -> Nat] BY <1>1 DEF TypeOK
<1>5. /\ two \in [Rows(v) -> Nat]
      /\ \A S \in SUBSET Rows(v) : W(one, S) = W(two, S) + IF a \in S THEN a.n ELSE 0
  <2>1. {} \in SUBSET Rows(v) /\ one[a] > 0 BY <1>2
  <2> HIDE DEF one
  <2> QED BY <1>4, <2>1, WeightOfMinus
<1>6. two[b] > 0
  <2>1. one[a] \in Nat /\ one[b] \in Nat /\ one[a] > 0 /\ one[b] > (IF a = b THEN 1 ELSE 0) BY <1>2, <1>4
  <2>2. two[b] = IF a = b THEN one[b] - 1 ELSE one[b] BY <1>4 DEF Minus
  <2> HIDE DEF one, two
  <2> QED BY <2>1, <2>2
<1>7. /\ three \in [Rows(v) -> Nat]
      /\ \A S \in SUBSET Rows(v) : W(two, S) = W(three, S) + IF b \in S THEN b.n ELSE 0
  <2>1. {} \in SUBSET Rows(v) OBVIOUS
  <2> HIDE DEF two
  <2> QED BY <1>5, <1>6, <2>1, WeightOfMinus
<1>8. a.n \in Nat /\ a.n > 0 /\ b.n \in Nat /\ b.n > 0 /\ a.key \in Keys(v) BY RowShape
<1>9. \A S \in SUBSET Rows(v) : W(three, S) \in Nat
  <2> SUFFICES ASSUME NEW S \in SUBSET Rows(v) PROVE W(three, S) \in Nat OBVIOUS
  <2> HIDE DEF three
  <2>1. IsFiniteSet(S) /\ AreNumbers(Weight(three), S)
    BY <1>7, RowsAreFinite, FS_Subset, WeightsAreNumbers
  <2> QED BY <2>1, SumType
<1>10. \A S \in SUBSET Rows(v) :
         W(one, S) = W(three, S) + (IF b \in S THEN b.n ELSE 0) + (IF a \in S THEN a.n ELSE 0)
  <2> HIDE DEF one, two, three, W
  <2> QED BY <1>5, <1>7
<1>11. c \in Rows(v)
  <2>1. Rows(v) \in SUBSET Rows(v) OBVIOUS
  <2>2. W(one, Rows(v)) <= MaxEvents BY <1>1, <1>3, ViewsAreBounded
  <2>3. a.n + b.n \in 1 .. MaxEvents
    <3>1. MaxEvents \in Nat BY ConstantShape
    <3> HIDE DEF one, three, W
    <3> QED BY <1>8, <1>9, <1>10, <2>1, <2>2, <3>1
  <2> QED BY <1>8, <2>3 DEF Row, Rows
<1>12. /\ four \in [Rows(v) -> Nat]
       /\ \A S \in SUBSET Rows(v) : W(four, S) = W(three, S) + IF c \in S THEN a.n + b.n ELSE 0
  <2>1. {} \in SUBSET Rows(v) /\ c.n = a.n + b.n BY DEF Row
  <2> HIDE DEF three, c
  <2> QED BY <1>7, <1>11, <2>1, WeightOfPlus
<1>13. due' = due /\ UNCHANGED <<now, table, request>> BY DEF Merge
<1>14. Stored(v)' = Stored(v) BY <1>13 DEF Stored
<1>15. ASSUME NEW keys \in SUBSET Keys(v)
       PROVE  W(four, {r \in Rows(v) : r.key \in keys}) = SumFunctionOnSet(Stored(v)', CountedUnder(v, keys))
  <2> DEFINE S == {r \in Rows(v) : r.key \in keys}
  <2>1. W(one, S) = SumFunctionOnSet(Stored(v), CountedUnder(v, keys)) BY <1>1, <1>3 DEF ViewsComplete
  <2>2. c.key = a.key BY DEF Row
  <2>3. S \in SUBSET Rows(v) /\ (a \in S <=> b \in S) /\ (c \in S <=> a \in S) BY <1>2, <1>11, <2>2
  <2>4. W(four, S) = W(one, S)
    <3> HIDE DEF one, three, four, c, S, W
    <3> QED BY <1>8, <1>9, <1>10, <1>12, <2>3
  <2> QED BY <1>14, <2>1, <2>4
<1>16. parts' = [parts EXCEPT ![v] = four] BY <1>2
<1> HIDE DEF four
<1> QED BY <1>3, <1>12, <1>13, <1>15, <1>16, PartsChange

LEMMA TickKeeps ==
  ASSUME ReadsInv, Tick
  PROVE  ReadsInv'
<1>1. TypeOK /\ StoreInOrder /\ ViewsComplete BY DEF ReadsInv
<1>2. /\ now < MaxTime /\ now' = now + 1
      /\ UNCHANGED <<table, due, parts, route, pc, todo, body, repoId, floor, lag, startedAt, held, answer>>
  BY DEF Tick, request
<1>3. TypeOK'
  <2>1. now' \in MinTime .. MaxTime /\ startedAt' \in MinTime .. now'
    <3>1. now \in MinTime .. MaxTime /\ startedAt \in MinTime .. now BY <1>1 DEF TypeOK
    <3>2. MinTime \in Nat /\ MaxTime \in Nat BY ConstantShape
    <3> QED BY <1>2, <3>1, <3>2
  <2> QED BY <1>1, <1>2, <2>1 DEF TypeOK, Present, QueriesOf
<1>4. ViewsComplete' BY <1>1, <1>2 DEF ViewsComplete, Read, Present, Stored
<1>5. StoreInOrder'
  <2>1. Total(table, LAMBDA k : TRUE)' <= MaxEvents BY <1>1, <1>2, TotalIsSum DEF StoreInOrder
  <2> QED BY <1>1, <1>2, <2>1 DEF StoreInOrder, Read, Stored, AtStart
<1>6. RequestInOrder' BY <1>2 DEF ReadsInv, RequestInOrder, QueriesOf
<1>7. now' \in Int /\ now <= now' BY <1>1, <1>2, TimeShape
<1>8. table' \in [Kinds -> 0 .. MaxEvents] BY <1>1, <1>2 DEF TypeOK
<1>9. \A e \in Kinds : table[e] <= table'[e] BY <1>1, <1>2, TableShape
<1>10. /\ \A q, w : IsSound(q, w) => IsSound(q, w)'
       /\ HeldIsBetween' /\ WindowNeverShort'
  BY <1>2, <1>7, <1>8, <1>9, ResultsStay
<1>11. \A q \in DOMAIN body : IsSound(q, body[q])' BY <1>2, <1>10 DEF ReadsInv
<1> QED BY <1>2, <1>3, <1>4, <1>5, <1>6, <1>10, <1>11 DEF ReadsInv

LEMMA ReadsStart == Init => ReadsInv
<1> SUFFICES ASSUME Init PROVE ReadsInv OBVIOUS
<1>1. \A e \in Kinds : table[e] = 0 /\ floor[e] = 0 BY DEF Init
<1>2. \A v \in Views : parts[v] = [row \in Rows(v) |-> 0] BY DEF Init
<1>3. TypeOK
  <2>1. now \in MinTime .. MaxTime /\ startedAt \in MinTime .. now
    <3>1. MinTime \in Nat /\ MaxTime \in Nat /\ MinTime <= MaxTime BY ConstantShape
    <3> QED BY <3>1 DEF Init
  <2>2. table \in [Kinds -> 0 .. MaxEvents] /\ floor \in [Kinds -> 0 .. MaxEvents]
    <3>1. 0 \in 0 .. MaxEvents BY ConstantShape
    <3> QED BY <3>1 DEF Init
  <2>3. \A v \in Views : /\ parts[v] \in [Rows(v) -> Nat]
                         /\ v = "languages" => \A row \in Present(v) : row.key[1] # ""
    <3>1. ASSUME NEW v \in Views PROVE parts[v] \in [Rows(v) -> Nat]
      <4>1. [row \in Rows(v) |-> 0] \in [Rows(v) -> Nat] OBVIOUS
      <4> QED BY <1>2, <4>1
    <3> QED BY <3>1, LanguageIsKnown DEF Present
  <2>4. DOMAIN body \subseteq QueriesOf(route) BY DEF Init, NoBody
  <2> QED BY <2>1, <2>2, <2>3, <2>4 DEF Init, TypeOK
<1>4. IsFiniteSet(Kinds) BY ReadsAssumption
<1>5. ViewsComplete
  <2>1. \A v \in Views : Present(v) = {}
    <3>1. \A v \in Views : \A row \in Rows(v) : parts[v][row] = 0 BY <1>2
    <3>2. \A v \in Views : \A row \in Rows(v) : ~ (parts[v][row] > 0) BY <3>1
    <3> QED BY <3>2 DEF Present
  <2>2. ASSUME NEW v \in Read, NEW keys \in SUBSET Keys(v)
        PROVE  SumFunctionOnSet(Weight(parts[v]), {row \in Rows(v) : row.key \in keys})
                 = SumFunctionOnSet(Stored(v), CountedUnder(v, keys))
    <3>1. v \in Views BY <1>3, ReadIsOfViews
    <3> DEFINE S == {row \in Rows(v) : row.key \in keys}
    <3>2. IsFiniteSet(S) BY <3>1, RowsAreFinite, FS_Subset
    <3>3. \A row \in Rows(v) : row.n * 0 = 0 BY RowShape
    <3>4. \A row \in S : Weight(parts[v])[row] = 0 BY <1>2, <3>1, <3>3 DEF Weight
    <3>5. SumFunctionOnSet(Weight(parts[v]), S) = 0
      <4> HIDE DEF S
      <4> QED BY <3>2, <3>4, SumOfZeros
    <3>6. IsFiniteSet(CountedUnder(v, keys)) BY <1>4, FS_Subset DEF CountedUnder
    <3>7. \A e \in CountedUnder(v, keys) : Stored(v)[e] = 0 BY <1>1 DEF CountedUnder, Stored, Init
    <3>8. SumFunctionOnSet(Stored(v), CountedUnder(v, keys)) = 0 BY <3>6, <3>7, SumOfZeros
    <3> QED BY <3>5, <3>8
  <2> QED BY <2>1, <2>2 DEF ViewsComplete
<1>6. StoreInOrder
  <2>1. Total(table, LAMBDA k : TRUE) = 0 BY <1>1, <1>4, TotalIsSum, SumOfZeros
  <2>2. Total(table, LAMBDA k : TRUE) <= MaxEvents BY <2>1, ConstantShape
  <2>3. \A v \in Views, e \in Kinds :
          /\ <<v, e>> \in due => v \in Read /\ Counts(v, e) /\ table[e] > 0
          /\ <<v, e>> \in lag => floor[e] > 0
          /\ AtStart(v)[e] <= Stored(v)[e]
    BY <1>1 DEF Init, AtStart, Stored
  <2> QED BY <1>1, <2>2, <2>3 DEF StoreInOrder
<1>7. RequestInOrder BY DEF Init, RequestInOrder, NoBody
<1>8. ~ Confirmed /\ answer # "404" /\ DOMAIN body = {} BY DEF Init, Confirmed, NoBody
<1> QED BY <1>3, <1>5, <1>6, <1>7, <1>8 DEF ReadsInv, HeldIsBetween, WindowNeverShort
-----------------------------------------------------------------------------
(* A query over what is stored: its numbers lie between the two bounds.    *)

LEMMA BoundsOfCount ==
  ASSUME ReadsInv, NEW q, NEW key, NEW E \in SUBSET Kinds,
         MustCount(q, key) \subseteq E, E \subseteq MayCount(q, key)
  PROVE  SumFunctionOnSet(Stored(Source(q)), E)
           \in SumFunctionOnSet(AtStart(Source(q)), MustCount(q, key)) .. SumFunctionOnSet(table, MayCount(q, key))
<1> DEFINE before == AtStart(Source(q))
           stored == Stored(Source(q))
           Must == MustCount(q, key)
           May == MayCount(q, key)
<1>1. TypeOK /\ StoreInOrder /\ Source(q) \in Sources BY SourceOf DEF ReadsInv
<1>2. \A e \in Kinds : /\ before[e] \in Nat /\ stored[e] \in Nat /\ table[e] \in Nat
                       /\ before[e] <= stored[e] /\ stored[e] <= table[e]
  BY <1>1, StoredLiesBetween
<1>3. May \subseteq Kinds BY DEF MayCount
<1>4. IsFiniteSet(May) /\ IsFiniteSet(E) /\ IsFiniteSet(Must)
  <2> HIDE DEF Must, May
  <2>1. IsFiniteSet(May) BY <1>3, ReadsAssumption, FS_Subset
  <2>2. IsFiniteSet(E) BY ReadsAssumption, FS_Subset
  <2>3. Must \in SUBSET E BY DEF Must
  <2> QED BY <2>1, <2>2, <2>3, FS_Subset
<1>5. Must \in SUBSET E /\ E \in SUBSET May OBVIOUS
<1> HIDE DEF before, stored, Must, May
<1>6. AreNumbers(before, Must) /\ AreNumbers(stored, E) /\ AreNumbers(table, May)
  BY <1>2, <1>3, <1>5 DEF AreNumbers
<1>7. \A e \in Must : before[e] <= stored[e] BY <1>2, <1>3, <1>5
<1>8. \A e \in E : stored[e] <= table[e] BY <1>2
<1>9. SumFunctionOnSet(before, Must) <= SumFunctionOnSet(stored, E)
  BY <1>4, <1>5, <1>6, <1>7, SumMonotone
<1>10. SumFunctionOnSet(stored, E) <= SumFunctionOnSet(table, May)
  BY <1>4, <1>5, <1>6, <1>8, SumMonotone
<1>11. /\ SumFunctionOnSet(before, Must) \in Nat /\ SumFunctionOnSet(stored, E) \in Nat
       /\ SumFunctionOnSet(table, May) \in Nat
  BY <1>4, <1>6, SumType
<1>12. SumFunctionOnSet(stored, E) \in SumFunctionOnSet(before, Must) .. SumFunctionOnSet(table, May)
  BY <1>9, <1>10, <1>11
<1> QED BY <1>12 DEF before, stored, Must, May

(* The table itself holds what is stored. *)
LEMMA TableIsStored ==
  ASSUME ReadsInv, NEW E \in SUBSET Kinds
  PROVE  SumFunctionOnSet(Stored("table"), E) = SumFunctionOnSet(table, E)
<1>1. TypeOK BY DEF ReadsInv
<1>2. \A e \in E : <<"table", e>> \notin due BY <1>1 DEF TypeOK, Views
<1>3. \A e \in E : table[e] \in Nat /\ table[e] = Stored("table")[e] BY <1>1, <1>2, TableShape DEF Stored
<1>4. IsFiniteSet(E) /\ AreNumbers(table, E) BY <1>3, ReadsAssumption, FS_Subset DEF AreNumbers
<1> QED BY <1>3, <1>4, SumEqual

(* What a result says of a key: its only row of that key, or nothing.      *)
LEMMA CountOfRow ==
  ASSUME NEW S, NEW key, NEW n \in Nat, Row(key, n) \in S,
         \A row \in S : row.key = key => row = Row(key, n)
  PROVE  CountIn(SetToBag(S), key) = n
<1> DEFINE f == [row \in BagToSet(SetToBag(S)) |-> row.n * SetToBag(S)[row]]
<1>1. BagToSet(SetToBag(S)) = S /\ \A row \in S : SetToBag(S)[row] = 1 BY DEF BagToSet, SetToBag
<1>2. {row \in BagToSet(SetToBag(S)) : row.key = key} = {Row(key, n)} BY <1>1 DEF Row
<1>3. f[Row(key, n)] = n
  <2>1. f[Row(key, n)] = Row(key, n).n * SetToBag(S)[Row(key, n)] BY <1>1
  <2>2. Row(key, n).n = n /\ SetToBag(S)[Row(key, n)] = 1 BY <1>1 DEF Row
  <2> HIDE DEF f
  <2> QED BY <2>1, <2>2
<1>4. CountIn(SetToBag(S), key) = SumFunctionOnSet(f, {Row(key, n)}) BY <1>2 DEF CountIn
<1> HIDE DEF f
<1> QED BY <1>3, <1>4, SumOfOne

LEMMA CountOfNoRow ==
  ASSUME NEW rows, NEW key, \A row \in DOMAIN rows : row.key # key
  PROVE  CountIn(rows, key) = 0
<1>1. {row \in BagToSet(rows) : row.key = key} = {} BY DEF BagToSet
<1> QED BY <1>1, SumOfNone DEF CountIn

(* One row for each group: GROUP BY. *)
GroupRows(groups, N) == {Row(g, N[g]) : g \in groups}

LEMMA CountOfGroup ==
  ASSUME NEW groups, NEW N
  PROVE  LET rows == SetToBag(GroupRows(groups, N))
         IN  /\ \A g \in groups : N[g] \in Nat => CountIn(rows, g) = N[g]
             /\ \A g : g \notin groups => CountIn(rows, g) = 0
             /\ OneRowPerKey(rows)
<1> DEFINE S == GroupRows(groups, N)
<1>1. \A row \in S : row.key \in groups /\ row = Row(row.key, N[row.key]) BY DEF Row, GroupRows
<1>2. DOMAIN SetToBag(S) = S /\ \A row \in S : SetToBag(S)[row] = 1 BY DEF SetToBag
<1>3. ASSUME NEW g \in groups, N[g] \in Nat PROVE CountIn(SetToBag(S), g) = N[g]
  <2>1. Row(g, N[g]) \in S BY DEF GroupRows
  <2>2. \A row \in S : row.key = g => row = Row(g, N[g]) BY <1>1
  <2> QED BY <1>3, <2>1, <2>2, CountOfRow
<1>4. ASSUME NEW g, g \notin groups PROVE CountIn(SetToBag(S), g) = 0
  <2>1. \A row \in DOMAIN SetToBag(S) : row.key # g BY <1>1, <1>2, <1>4
  <2> QED BY <2>1, CountOfNoRow
<1>5. OneRowPerKey(SetToBag(S))
  <2>1. BagToSet(SetToBag(S)) = S BY <1>2 DEF BagToSet
  <2>2. ASSUME NEW a \in S, NEW b \in S, a.key = b.key PROVE a = b
    <3>1. a = Row(a.key, N[a.key]) /\ b = Row(b.key, N[b.key]) BY <1>1
    <3> QED BY <2>2, <3>1
  <2> QED BY <1>2, <2>1, <2>2 DEF OneRowPerKey
<1> QED BY <1>3, <1>4, <1>5

LEMMA WeightOfAbsent ==
  ASSUME TypeOK, NEW v \in Views, NEW row \in Rows(v), row \notin Present(v)
  PROVE  Weight(parts[v])[row] = 0
<1>1. parts[v] \in [Rows(v) -> Nat] BY DEF TypeOK
<1>2. parts[v][row] \in Nat /\ ~ (parts[v][row] > 0) BY <1>1 DEF Present
<1>3. row.n * 0 = 0 BY RowShape
<1> QED BY <1>1, <1>2, <1>3 DEF Weight

(* What a view says of some of its keys. *)
SumUnder(v, keys) == SumFunctionOnSet(Weight(parts[v]), {row \in Rows(v) : row.key \in keys})

LEMMA CountOfView ==
  ASSUME ReadsInv, NEW v \in Read, NEW keys \in SUBSET Keys(v)
  PROVE  /\ SumUnder(v, keys) = SumFunctionOnSet(Stored(v), CountedUnder(v, keys))
         /\ SumUnder(v, keys) \in Nat
         /\ (\A row \in Present(v) : row.key \notin keys) => SumUnder(v, keys) = 0
<1> DEFINE S == {row \in Rows(v) : row.key \in keys}
<1>1. TypeOK /\ ViewsComplete BY DEF ReadsInv
<1>2. v \in Views BY <1>1, ReadIsOfViews
<1>3. parts[v] \in [Rows(v) -> Nat] BY <1>1, <1>2 DEF TypeOK
<1>4. S \in SUBSET Rows(v) /\ IsFiniteSet(S) BY <1>2, RowsAreFinite, FS_Subset
<1>5. SumFunctionOnSet(Weight(parts[v]), S) \in Nat BY <1>2, <1>3, <1>4, WeightsAreNumbers, SumType
<1>6. ASSUME \A row \in Present(v) : row.key \notin keys
      PROVE  SumFunctionOnSet(Weight(parts[v]), S) = 0
  <2>1. ASSUME NEW row \in S PROVE Weight(parts[v])[row] = 0
    <3>1. row \in Rows(v) /\ row \notin Present(v) BY <1>6
    <3> QED BY <1>1, <1>2, <3>1, WeightOfAbsent
  <2> QED BY <1>4, <2>1, SumOfZeros
<1>7. SumUnder(v, keys) = SumFunctionOnSet(Weight(parts[v]), S) BY DEF SumUnder
<1>8. SumFunctionOnSet(Weight(parts[v]), S) = SumFunctionOnSet(Stored(v), CountedUnder(v, keys))
  BY <1>1 DEF ViewsComplete
<1> QED BY <1>5, <1>6, <1>7, <1>8

(* Queries of a view: a row for each group, of the sum of some keys. *)
LEMMA GroupedIsSound ==
  ASSUME ReadsInv, NEW q, NEW v \in Read, Source(q) = v, NEW groups, NEW K, NEW N,
         \A g \in groups : N[g] = SumUnder(v, K[g]),
         \A g \in KeysOf(q) : /\ K[g] \in SUBSET Keys(v)
                              /\ MustCount(q, g) \subseteq CountedUnder(v, K[g])
                              /\ CountedUnder(v, K[g]) \subseteq MayCount(q, g)
                              /\ g \notin groups => \A row \in Present(v) : row.key \notin K[g]
  PROVE  IsSound(q, SetToBag(GroupRows(groups, N)))
<1> DEFINE S == GroupRows(groups, N)
<1>1. /\ \A g \in groups : N[g] \in Nat => CountIn(SetToBag(S), g) = N[g]
      /\ \A g : g \notin groups => CountIn(SetToBag(S), g) = 0
      /\ OneRowPerKey(SetToBag(S))
  BY CountOfGroup
<1>2. ASSUME NEW g \in KeysOf(q)
      PROVE  CountIn(SetToBag(S), g)
               \in SumFunctionOnSet(AtStart(v), MustCount(q, g)) .. SumFunctionOnSet(table, MayCount(q, g))
  <2>1. /\ K[g] \in SUBSET Keys(v)
        /\ MustCount(q, g) \subseteq CountedUnder(v, K[g]) /\ CountedUnder(v, K[g]) \subseteq MayCount(q, g)
        /\ g \notin groups => \A row \in Present(v) : row.key \notin K[g]
    BY <1>2
  <2>2. /\ SumUnder(v, K[g]) = SumFunctionOnSet(Stored(v), CountedUnder(v, K[g]))
        /\ SumUnder(v, K[g]) \in Nat
        /\ g \notin groups => SumUnder(v, K[g]) = 0
    BY <2>1, CountOfView
  <2>3. CountIn(SetToBag(S), g) = SumUnder(v, K[g])
    <3>1. CASE g \in groups
      <4>1. N[g] = SumUnder(v, K[g]) BY <3>1
      <4> QED BY <1>1, <2>2, <3>1, <4>1
    <3>2. CASE g \notin groups BY <1>1, <2>2, <3>2
    <3> QED BY <3>1, <3>2
  <2>4. CountedUnder(v, K[g]) \in SUBSET Kinds BY DEF CountedUnder
  <2>5. SumFunctionOnSet(Stored(v), CountedUnder(v, K[g]))
          \in SumFunctionOnSet(AtStart(v), MustCount(q, g)) .. SumFunctionOnSet(table, MayCount(q, g))
    BY <2>1, <2>4, BoundsOfCount
  <2> QED BY <2>2, <2>3, <2>5
<1> QED BY <1>1, <1>2 DEF IsSound, IsBetween

(* The events a view counts under a key. *)
LEMMA KeyShape ==
  ASSUME NEW e \in Kinds
  PROVE  /\ Counts("stars", e) <=> Star(e)
         /\ Key("stars", e)[1] = e.id /\ Key("stars", e)[2] = Hour(e.at)
         /\ Counts("languages", e) <=> e.language # ""
         /\ Key("languages", e) = <<e.language, Day(Hour(e.at))>>
         /\ Counts("activity", e) /\ Key("activity", e) = WeekdayAndHour(Hour(e.at))
BY DEF Counts, Key, Star

LEMMA DaysAreSound ==
  ASSUME ReadsInv, "stars" \in Read
  PROVE  IsSound("days", StarsByDay)
<1> DEFINE groups == {Day(row.key[2]) : row \in {r \in Present("stars") : r.key[1] = repoId}}
           keys(g) == {k \in Keys("stars") : k[1] = repoId /\ Day(k[2]) = g}
           K == [g \in groups \cup Days |-> keys(g)]
           R(g) == {row \in Rows("stars") : row.key[1] = repoId /\ Day(row.key[2]) = g}
           N == [g \in groups |-> SumFunctionOnSet(Weight(parts["stars"]), R(g))]
<1>1. Source("days") = "stars" /\ KeysOf("days") = Days BY DEF Source, KeysOf
<1>2. StarsByDay = SetToBag(GroupRows(groups, N))
  <2>1. GroupRows(groups, N) = {Row(g, SumFunctionOnSet(Weight(parts["stars"]), R(g))) : g \in groups}
    BY DEF GroupRows
  <2> QED BY <2>1 DEF StarsByDay, Grouped, Sum
<1>3. ASSUME NEW g \in groups
      PROVE  N[g] = SumUnder("stars", K[g])
  <2>1. {row \in Rows("stars") : row.key \in K[g]} = R(g) BY RowShape
  <2> QED BY <2>1 DEF SumUnder
<1>4. ASSUME NEW g \in Days
      PROVE  /\ K[g] \in SUBSET Keys("stars")
             /\ MustCount("days", g) \subseteq CountedUnder("stars", K[g])
             /\ CountedUnder("stars", K[g]) \subseteq MayCount("days", g)
             /\ g \notin groups => \A row \in Present("stars") : row.key \notin K[g]
  <2>1. K[g] = keys(g) OBVIOUS
  <2>2. \A e \in Kinds : Counts("stars", e) => Key("stars", e) \in Keys("stars") BY DEF Keys
  <2>3. CountedUnder("stars", keys(g)) = {e \in Kinds : Star(e) /\ e.id = repoId /\ Day(Hour(e.at)) = g}
    BY <2>2, KeyShape DEF CountedUnder
  <2>4. \A e \in Kinds : IsOf("days", g, e) <=> Star(e) /\ e.id = repoId /\ Day(Hour(e.at)) = g BY DEF IsOf
  <2>5. "days" \notin Windowed BY DEF Windowed
  <2> QED BY <2>1, <2>3, <2>4, <2>5 DEF MustCount, MayCount
<1> HIDE DEF groups, K, N
<1> QED BY <1>1, <1>2, <1>3, <1>4, GroupedIsSound

LEMMA TotalIsSound ==
  ASSUME ReadsInv, "stars" \in Read
  PROVE  IsSound("total", StarsTotal)
<1> DEFINE keys == {k \in Keys("stars") : k[1] = repoId}
           K == [g \in {0} |-> keys]
           R == {row \in Rows("stars") : row.key[1] = repoId}
           N == [g \in {0} |-> SumFunctionOnSet(Weight(parts["stars"]), R)]
<1>1. Source("total") = "stars" /\ KeysOf("total") = {0} BY DEF Source, KeysOf
<1>2. StarsTotal = SetToBag(GroupRows({0}, N))
  <2>1. GroupRows({0}, N) = {Row(0, SumFunctionOnSet(Weight(parts["stars"]), R))} BY DEF GroupRows
  <2> QED BY <2>1 DEF StarsTotal, Sum
<1>3. ASSUME NEW g \in {0}
      PROVE  N[g] = SumUnder("stars", K[g])
  <2>1. {row \in Rows("stars") : row.key \in K[g]} = R BY RowShape
  <2> QED BY <2>1 DEF SumUnder
<1>4. ASSUME NEW g \in {0}
      PROVE  /\ K[g] \in SUBSET Keys("stars")
             /\ MustCount("total", g) \subseteq CountedUnder("stars", K[g])
             /\ CountedUnder("stars", K[g]) \subseteq MayCount("total", g)
  <2>1. K[g] = keys OBVIOUS
  <2>2. \A e \in Kinds : Counts("stars", e) => Key("stars", e) \in Keys("stars") BY DEF Keys
  <2>3. CountedUnder("stars", keys) = {e \in Kinds : Star(e) /\ e.id = repoId}
    BY <2>2, KeyShape DEF CountedUnder
  <2>4. \A e \in Kinds : IsOf("total", g, e) <=> Star(e) /\ e.id = repoId BY DEF IsOf
  <2>5. "total" \notin Windowed BY DEF Windowed
  <2> QED BY <2>1, <2>3, <2>4, <2>5 DEF MustCount, MayCount
<1> HIDE DEF K, N
<1> QED BY <1>1, <1>2, <1>3, <1>4, GroupedIsSound

LEMMA CellsAreSound ==
  ASSUME ReadsInv, "activity" \in Read
  PROVE  IsSound("cells", Heatmap)
<1> DEFINE groups == {row.key : row \in Present("activity")}
           keys(g) == {k \in Keys("activity") : k = g}
           K == [g \in groups \cup KeysOf("cells") |-> keys(g)]
           R(g) == {row \in Rows("activity") : TRUE /\ row.key = g}
           N == [g \in groups |-> SumFunctionOnSet(Weight(parts["activity"]), R(g))]
<1>1. Source("cells") = "activity" BY DEF Source
<1>2. Heatmap = SetToBag(GroupRows(groups, N))
  <2>1. GroupRows(groups, N) = {Row(g, SumFunctionOnSet(Weight(parts["activity"]), R(g))) : g \in groups}
    BY DEF GroupRows
  <2>2. groups = {row.key : row \in {r \in Present("activity") : TRUE}} OBVIOUS
  <2> QED BY <2>1, <2>2 DEF Heatmap, Grouped, Sum
<1>3. ASSUME NEW g \in groups
      PROVE  N[g] = SumUnder("activity", K[g])
  <2>1. {row \in Rows("activity") : row.key \in K[g]} = R(g) BY RowShape
  <2> QED BY <2>1 DEF SumUnder
<1>4. ASSUME NEW g \in KeysOf("cells")
      PROVE  /\ K[g] \in SUBSET Keys("activity")
             /\ MustCount("cells", g) \subseteq CountedUnder("activity", K[g])
             /\ CountedUnder("activity", K[g]) \subseteq MayCount("cells", g)
             /\ g \notin groups => \A row \in Present("activity") : row.key \notin K[g]
  <2>1. K[g] = keys(g) OBVIOUS
  <2>2. \A e \in Kinds : Counts("activity", e) => Key("activity", e) \in Keys("activity") BY DEF Keys
  <2>3. CountedUnder("activity", keys(g)) = {e \in Kinds : WeekdayAndHour(Hour(e.at)) = g}
    BY <2>2, KeyShape DEF CountedUnder
  <2>4. \A e \in Kinds : IsOf("cells", g, e) <=> WeekdayAndHour(Hour(e.at)) = g BY DEF IsOf
  <2>5. "cells" \notin Windowed BY DEF Windowed
  <2> QED BY <2>1, <2>3, <2>4, <2>5 DEF MustCount, MayCount
<1> HIDE DEF groups, K, N
<1> QED BY <1>1, <1>2, <1>3, <1>4, GroupedIsSound

(* Hours and days begin before what falls into them.                       *)
LEMMA Division ==
  ASSUME NEW b \in Nat \ {0}, NEW s \in Int, NEW t \in Int
  PROVE  /\ s \div b \in Int /\ b * (s \div b) <= s
         /\ s <= t => s \div b <= t \div b
<1>1. s \div b \in Int /\ t \div b \in Int /\ s % b \in 0 .. (b - 1) /\ t % b \in 0 .. (b - 1) OBVIOUS
<1>2. s = b * (s \div b) + (s % b) /\ t = b * (t \div b) + (t % b) OBVIOUS
<1>3. \A p, q \in Int : p >= q + 1 => b * p >= b * q + b
  <2> SUFFICES ASSUME NEW p \in Int, NEW q \in Int, p >= q + 1 PROVE b * p >= b * q + b OBVIOUS
  <2>1. b * p = b * (q + 1) + b * (p - (q + 1)) OBVIOUS
  <2>2. p - (q + 1) \in Nat /\ b * (p - (q + 1)) \in Nat OBVIOUS
  <2>3. b * (q + 1) = b * q + b OBVIOUS
  <2> QED BY <2>1, <2>2, <2>3
<1>4. s <= t => s \div b <= t \div b
  <2> SUFFICES ASSUME s <= t, ~ (s \div b <= t \div b) PROVE FALSE OBVIOUS
  <2>1. s \div b >= t \div b + 1 BY <1>1
  <2>2. b * (s \div b) >= b * (t \div b) + b BY <1>1, <1>3, <2>1
  <2> QED BY <1>1, <1>2, <2>2
<1> QED BY <1>1, <1>2, <1>4

LEMMA HourBegins ==
  ASSUME NEW s \in Int, NEW t \in Int
  PROVE  /\ Hour(s) \in Int /\ HourTicks * Hour(s) <= s
         /\ s <= t => Hour(s) <= Hour(t)
BY ConstantShape, Division DEF Hour

LEMMA DayBegins ==
  ASSUME NEW h \in Int, NEW k \in Int
  PROVE  /\ Day(h) \in Int /\ DayHours * Day(h) <= h
         /\ h <= k => Day(h) <= Day(k)
BY ConstantShape, Division DEF Day

LEMMA TimesGrows == \A b \in Nat : \A s, t \in Int : s <= t => b * s <= b * t
<1> SUFFICES ASSUME NEW b \in Nat, NEW s \in Int, NEW t \in Int, s <= t PROVE b * s <= b * t OBVIOUS
<1>1. t - s \in Nat /\ b * (t - s) \in Nat OBVIOUS
<1>2. b * t = b * s + b * (t - s) OBVIOUS
<1> QED BY <1>1, <1>2

LEMMA TopIsSound ==
  ASSUME ReadsInv, "stars" \in Read
  PROVE  IsSound("top", Trending)
<1> DEFINE groups == {row.key[1] : row \in {r \in Present("stars") : r.key[2] >= FirstHour}}
           keys(g) == {k \in Keys("stars") : k[2] >= FirstHour /\ k[1] = g}
           K == [g \in groups \cup Ids |-> keys(g)]
           R(g) == {row \in Rows("stars") : row.key[2] >= FirstHour /\ row.key[1] = g}
           N == [g \in groups |-> SumFunctionOnSet(Weight(parts["stars"]), R(g))]
<1>1. Source("top") = "stars" /\ KeysOf("top") = Ids BY DEF Source, KeysOf
<1>2. Trending = SetToBag(GroupRows(groups, N))
  <2>1. GroupRows(groups, N) = {Row(g, SumFunctionOnSet(Weight(parts["stars"]), R(g))) : g \in groups}
    BY DEF GroupRows
  <2> QED BY <2>1 DEF Trending, Grouped, Sum
<1>3. ASSUME NEW g \in groups
      PROVE  N[g] = SumUnder("stars", K[g])
  <2>1. {row \in Rows("stars") : row.key \in K[g]} = R(g) BY RowShape
  <2> QED BY <2>1 DEF SumUnder
<1>4. ASSUME NEW g \in Ids
      PROVE  /\ K[g] \in SUBSET Keys("stars")
             /\ MustCount("top", g) \subseteq CountedUnder("stars", K[g])
             /\ CountedUnder("stars", K[g]) \subseteq MayCount("top", g)
             /\ g \notin groups => \A row \in Present("stars") : row.key \notin K[g]
  <2>1. K[g] = keys(g) OBVIOUS
  <2>2. \A e \in Kinds : Counts("stars", e) => Key("stars", e) \in Keys("stars") BY DEF Keys
  <2>3. CountedUnder("stars", keys(g)) = {e \in Kinds : Star(e) /\ e.id = g /\ Hour(e.at) >= FirstHour}
    BY <2>2, KeyShape DEF CountedUnder
  <2>4. \A e \in Kinds : IsOf("top", g, e) <=> Star(e) /\ e.id = g BY DEF IsOf
  <2>5. "top" \in Windowed /\ Length("top") = Window /\ Border("top") = HourTicks * Hour(startedAt - Window)
    BY DEF Windowed, Length, Border
  <2>6. now \in Nat /\ startedAt \in Nat /\ startedAt <= now /\ Window \in Nat
    BY TimeShape, ConstantShape DEF ReadsInv
  <2>7. \A e \in Kinds : e.at >= now - Window => Hour(e.at) >= FirstHour
    BY <2>6, ConstantShape, HourBegins DEF FirstHour
  <2>8. ASSUME NEW e \in Kinds, Hour(e.at) >= FirstHour
        PROVE  e.at >= HourTicks * Hour(startedAt - Window)
    <3> DEFINE h == Hour(startedAt - Window)
    <3>1. e.at \in Nat /\ HourTicks \in Nat BY ConstantShape
    <3>2. startedAt - Window \in Int /\ now - Window \in Int /\ startedAt - Window <= now - Window BY <2>6
    <3>3. h \in Int /\ FirstHour \in Int /\ h <= FirstHour BY <3>2, HourBegins DEF FirstHour
    <3>4. Hour(e.at) \in Int /\ HourTicks * Hour(e.at) <= e.at BY <3>1, HourBegins
    <3> HIDE DEF h
    <3>5. h <= Hour(e.at) BY <2>8, <3>3, <3>4
    <3>6. HourTicks * h <= HourTicks * Hour(e.at) BY <3>1, <3>3, <3>4, <3>5, TimesGrows
    <3>7. HourTicks * h \in Int /\ HourTicks * Hour(e.at) \in Int BY <3>1, <3>3, <3>4
    <3>8. e.at >= HourTicks * h BY <3>1, <3>4, <3>6, <3>7
    <3> QED BY <3>8 DEF h
  <2>9. MustCount("top", g) = {e \in Kinds : Star(e) /\ e.id = g /\ e.at >= now - Window}
    BY <2>4, <2>5 DEF MustCount
  <2>10. MayCount("top", g) = {e \in Kinds : Star(e) /\ e.id = g /\ e.at >= HourTicks * Hour(startedAt - Window)}
    BY <2>4, <2>5 DEF MayCount
  <2>11. MustCount("top", g) \subseteq CountedUnder("stars", K[g]) BY <2>1, <2>3, <2>7, <2>9
  <2>12. CountedUnder("stars", K[g]) \subseteq MayCount("top", g) BY <2>1, <2>3, <2>8, <2>10
  <2>13. g \notin groups => \A row \in Present("stars") : row.key \notin K[g] BY <2>1
  <2> QED BY <2>1, <2>11, <2>12, <2>13
<1> HIDE DEF groups, K, N
<1> QED BY <1>1, <1>2, <1>3, <1>4, GroupedIsSound

LEMMA TopLanguageIsSound ==
  ASSUME ReadsInv
  PROVE  IsSound("topLanguage", TrendingByLanguage)
<1> DEFINE Shown(e) == e.type = "WatchEvent" /\ e.at >= now - Window /\ e.language = Language
           groups == {e.id : e \in {k \in Kinds : table[k] > 0 /\ Shown(k)}}
           E(g) == {e \in Kinds : Shown(e) /\ e.id = g}
           N == [g \in groups |-> SumFunctionOnSet(table, E(g))]
<1>1. Source("topLanguage") = "table" /\ KeysOf("topLanguage") = Ids BY DEF Source, KeysOf
<1>2. TrendingByLanguage = SetToBag(GroupRows(groups, N))
  <2>1. GroupRows(groups, N) = {Row(g, SumFunctionOnSet(table, E(g))) : g \in groups} BY DEF GroupRows
  <2> QED BY <2>1 DEF TrendingByLanguage, Scanned, Total
<1>3. /\ \A g \in groups : N[g] \in Nat => CountIn(TrendingByLanguage, g) = N[g]
      /\ \A g : g \notin groups => CountIn(TrendingByLanguage, g) = 0
  <2> HIDE DEF groups, N
  <2> QED BY <1>2, CountOfGroup
<1>4. TypeOK BY DEF ReadsInv
<1>5. ASSUME NEW g \in Ids
      PROVE  CountIn(TrendingByLanguage, g)
               \in SumFunctionOnSet(AtStart("table"), MustCount("topLanguage", g))
                     .. SumFunctionOnSet(table, MayCount("topLanguage", g))
  <2>1. IsFiniteSet(E(g)) /\ E(g) \in SUBSET Kinds BY ReadsAssumption, FS_Subset
  <2>2. AreNumbers(table, E(g)) BY <1>4, TableShape DEF AreNumbers
  <2>3. SumFunctionOnSet(table, E(g)) \in Nat
    <3> HIDE DEF E
    <3> QED BY <2>1, <2>2, SumType
  <2>4. CountIn(TrendingByLanguage, g) = SumFunctionOnSet(table, E(g))
    <3>1. CASE g \in groups
      <4>1. N[g] = SumFunctionOnSet(table, E(g)) BY <3>1
      <4> HIDE DEF N, groups, E
      <4> QED BY <1>3, <2>3, <3>1, <4>1
    <3>2. CASE g \notin groups
      <4>1. \A e \in E(g) : table[e] = 0
        <5>1. \A e \in E(g) : table[e] \in Nat /\ ~ (table[e] > 0) BY <1>4, <3>2, TableShape
        <5> QED BY <5>1
      <4> HIDE DEF groups, E
      <4>2. SumFunctionOnSet(table, E(g)) = 0 BY <2>1, <4>1, SumOfZeros
      <4> QED BY <1>3, <3>2, <4>2
    <3> QED BY <3>1, <3>2
  <2>5. /\ "topLanguage" \in Windowed /\ Length("topLanguage") = Window
        /\ Border("topLanguage") = startedAt - Window
    BY DEF Windowed, Length, Border
  <2>6. \A e \in Kinds : IsOf("topLanguage", g, e) <=> Star(e) /\ e.id = g /\ e.language = Language BY DEF IsOf
  <2>7. MustCount("topLanguage", g) = E(g) BY <2>5, <2>6 DEF MustCount, Star
  <2>8. E(g) \subseteq MayCount("topLanguage", g)
    <3>1. now \in Nat /\ startedAt \in Nat /\ startedAt <= now /\ Window \in Nat BY <1>4, TimeShape, ConstantShape
    <3>2. \A e \in Kinds : e.at >= now - Window => e.at >= startedAt - Window BY <3>1, ConstantShape
    <3> QED BY <2>5, <2>6, <3>2 DEF MayCount, Star
  <2>9. SumFunctionOnSet(Stored("table"), E(g))
          \in SumFunctionOnSet(AtStart("table"), MustCount("topLanguage", g))
                .. SumFunctionOnSet(table, MayCount("topLanguage", g))
    <3> HIDE DEF E
    <3> QED BY <1>1, <2>1, <2>7, <2>8, BoundsOfCount
  <2>10. SumFunctionOnSet(Stored("table"), E(g)) = SumFunctionOnSet(table, E(g)) BY <2>1, TableIsStored
  <2> QED BY <2>4, <2>9, <2>10
<1> QED BY <1>1, <1>5 DEF IsSound, IsBetween

(* Some rows of a view weigh in a result what they weigh in the view. *)
LEMMA WeightOfSome ==
  ASSUME NEW v \in Views, NEW rows \in [Rows(v) -> Nat], NEW D \in SUBSET Rows(v), NEW T \in SUBSET D
  PROVE  SumFunctionOnSet([row \in D |-> row.n * rows[row]], T) = SumFunctionOnSet(Weight(rows), T)
<1> DEFINE f == [row \in D |-> row.n * rows[row]]
<1>1. IsFiniteSet(T) /\ AreNumbers(Weight(rows), T)
  <2>1. T \in SUBSET Rows(v) OBVIOUS
  <2> QED BY <2>1, RowsAreFinite, FS_Subset, WeightsAreNumbers
<1>2. \A row \in T : Weight(rows)[row] = f[row] BY DEF Weight
<1> HIDE DEF f
<1>3. SumFunctionOnSet(Weight(rows), T) = SumFunctionOnSet(f, T) BY <1>1, <1>2, SumEqual
<1> QED BY <1>3 DEF f

LEMMA SeriesKeys ==
  \A key \in KeysOf("series") : \E language \in Languages \ {""}, day \in Days : key = <<language, day>>
<1> DEFINE known == Languages \ {""}
<1>1. KeysOf("series") = known \X Days BY DEF KeysOf
<1>2. \A A, B : \A p \in A \X B : \E a \in A, b \in B : p = <<a, b>> OBVIOUS
<1> HIDE DEF known
<1>3. \A key \in KeysOf("series") : \E language \in known, day \in Days : key = <<language, day>> BY <1>1, <1>2
<1> QED BY <1>3 DEF known

LEMMA LanguageKey ==
  ASSUME NEW e \in Kinds, NEW language, NEW day
  PROVE  Key("languages", e) = <<language, day>> <=> e.language = language /\ Day(Hour(e.at)) = day
<1>1. Key("languages", e) = <<e.language, Day(Hour(e.at))>> BY KeyShape
<1> QED BY <1>1

(* The series of /languages/trends is not grouped: a point of it may come  *)
(* in several rows, which count together what one row would.               *)
LEMMA SeriesIsSound ==
  ASSUME ReadsInv, "languages" \in Read
  PROVE  IsSound("series", Series)
<1> DEFINE v == "languages"
           L == TrendsDays * DayHours * HourTicks
           first == Day(Hour(now - L))
           asked == Day(Hour(startedAt - L))
           W == Weight(parts[v])
           D == {r \in Present(v) : r.key[2] >= first}
           f == [row \in D |-> row.n * parts[v][row]]
<1>1. Source("series") = v /\ KeysOf("series") = (Languages \ {""}) \X Days BY DEF Source, KeysOf
<1>2. Series = [row \in D |-> parts[v][row]] BY DEF Series, TrendsStart
<1>3. TypeOK /\ v \in Views /\ parts[v] \in [Rows(v) -> Nat] BY DEF ReadsInv, TypeOK, Views
<1>4. /\ "series" \in Windowed /\ Length("series") = L
      /\ Border("series") = HourTicks * (DayHours * asked)
  BY DEF Windowed, Length, Border
<1>5. now \in Nat /\ startedAt \in Nat /\ startedAt <= now /\ L \in Nat BY <1>3, TimeShape, ConstantShape
<1>6. /\ now - L \in Int /\ startedAt - L \in Int /\ startedAt - L <= now - L
  <2> HIDE DEF L
  <2> QED BY <1>5
<1>7. first \in Int /\ asked \in Int /\ asked <= first
  <2> HIDE DEF L
  <2> QED BY <1>6, HourBegins, DayBegins
<1>8. ASSUME NEW e \in Kinds
      PROVE  /\ Day(Hour(e.at)) \in Int
             /\ e.at >= now - L => Day(Hour(e.at)) >= first
             /\ Day(Hour(e.at)) >= first => e.at >= HourTicks * (DayHours * asked)
  <2>1. e.at \in Int /\ Hour(e.at) \in Int /\ Day(Hour(e.at)) \in Int BY ConstantShape, HourBegins, DayBegins
  <2>2. e.at >= now - L => Day(Hour(e.at)) >= first
    <3> HIDE DEF L
    <3>1. Hour(now - L) \in Int BY <1>6, HourBegins
    <3>2. e.at >= now - L => Hour(now - L) <= Hour(e.at) BY <1>6, <2>1, HourBegins
    <3>3. Hour(now - L) <= Hour(e.at) => first <= Day(Hour(e.at)) BY <2>1, <3>1, DayBegins
    <3> QED BY <1>7, <2>1, <3>2, <3>3
  <2>3. ASSUME Day(Hour(e.at)) >= first PROVE e.at >= HourTicks * (DayHours * asked)
    <3>1. HourTicks \in Nat /\ DayHours \in Nat BY ConstantShape
    <3>2. HourTicks * Hour(e.at) <= e.at BY <2>1, HourBegins
    <3>3. DayHours * Day(Hour(e.at)) <= Hour(e.at) BY <2>1, DayBegins
    <3> HIDE DEF asked, first
    <3>4. asked <= Day(Hour(e.at)) BY <1>7, <2>1, <2>3
    <3>5. DayHours * asked <= DayHours * Day(Hour(e.at)) BY <1>7, <2>1, <3>1, <3>4, TimesGrows
    <3>6. DayHours * asked \in Int /\ DayHours * Day(Hour(e.at)) \in Int BY <1>7, <2>1, <3>1
    <3>7. DayHours * asked <= Hour(e.at) BY <2>1, <3>3, <3>5, <3>6
    <3>8. HourTicks * (DayHours * asked) <= HourTicks * Hour(e.at) BY <2>1, <3>1, <3>6, <3>7, TimesGrows
    <3>9. HourTicks * (DayHours * asked) \in Int /\ HourTicks * Hour(e.at) \in Int BY <2>1, <3>1, <3>6
    <3> QED BY <2>1, <3>2, <3>8, <3>9
  <2> QED BY <2>1, <2>2, <2>3
<1>9. ASSUME NEW language \in Languages \ {""}, NEW day \in Days, NEW key, key = <<language, day>>
      PROVE  CountIn(Series, key)
               \in SumFunctionOnSet(AtStart(v), MustCount("series", key)) .. SumFunctionOnSet(table, MayCount("series", key))
  <2> DEFINE keys == {k \in Keys(v) : k = key}
             E == CountedUnder(v, keys)
             R == {row \in Rows(v) : row.key \in keys}
             T == {row \in D : row.key = key}
  <2>1. key[1] = language /\ key[2] = day BY <1>9
  <2>2. \A e \in Kinds : IsOf("series", key, e) <=> e.language = key[1] /\ Day(Hour(e.at)) = key[2] BY DEF IsOf
  <2>3. E = {e \in Kinds : e.language = key[1] /\ Day(Hour(e.at)) = key[2]}
    <3>1. \A e \in Kinds : Counts(v, e) => Key(v, e) \in Keys(v) BY DEF Keys
    <3>2. \A e \in Kinds : (Counts(v, e) <=> e.language # "") /\ Key(v, e) = <<e.language, Day(Hour(e.at))>>
      BY KeyShape
    <3>3. \A e \in Kinds : Key(v, e) = key <=> e.language = key[1] /\ Day(Hour(e.at)) = key[2]
      <4>1. \A e \in Kinds : Key(v, e) = <<language, day>> <=> e.language = language /\ Day(Hour(e.at)) = day
        BY LanguageKey
      <4> QED BY <1>9, <2>1, <4>1
    <3>4. key[1] # "" BY <2>1
    <3> QED BY <3>4, <3>1, <3>2, <3>3 DEF CountedUnder
  <2>4. CountIn(Series, key) = SumFunctionOnSet(f, T)
    <3>1. BagToSet(Series) = D BY <1>2 DEF BagToSet
    <3>2. \A row \in D : Series[row] = parts[v][row] BY <1>2
    <3>3. [row \in BagToSet(Series) |-> row.n * Series[row]] = f BY <3>1, <3>2
    <3>4. {row \in BagToSet(Series) : row.key = key} = T BY <3>1
    <3> QED BY <3>3, <3>4 DEF CountIn
  <2>5. CASE key[2] >= first
    <3>1. keys \in SUBSET Keys(v) OBVIOUS
    <3>2. SumFunctionOnSet(W, R) = SumFunctionOnSet(Stored(v), E)
      BY <3>1, CountOfView DEF SumUnder
    <3>3. T \in SUBSET R BY RowShape DEF Present
    <3>4. ASSUME NEW row \in R \ T PROVE W[row] = 0
      <4>1. row \in Rows(v) /\ row.key = key /\ row \notin Present(v) BY <2>5, <3>4
      <4> QED BY <1>3, <4>1, WeightOfAbsent
    <3>5. R \in SUBSET Rows(v) /\ IsFiniteSet(R) BY <1>3, RowsAreFinite, FS_Subset
    <3>6. AreNumbers(W, R) BY <1>3, <3>5, WeightsAreNumbers
    <3>7. SumFunctionOnSet(W, T) = SumFunctionOnSet(W, R)
      <4> HIDE DEF W, T, R
      <4> QED BY <3>3, <3>4, <3>5, <3>6, SumOfSupport
    <3>8. SumFunctionOnSet(f, T) = SumFunctionOnSet(W, T)
      <4>1. D \in SUBSET Rows(v) /\ T \in SUBSET D BY DEF Present
      <4> HIDE DEF D, T
      <4> QED BY <1>3, <4>1, WeightOfSome
    <3>9. E \in SUBSET Kinds BY DEF CountedUnder
    <3>10. MustCount("series", key) \subseteq E BY <2>2, <2>3 DEF MustCount
    <3>11. E \subseteq MayCount("series", key)
      <4>1. \A e \in E : e \in Kinds /\ Day(Hour(e.at)) >= first BY <2>3, <2>5
      <4>2. \A e \in E : e.at >= Border("series") BY <1>4, <1>8, <4>1
      <4> QED BY <2>2, <2>3, <4>2 DEF MayCount
    <3>12. SumFunctionOnSet(Stored(v), E)
             \in SumFunctionOnSet(AtStart(v), MustCount("series", key)) .. SumFunctionOnSet(table, MayCount("series", key))
      <4> HIDE DEF E
      <4> QED BY <1>1, <3>9, <3>10, <3>11, BoundsOfCount
    <3> QED BY <2>4, <3>2, <3>7, <3>8, <3>12
  <2>6. CASE ~ (key[2] >= first)
    <3>1. T = {} BY <2>6
    <3>2. CountIn(Series, key) = 0 BY <2>4, <3>1, SumOfNone
    <3>3. MustCount("series", key) = {}
      <4>1. \A e \in Kinds : IsOf("series", key, e) => ~ (e.at >= now - L) BY <1>8, <2>2, <2>6
      <4> QED BY <1>4, <4>1 DEF MustCount
    <3>4. {} \in SUBSET Kinds /\ {} \subseteq MayCount("series", key) OBVIOUS
    <3>5. SumFunctionOnSet(Stored(v), {})
             \in SumFunctionOnSet(AtStart(v), MustCount("series", key)) .. SumFunctionOnSet(table, MayCount("series", key))
      BY <1>1, <3>3, <3>4, BoundsOfCount
    <3> QED BY <3>2, <3>5, SumOfNone
  <2> QED BY <2>5, <2>6
<1>10. "series" \notin {"days", "cells"} OBVIOUS
<1>11. ASSUME NEW key \in KeysOf("series")
       PROVE  CountIn(Series, key) \in SumFunctionOnSet(AtStart(Source("series")), MustCount("series", key))
                                         .. SumFunctionOnSet(table, MayCount("series", key))
  <2>1. PICK language \in Languages \ {""}, day \in Days : key = <<language, day>> BY SeriesKeys
  <2> QED BY <1>1, <1>9, <2>1
<1> QED BY <1>10, <1>11 DEF IsSound, IsBetween

(* Counters of the table, in one row each and there also for no events.    *)
LEMMA CounterIsSound ==
  ASSUME ReadsInv, NEW q, NEW key, NEW E, NEW S, NEW n,
         Source(q) = "table", E \in SUBSET Kinds, n = SumFunctionOnSet(table, E),
         MustCount(q, key) \subseteq E, E \subseteq MayCount(q, key),
         Row(key, n) \in S, \A row \in S : row.key = key => row = Row(key, n)
  PROVE  CountIn(SetToBag(S), key)
           \in SumFunctionOnSet(AtStart(Source(q)), MustCount(q, key)) .. SumFunctionOnSet(table, MayCount(q, key))
<1>1. TypeOK BY DEF ReadsInv
<1>2. IsFiniteSet(E) /\ AreNumbers(table, E) BY <1>1, TableShape, ReadsAssumption, FS_Subset DEF AreNumbers
<1>3. n \in Nat BY <1>2, SumType
<1>4. CountIn(SetToBag(S), key) = n BY <1>3, CountOfRow
<1>5. SumFunctionOnSet(Stored("table"), E) = n BY TableIsStored
<1>6. SumFunctionOnSet(Stored(Source(q)), E)
        \in SumFunctionOnSet(AtStart(Source(q)), MustCount(q, key)) .. SumFunctionOnSet(table, MayCount(q, key))
  BY BoundsOfCount
<1> QED BY <1>4, <1>5, <1>6

LEMMA CountIsSound ==
  ASSUME ReadsInv
  PROVE  IsSound("count", Stats)
<1> DEFINE newest == Max({0} \cup {e.at : e \in {k \in Kinds : table[k] > 0}})
           N == SumFunctionOnSet(table, Kinds)
           S == {Row("events", N), Row("lag", now - newest)}
<1>1. Stats = SetToBag(S)
  <2>1. Counters({"events"}, LAMBDA name, e : TRUE) = {Row("events", N)}
    <3>1. {e \in Kinds : TRUE} = Kinds OBVIOUS
    <3> QED BY <3>1 DEF Counters, Total
  <2>2. Counters({"events"}, LAMBDA name, e : TRUE) \cup {Row("lag", now - newest)} = S BY <2>1
  <2> QED BY <2>2 DEF Stats
<1>2. Source("count") = "table" /\ KeysOf("count") = {"events"} BY DEF Source, KeysOf
<1>3. MustCount("count", "events") = Kinds /\ MayCount("count", "events") = Kinds
  <2>1. "count" \notin Windowed BY DEF Windowed
  <2>2. \A e \in Kinds : IsOf("count", "events", e) BY DEF IsOf
  <2> QED BY <2>1, <2>2 DEF MustCount, MayCount
<1> HIDE DEF newest
<1>4. Row("events", N) \in S /\ \A row \in S : row.key = "events" => row = Row("events", N) BY DEF Row
<1>5. Kinds \in SUBSET Kinds OBVIOUS
<1> HIDE DEF S, N
<1>6. N = SumFunctionOnSet(table, Kinds) BY DEF N
<1>7. CountIn(Stats, "events") \in SumFunctionOnSet(AtStart(Source("count")), MustCount("count", "events"))
                                     .. SumFunctionOnSet(table, MayCount("count", "events"))
  BY <1>1, <1>2, <1>3, <1>4, <1>5, <1>6, CounterIsSound
<1>8. "count" \notin {"days", "cells"} OBVIOUS
<1> QED BY <1>2, <1>7, <1>8 DEF IsSound, IsBetween

LEMMA CoverageIsSound == IsSound("coverage", Coverage)
<1>1. KeysOf("coverage") = {} /\ "coverage" \notin {"days", "cells"} BY DEF KeysOf
<1> QED BY <1>1 DEF IsSound, IsBetween

LEMMA LookupIsSound ==
  ASSUME ReadsInv, NEW id
  PROVE  IsSound("lookup", Lookup(id))
<1> DEFINE E(type) == {e \in Kinds : e.name = CardName /\ e.type = type}
           N(type) == SumFunctionOnSet(table, E(type))
           S == {Row(type, N(type)) : type \in CardTypes} \cup {Row("repo_id", id)}
<1>1. Lookup(id) = SetToBag(S) BY DEF Lookup, Counters, Total
<1>2. Source("lookup") = "table" /\ KeysOf("lookup") = CardTypes BY DEF Source, KeysOf
<1>3. ASSUME NEW type \in CardTypes
      PROVE  CountIn(Lookup(id), type) \in SumFunctionOnSet(AtStart(Source("lookup")), MustCount("lookup", type))
                                             .. SumFunctionOnSet(table, MayCount("lookup", type))
  <2>1. "lookup" \notin Windowed BY DEF Windowed
  <2>2. \A e \in Kinds : IsOf("lookup", type, e) <=> e.name = CardName /\ e.type = type BY DEF IsOf
  <2>3. MustCount("lookup", type) = E(type) /\ MayCount("lookup", type) = E(type)
    BY <2>1, <2>2 DEF MustCount, MayCount
  <2>4. Row(type, N(type)) \in S OBVIOUS
  <2>5. type # "repo_id" BY DEF CardTypes
  <2>6. \A row \in S : row.key = type => row = Row(type, N(type))
    <3> HIDE DEF N
    <3> QED BY <2>5 DEF Row
  <2>7. E(type) \in SUBSET Kinds /\ N(type) = SumFunctionOnSet(table, E(type)) OBVIOUS
  <2> HIDE DEF S, N, E
  <2> QED BY <1>1, <1>2, <2>3, <2>4, <2>6, <2>7, CounterIsSound
<1>4. "lookup" \notin {"days", "cells"} OBVIOUS
<1> QED BY <1>2, <1>3, <1>4 DEF IsSound, IsBetween

LEMMA ResultsAreSound ==
  ASSUME ReadsInv, NEW q \in todo, q # "lookup"
  PROVE  IsSound(q, Result(q))
<1>1. route \in Routes /\ q \in QueriesOf(route) BY DEF ReadsInv, TypeOK
<1>2. CASE route = "card"
  <2>1. "stars" \in Read /\ q \in {"total", "days"} BY <1>1, <1>2 DEF Read, QueriesOf
  <2> QED BY <2>1, TotalIsSound, DaysAreSound DEF Result
<1>3. CASE route = "trends"
  <2>1. "languages" \in Read /\ q \in {"coverage", "series"} BY <1>1, <1>3 DEF Read, QueriesOf
  <2> QED BY <2>1, CoverageIsSound, SeriesIsSound DEF Result
<1>4. CASE route = "heatmap"
  <2>1. "activity" \in Read /\ q = "cells" BY <1>1, <1>4 DEF Read, QueriesOf
  <2> QED BY <2>1, CellsAreSound DEF Result
<1>5. CASE route = "stats"
  <2>1. q = "count" BY <1>1, <1>5 DEF QueriesOf
  <2> QED BY <2>1, CountIsSound DEF Result
<1>6. CASE route = "trending"
  <2>1. "stars" \in Read /\ q = "top" BY <1>1, <1>6 DEF Read, QueriesOf
  <2> QED BY <2>1, TopIsSound DEF Result
<1>7. CASE route = "trendingLanguage"
  <2>1. q = "topLanguage" BY <1>1, <1>7 DEF QueriesOf
  <2> QED BY <2>1, TopLanguageIsSound DEF Result
<1> QED BY <1>1, <1>2, <1>3, <1>4, <1>5, <1>6, <1>7 DEF Routes
-----------------------------------------------------------------------------
(* The steps of a request. *)

LEMMA StoreStays ==
  ASSUME ReadsInv, UNCHANGED <<store, route, floor, lag, startedAt>>
  PROVE  ViewsComplete' /\ StoreInOrder'
<1>1. ViewsComplete /\ StoreInOrder BY DEF ReadsInv
<1>2. UNCHANGED <<now, table, due, parts, route, floor, lag, startedAt>> BY DEF store
<1>3. ViewsComplete' BY <1>1, <1>2 DEF ViewsComplete, Read, Present, Stored
<1>4. Total(table, LAMBDA k : TRUE)' <= MaxEvents BY <1>1, <1>2, TotalIsSum DEF StoreInOrder
<1>5. StoreInOrder' BY <1>1, <1>2, <1>4 DEF StoreInOrder, Read, Stored, AtStart
<1> QED BY <1>3, <1>5

(* A result depends on the store and on the moment it is asked for. *)
LEMMA SoundnessStays ==
  ASSUME UNCHANGED <<store, repoId, floor, lag, startedAt>>
  PROVE  /\ \A q, rows : IsSound(q, rows)' <=> IsSound(q, rows)
         /\ \A q, rows : IsBetween(q, rows)' <=> IsBetween(q, rows)
         /\ \A rows : OneRowPerKey(rows)' <=> OneRowPerKey(rows)
<1>1. UNCHANGED <<now, table, repoId, floor, lag, startedAt>> BY DEF store
<1>2. ASSUME NEW q, NEW rows PROVE IsBetween(q, rows)' <=> IsBetween(q, rows)
  <2>1. AtStart(Source(q))' = AtStart(Source(q)) BY <1>1 DEF AtStart
  <2>2. \A key : MustCount(q, key)' = MustCount(q, key) BY <1>1 DEF MustCount, IsOf
  <2>3. \A key : MayCount(q, key)' = MayCount(q, key) BY <1>1 DEF MayCount, IsOf, Border
  <2> QED BY <1>1, <2>1, <2>2, <2>3 DEF IsBetween
<1>3. \A rows : OneRowPerKey(rows)' <=> OneRowPerKey(rows) BY DEF OneRowPerKey
<1> QED BY <1>2, <1>3 DEF IsSound

LEMMA AskKeeps ==
  ASSUME ReadsInv, Ask
  PROVE  ReadsInv'
<1>1. TypeOK /\ StoreInOrder /\ ViewsComplete BY DEF ReadsInv
<1>2. /\ pc' = "asked" /\ todo' = FirstQueries /\ body' = NoBody
      /\ floor' = table /\ lag' = due /\ startedAt' = now
      /\ UNCHANGED <<now, table, due, parts, route, repoId, held, answer>>
  BY DEF Ask, store
<1>3. DOMAIN body' = {} BY <1>2 DEF NoBody
<1>4. TypeOK'
  <2>1. startedAt' \in MinTime .. now'
    <3>1. now \in MinTime .. MaxTime /\ MinTime \in Nat /\ MaxTime \in Nat BY <1>1, ConstantShape DEF TypeOK
    <3> QED BY <1>2, <3>1
  <2>2. todo' \subseteq QueriesOf(route) BY <1>2 DEF FirstQueries, QueriesOf
  <2> QED BY <1>1, <1>2, <1>3, <2>1, <2>2 DEF TypeOK, Present, QueriesOf
<1>5. ViewsComplete' BY <1>1, <1>2 DEF ViewsComplete, Read, Present, Stored
<1>6. StoreInOrder'
  <2>1. Total(table, LAMBDA k : TRUE)' <= MaxEvents BY <1>1, <1>2, TotalIsSum DEF StoreInOrder
  <2>2. ASSUME NEW v \in Views, NEW e \in Kinds
        PROVE  /\ <<v, e>> \in due' => v \in Read' /\ Counts(v, e) /\ table'[e] > 0
               /\ <<v, e>> \in lag' => floor'[e] > 0
               /\ AtStart(v)'[e] <= Stored(v)'[e]
    <3>1. AtStart(v)' = Stored(v) /\ Stored(v)' = Stored(v) BY <1>2 DEF AtStart, Stored
    <3>2. Stored(v)[e] \in Nat BY <1>1, StoredLiesBetween DEF Sources
    <3>3. AtStart(v)'[e] <= Stored(v)'[e] BY <3>1, <3>2
    <3>4. <<v, e>> \in due => v \in Read /\ Counts(v, e) /\ table[e] > 0 BY <1>1 DEF StoreInOrder
    <3>5. Read' = Read BY <1>2 DEF Read
    <3> QED BY <1>2, <3>3, <3>4, <3>5
  <2>3. \A e \in Kinds : floor'[e] <= table'[e] BY <1>1, <1>2, TableShape
  <2> QED BY <2>1, <2>2, <2>3 DEF StoreInOrder
<1>7. RequestInOrder'
  <2>1. route = "card" => todo' = {"lookup"} BY <1>2 DEF FirstQueries
  <2>2. route # "card" => todo' = QueriesOf(route) /\ "lookup" \notin QueriesOf(route)
    BY <1>1, <1>2 DEF FirstQueries, QueriesOf, TypeOK, Routes
  <2> QED BY <1>2, <1>3, <2>1, <2>2 DEF RequestInOrder, QueriesOf
<1>8. pc' # "idle" BY <1>2
<1> QED BY <1>3, <1>4, <1>5, <1>6, <1>7, <1>8 DEF ReadsInv, HeldIsBetween, WindowNeverShort, Confirmed

LEMMA ResolveNameKeeps ==
  ASSUME ReadsInv, ResolveName
  PROVE  ReadsInv'
<1>1. TypeOK /\ RequestInOrder BY DEF ReadsInv
<1>2. PICK id \in NamedIds : repoId' = id /\ body' = With("lookup", Lookup(id)) BY DEF ResolveName
<1>3. /\ "lookup" \in todo /\ todo' = {"total", "days"}
      /\ UNCHANGED <<store, route, pc, floor, lag, startedAt, held, answer>>
  BY DEF ResolveName
<1>4. route = "card" /\ pc = "asked" /\ DOMAIN body = {}
  <2>1. pc = "asked" BY <1>1, <1>3 DEF RequestInOrder, TypeOK
  <2> QED BY <1>1, <1>3, <2>1 DEF RequestInOrder
<1>5. DOMAIN body' = {"lookup"} /\ body'["lookup"] = Lookup(id) BY <1>2, <1>4 DEF With
<1>6. TypeOK'
  <2>1. repoId' \in {0} \cup {e.id : e \in Kinds} BY <1>2 DEF NamedIds
  <2>2. todo' \subseteq QueriesOf(route) /\ DOMAIN body' \subseteq QueriesOf(route) BY <1>3, <1>4, <1>5 DEF QueriesOf
  <2>3. QueriesOf(route)' = QueriesOf(route) BY <1>3
  <2> QED BY <1>1, <1>3, <2>1, <2>2, <2>3 DEF TypeOK, Present, store
<1>7. ViewsComplete' /\ StoreInOrder' BY <1>3, StoreStays
<1>8. RequestInOrder' BY <1>3, <1>4, <1>5 DEF RequestInOrder, QueriesOf
<1>9. IsSound("lookup", Lookup(id))'
  <2>1. IsSound("lookup", Lookup(id)) BY LookupIsSound
  <2> DEFINE rows == Lookup(id)
  <2>2. UNCHANGED <<now, table, floor, lag, startedAt>> BY <1>3 DEF store
  <2>3. Lookup(id)' = Lookup(id) BY <2>2 DEF Lookup, Counters, Total
  <2>4. AtStart(Source("lookup"))' = AtStart(Source("lookup")) BY <2>2 DEF AtStart
  <2>5. \A key : MustCount("lookup", key)' = MustCount("lookup", key)
    BY <2>2 DEF MustCount, IsOf
  <2>6. \A key : MayCount("lookup", key)' = MayCount("lookup", key) BY DEF MayCount, IsOf, Windowed
  <2>7. IsBetween("lookup", rows)' BY <2>1, <2>2, <2>3, <2>4, <2>5, <2>6 DEF IsSound, IsBetween
  <2> QED BY <2>7 DEF IsSound
<1>10. \A q \in DOMAIN body' : IsSound(q, body[q])'
  <2>1. Lookup(id)' = body'["lookup"]
    <3>1. UNCHANGED table BY <1>3 DEF store
    <3>2. Lookup(id)' = Lookup(id) BY <3>1 DEF Lookup, Counters, Total
    <3> QED BY <1>5, <3>2
  <2> QED BY <1>5, <1>9, <2>1 DEF IsSound, IsBetween, CountIn, OneRowPerKey
<1>11. pc' # "idle" BY <1>3, <1>4
<1> QED BY <1>6, <1>7, <1>8, <1>10, <1>11 DEF ReadsInv, HeldIsBetween, WindowNeverShort, Confirmed

LEMMA RunQueryKeeps ==
  ASSUME ReadsInv, NEW q, RunQuery(q)
  PROVE  ReadsInv'
<1>1. TypeOK /\ RequestInOrder BY DEF ReadsInv
<1>2. /\ q \in todo /\ q # "lookup"
      /\ body' = With(q, Result(q)) /\ todo' = todo \ {q}
      /\ UNCHANGED <<store, route, pc, repoId, floor, lag, startedAt, held, answer>>
  BY DEF RunQuery
<1>3. DOMAIN body' = DOMAIN body \cup {q} /\ body'[q] = Result(q) /\ \A p \in DOMAIN body \ {q} : body'[p] = body[p]
  BY <1>2 DEF With
<1>4. pc = "asked" /\ todo \cup DOMAIN body = QueriesOf(route) /\ "lookup" \notin todo
  <2>1. pc = "asked" BY <1>1, <1>2 DEF RequestInOrder, TypeOK
  <2> QED BY <1>1, <1>2, <2>1 DEF RequestInOrder
<1>5. QueriesOf(route)' = QueriesOf(route) BY <1>2 DEF QueriesOf
<1>6. TypeOK'
  <2>1. todo' \subseteq QueriesOf(route) /\ DOMAIN body' \subseteq QueriesOf(route) BY <1>2, <1>3, <1>4
  <2> QED BY <1>1, <1>2, <1>5, <2>1 DEF TypeOK, Present, store
<1>7. ViewsComplete' /\ StoreInOrder' BY <1>2, StoreStays
<1>8. RequestInOrder'
  <2>1. todo' \cup DOMAIN body' = QueriesOf(route) /\ "lookup" \notin todo' BY <1>2, <1>3, <1>4
  <2> QED BY <1>2, <1>4, <1>5, <2>1 DEF RequestInOrder
<1>9. \A p \in DOMAIN body' : IsSound(p, body'[p])
  <2>1. IsSound(q, Result(q)) BY <1>2, ResultsAreSound
  <2>2. \A p \in DOMAIN body : IsSound(p, body[p]) BY DEF ReadsInv
  <2> QED BY <1>3, <2>1, <2>2
<1>10. \A p \in DOMAIN body' : IsSound(p, body[p])'
  <2>1. ASSUME NEW p \in DOMAIN body', NEW rows, rows = body'[p] PROVE IsSound(p, body[p])'
    <3>1. IsSound(p, rows) BY <1>9, <2>1
    <3>2. IsSound(p, rows)' BY <1>2, <3>1, SoundnessStays
    <3> QED BY <2>1, <3>2 DEF IsSound, IsBetween, CountIn, OneRowPerKey
  <2> QED BY <2>1
<1>11. pc' # "idle" BY <1>2, <1>4
<1> QED BY <1>6, <1>7, <1>8, <1>10, <1>11 DEF ReadsInv, HeldIsBetween, WindowNeverShort, Confirmed

(* Whatever the answer, the request is over. *)
LEMMA AnsweredKeeps ==
  ASSUME ReadsInv, NEW status \in {"200", "304", "404", "500"}, Answered(status), UNCHANGED repoId
  PROVE  /\ TypeOK' /\ ViewsComplete' /\ StoreInOrder' /\ RequestInOrder' /\ DOMAIN body' = {}
         /\ pc' = "idle" /\ answer' = status
<1>1. TypeOK /\ RequestInOrder BY DEF ReadsInv
<1>2. /\ pc' = "idle" /\ todo' = {} /\ body' = NoBody /\ answer' = status
      /\ UNCHANGED <<store, route, floor, lag, startedAt>>
  BY DEF Answered
<1>3. DOMAIN body' = {} BY <1>2 DEF NoBody
<1>4. TypeOK' BY <1>1, <1>2, <1>3 DEF TypeOK, Present, QueriesOf, store
<1>5. ViewsComplete' /\ StoreInOrder' BY <1>2, StoreStays
<1>6. RequestInOrder' BY <1>2, <1>3 DEF RequestInOrder
<1> QED BY <1>2, <1>3, <1>4, <1>5, <1>6

LEMMA NotFoundKeeps ==
  ASSUME ReadsInv, NotFound
  PROVE  ReadsInv'
<1>1. TypeOK /\ StoreInOrder BY DEF ReadsInv
<1>2. NamedIds = {} /\ Answered("404") /\ UNCHANGED <<repoId, floor>> BY DEF NotFound, Answered
<1>3. /\ TypeOK' /\ ViewsComplete' /\ StoreInOrder' /\ RequestInOrder' /\ DOMAIN body' = {}
      /\ pc' = "idle" /\ answer' = "404"
  BY <1>2, AnsweredKeeps
<1>4. Total(floor, LAMBDA e : e.name = CardName)' = 0
  <2> DEFINE E == {e \in Kinds : e.name = CardName}
  <2>1. \A e \in E : floor[e] = 0
    <3>1. \A e \in Kinds : table[e] > 0 => e.name # CardName BY <1>2 DEF NamedIds
    <3>2. \A e \in Kinds : table[e] \in Nat /\ floor[e] \in Nat /\ floor[e] <= table[e]
      BY <1>1, TableShape DEF StoreInOrder
    <3> QED BY <3>1, <3>2
  <2>2. IsFiniteSet(E) BY ReadsAssumption, FS_Subset
  <2>3. SumFunctionOnSet(floor, E) = 0 BY <2>1, <2>2, SumOfZeros
  <2> QED BY <1>2, <2>3 DEF Total
<1>5. ~ Confirmed' BY <1>3 DEF Confirmed
<1> QED BY <1>3, <1>4, <1>5 DEF ReadsInv, HeldIsBetween, WindowNeverShort

LEMMA QueryFailsKeeps ==
  ASSUME ReadsInv, QueryFails
  PROVE  ReadsInv'
<1>1. Answered("500") /\ UNCHANGED repoId BY DEF QueryFails
<1>2. /\ TypeOK' /\ ViewsComplete' /\ StoreInOrder' /\ RequestInOrder' /\ DOMAIN body' = {}
      /\ pc' = "idle" /\ answer' = "500"
  BY <1>1, AnsweredKeeps
<1>3. ~ Confirmed' /\ answer' # "404" BY <1>2 DEF Confirmed
<1> QED BY <1>2, <1>3 DEF ReadsInv, HeldIsBetween, WindowNeverShort

(* What is answered with 200, or found equal to what the client holds.     *)
LEMMA PayloadIsSound ==
  ASSUME ReadsInv, pc = "asked", todo = {}
  PROVE  /\ DOMAIN Payload \ {"generatedAt"} = QueriesOf(route)
         /\ \A q \in QueriesOf(route) : IsSound(q, Payload[q])
<1>1. DOMAIN body = QueriesOf(route) BY DEF ReadsInv, RequestInOrder
<1>2. \A q \in QueriesOf(route) : IsSound(q, body[q]) BY <1>1 DEF ReadsInv
<1>3. "generatedAt" \notin QueriesOf(route) BY DEF QueriesOf, ReadsInv, TypeOK, Routes
<1>4. DOMAIN Payload \ {"generatedAt"} = QueriesOf(route) BY <1>1, <1>3 DEF Payload, With
<1>5. \A q \in QueriesOf(route) : Payload[q] = body[q] BY <1>1, <1>3 DEF Payload, With
<1> QED BY <1>2, <1>4, <1>5

LEMMA ConfirmedKeeps ==
  ASSUME ReadsInv, NEW status \in {"200", "304"}, Answered(status), UNCHANGED repoId,
         pc = "asked", todo = {}, held' = Payload
  PROVE  ReadsInv'
<1>1. /\ TypeOK' /\ ViewsComplete' /\ StoreInOrder' /\ RequestInOrder' /\ DOMAIN body' = {}
      /\ pc' = "idle" /\ answer' = status
  BY AnsweredKeeps
<1>2. UNCHANGED <<store, route, floor, lag, startedAt>> /\ QueriesOf(route)' = QueriesOf(route) BY DEF Answered
<1>3. /\ DOMAIN held' \ {"generatedAt"} = QueriesOf(route)
      /\ \A q \in QueriesOf(route) : IsSound(q, held'[q])
  BY PayloadIsSound
<1>4. \A q \in QueriesOf(route) : IsBetween(q, held[q])'
  <2>1. ASSUME NEW q \in QueriesOf(route), NEW rows, rows = held'[q] PROVE IsBetween(q, held[q])'
    <3>1. IsBetween(q, rows) BY <1>3, <2>1 DEF IsSound
    <3>2. IsBetween(q, rows)' BY <1>2, <3>1, SoundnessStays
    <3> QED BY <2>1, <3>2 DEF IsBetween, CountIn
  <2> QED BY <2>1
<1>5. \A q \in QueriesOf(route) \cap {"days", "cells"} : OneRowPerKey(held[q])'
  BY <1>3 DEF IsSound, OneRowPerKey
<1>6. HeldIsBetween' BY <1>1, <1>2, <1>3, <1>4, <1>5 DEF HeldIsBetween
<1>7. WindowNeverShort' BY <1>2, <1>4 DEF WindowNeverShort
<1> QED BY <1>1, <1>6, <1>7 DEF ReadsInv

LEMMA NotModifiedKeeps ==
  ASSUME ReadsInv, NotModified
  PROVE  ReadsInv'
<1>1. held' = Payload BY DEF NotModified, Etag
<1> QED BY <1>1, ConfirmedKeeps DEF NotModified

LEMMA RespondKeeps ==
  ASSUME ReadsInv, Respond
  PROVE  ReadsInv'
BY ConfirmedKeeps DEF Respond
-----------------------------------------------------------------------------
LEMMA ReadsStutter == ReadsInv /\ UNCHANGED vars => ReadsInv'
<1> SUFFICES ASSUME ReadsInv, UNCHANGED vars PROVE ReadsInv' OBVIOUS
<1>1. UNCHANGED <<now, table, due, parts, route, pc, todo, body, repoId, floor, lag, startedAt, held, answer>>
  BY DEF vars, store, request
<1>2. UNCHANGED store BY <1>1 DEF store
<1>3. TypeOK' BY <1>1 DEF ReadsInv, TypeOK, Present, QueriesOf
<1>4. ViewsComplete' /\ StoreInOrder' BY <1>1, <1>2, StoreStays
<1>5. RequestInOrder' BY <1>1 DEF ReadsInv, RequestInOrder, QueriesOf
<1>6. TypeOK BY DEF ReadsInv
<1>7. now' \in Int /\ now <= now' BY <1>1, <1>6, TimeShape
<1>8. table' \in [Kinds -> 0 .. MaxEvents] BY <1>1, <1>6 DEF TypeOK
<1>9. \A e \in Kinds : table[e] <= table'[e] BY <1>1, <1>6, TableShape
<1>10. (\A q, w : IsSound(q, w) => IsSound(q, w)') /\ HeldIsBetween' /\ WindowNeverShort'
  BY <1>1, <1>7, <1>8, <1>9, ResultsStay
<1>11. \A q \in DOMAIN body : IsSound(q, body[q])' BY <1>1, <1>10 DEF ReadsInv
<1> QED BY <1>1, <1>3, <1>4, <1>5, <1>10, <1>11 DEF ReadsInv

LEMMA ReadsStep == ReadsInv /\ [Next]_vars => ReadsInv'
<1> SUFFICES ASSUME ReadsInv, [Next]_vars PROVE ReadsInv' OBVIOUS
<1>1. CASE UNCHANGED vars BY <1>1, ReadsStutter
<1>2. ASSUME NEW e \in Kinds, InsertRow(e) PROVE ReadsInv' BY <1>2, InsertRowKeeps
<1>3. ASSUME NEW e \in Kinds, NEW v \in Views, Trigger(v, e) PROVE ReadsInv' BY <1>3, TriggerKeeps
<1>4. ASSUME NEW v \in Views, Merge(v) PROVE ReadsInv' BY <1>4, MergeKeeps
<1>5. CASE Tick BY <1>5, TickKeeps
<1>6. CASE Ask BY <1>6, AskKeeps
<1>7. CASE ResolveName BY <1>7, ResolveNameKeeps
<1>8. CASE NotFound BY <1>8, NotFoundKeeps
<1>9. CASE QueryFails BY <1>9, QueryFailsKeeps
<1>10. CASE NotModified BY <1>10, NotModifiedKeeps
<1>11. CASE Respond BY <1>11, RespondKeeps
<1>12. ASSUME NEW q, RunQuery(q) PROVE ReadsInv' BY <1>12, RunQueryKeeps
<1> QED BY <1>1, <1>2, <1>3, <1>4, <1>5, <1>6, <1>7, <1>8, <1>9, <1>10, <1>11, <1>12 DEF Next

(* The inductive invariant: the views count what the table has, less what  *)
(* is due, and each result is sound from the moment its query returns.     *)
THEOREM ReadsInvariant == Spec => []ReadsInv
<1>1. Init => ReadsInv BY ReadsStart
<1>2. ReadsInv /\ [Next]_vars => ReadsInv' BY ReadsStep
<1> QED BY <1>1, <1>2, PTL DEF Spec

(* Every view has rows for the events it counts only, and every result     *)
(* belongs to a query of the route.                                        *)
THEOREM ReadsTypeCorrect == Spec => []TypeOK
<1>1. ReadsInv => TypeOK BY DEF ReadsInv
<1> QED BY <1>1, ReadsInvariant, PTL

(* What a client holds after a 200 or a 304 is complete, and each count in *)
(* it without a time window has all that was stored when it asked and      *)
(* nothing that is not stored now; 404 is said only of a name no event had *)
(* (routes.py:239-264, 351-360, 387-399; http_cache.py:41-43).             *)
THEOREM HeldLiesBetween == Spec => []HeldIsBetween
<1>1. ReadsInv => HeldIsBetween BY DEF ReadsInv
<1> QED BY <1>1, ReadsInvariant, PTL

(* A window read from a view of whole hours or days is never short, and    *)
(* long by the hour or the day at its border at most (queries.py:40-44).   *)
THEOREM WindowsAreNeverShort == Spec => []WindowNeverShort
<1>1. ReadsInv => WindowNeverShort BY DEF ReadsInv
<1> QED BY <1>1, ReadsInvariant, PTL
=============================================================================
