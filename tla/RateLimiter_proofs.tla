-------------------------- MODULE RateLimiter_proofs --------------------------
(***************************************************************************)
(* Proofs about RateLimiter, for any number of requests, any limit, window *)
(* and error of the time stamps.                                           *)
(***************************************************************************)
EXTENDS RateLimiter, FiniteSetTheorems, TLAPS

(* A part of the requests is finite and counted.                           *)
LEMMA RequestsAreFinite ==
  ASSUME NEW S \in SUBSET Request
  PROVE  IsFiniteSet(S) /\ Cardinality(S) \in Nat
BY LimiterAssumption, FS_Subset, FS_CardinalityType

(* Fewer requests count for no more.                                       *)
LEMMA SubsetCountsLess ==
  ASSUME NEW S \in SUBSET Request, NEW T \in SUBSET S
  PROVE  Cardinality(T) <= Cardinality(S)
BY RequestsAreFinite, FS_Subset

(* Quotients, as the script rounds them.                                   *)
LEMMA QuotientIsInteger ==
  ASSUME NEW x \in Int
  PROVE  x \div Second \in Int /\ (x \in Nat => x \div Second \in Nat)
BY LimiterAssumption

(* Retry-After is a number of seconds.                                     *)
LEMMA RetryIsNatural ==
  ASSUME TypeOK, NEW r \in Request, NEW o \in Request
  PROVE  RetryFor(r, stamp[o]) \in Nat
<1> DEFINE w == stamp[o] + Window - stamp[r]
<1>1. w \in Int BY LimiterAssumption DEF TypeOK
<1>2. w \div Second \in Int BY <1>1, QuotientIsInteger
<1> HIDE DEF w
<1>3. (IF w \div Second + 1 < 1 THEN 1 ELSE w \div Second + 1) \in Nat BY <1>2
<1> QED BY <1>3 DEF RetryFor, w

(* The counted window of a request is a part of the ZSET.                  *)
LEMMA KeptIsPart ==
  ASSUME TypeOK, NEW r \in Request
  PROVE  /\ Kept(r) \subseteq zset
         /\ Kept(r) \in SUBSET Request
         /\ Cardinality(Kept(r)) \in Nat
         /\ Cardinality(Kept(r)) <= Limit
<1>1. Kept(r) \subseteq zset BY DEF Kept, Members
<1>2. zset \in SUBSET Request BY DEF TypeOK, Admitted
<1>3. Cardinality(zset) \in Nat /\ Cardinality(Kept(r)) \in Nat
  BY <1>1, <1>2, RequestsAreFinite
<1>4. Cardinality(Kept(r)) <= Cardinality(zset) BY <1>1, <1>2, SubsetCountsLess
<1> QED BY <1>1, <1>2, <1>3, <1>4, LimiterAssumption DEF TypeOK

(* An admission takes one place, which was free.                           *)
LEMMA AdmissionFits ==
  ASSUME TypeOK, NEW r \in Request, HasRoom(r)
  PROVE  Cardinality(Kept(r) \cup {r}) <= Limit
<1>1. IsFiniteSet(Kept(r)) /\ Cardinality(Kept(r)) \in Nat
  BY KeptIsPart, RequestsAreFinite
<1>2. \/ Cardinality(Kept(r) \cup {r}) = Cardinality(Kept(r))
      \/ Cardinality(Kept(r) \cup {r}) = Cardinality(Kept(r)) + 1
  BY <1>1, FS_AddElement
<1> QED BY <1>1, <1>2, LimiterAssumption DEF HasRoom

(* What leaves the window by its score was admitted long enough ago.       *)
LEMMA RecentSurvives ==
  ASSUME TypeOK, StampsBounded, RecentIsKept, NEW r \in Request, Evaluable(r),
         NEW q \in Admitted, time - (Window - Skew) < admittedAt[q]
  PROVE  q \in Kept(r)
<1>1. q \in Request /\ state[q] = "admitted" BY DEF Admitted
<1>2. /\ time \in Nat /\ expires \in Nat
      /\ stamp[q] \in Nat /\ stamp[r] \in Nat /\ admittedAt[q] \in Nat
  BY <1>1 DEF TypeOK
<1>3. stamp[r] <= time + Ahead BY DEF StampsBounded, Evaluable
<1>4. admittedAt[q] - Late <= stamp[q] BY <1>1 DEF StampsBounded
<1>5. q \in zset /\ admittedAt[q] + Window <= expires BY DEF RecentIsKept
<1>6. time < expires BY <1>2, <1>5, LimiterAssumption DEF Skew
<1>7. stamp[r] - Window < stamp[q]
  BY <1>2, <1>3, <1>4, LimiterAssumption DEF Skew
<1> QED BY <1>2, <1>5, <1>6, <1>7, LimiterAssumption DEF Kept, Members

-----------------------------------------------------------------------------
(* The invariant holds initially.                                          *)
LEMMA LimiterInit == Init => LimiterInv
<1> SUFFICES ASSUME Init PROVE LimiterInv OBVIOUS
<1> USE LimiterAssumption DEF Init
<1>1. Admitted = {} BY DEF Admitted
<1>2. Cardinality({}) = 0 BY FS_EmptySet
<1>3. TypeOK
  <2>1. state \in [Request -> States] BY DEF States
  <2>2. zset \subseteq Admitted /\ Cardinality(zset) <= Limit BY <1>2
  <2>3. before \in [Request -> SUBSET Request] OBVIOUS
  <2>4. revoked \in BOOLEAN OBVIOUS
  <2>5. time \in Nat /\ Late <= time /\ expires \in Nat OBVIOUS
  <2>6. /\ stamp \in [Request -> Nat] /\ admittedAt \in [Request -> Nat]
        /\ retryAfter \in [Request -> Nat]
    OBVIOUS
  <2> HIDE DEF Init
  <2> QED BY <2>1, <2>2, <2>3, <2>4, <2>5, <2>6 DEF TypeOK
<1>4. StampsBounded BY DEF StampsBounded
<1>5. RecentIsKept BY <1>1 DEF RecentIsKept
<1>6. LimitHolds
  <2> SUFFICES ASSUME NEW t \in 0 .. time
               PROVE  Cardinality(AdmittedIn(t - (Window - Skew), t)) <= Limit
    BY DEF LimitHolds
  <2>1. AdmittedIn(t - (Window - Skew), t) = {} BY <1>1 DEF AdmittedIn
  <2> QED BY <2>1, <1>2
<1> QED BY <1>3, <1>4, <1>5, <1>6 DEF LimiterInv

(* Steps that admit nobody and take nothing out of the ZSET by a score.    *)
LEMMA QuietStep ==
  ASSUME LimiterInv, TypeOK', StampsBounded',
         Admitted' = Admitted, admittedAt' = admittedAt, expires' = expires,
         time' \in {time, time + 1}, zset' = zset
  PROVE  LimiterInv'
<1> USE LimiterAssumption DEF LimiterInv
<1>1. /\ time \in Nat /\ Admitted \subseteq Request
      /\ \A q \in Admitted : admittedAt[q] \in Nat /\ admittedAt[q] <= time
  BY DEF TypeOK, Admitted, StampsBounded
<1>2. RecentIsKept' BY <1>1 DEF RecentIsKept, Skew
<1>3. LimitHolds'
  <2> SUFFICES ASSUME NEW t \in (0 .. time)'
               PROVE  Cardinality(AdmittedIn(t - (Window - Skew), t)') <= Limit
    BY DEF LimitHolds, Skew
  <2>1. AdmittedIn(t - (Window - Skew), t)' = AdmittedIn(t - (Window - Skew), t)
    BY DEF AdmittedIn
  <2>2. CASE t \in 0 .. time BY <2>1, <2>2 DEF LimitHolds
  <2>3. CASE t = time + 1
    <3>1. AdmittedIn(t - (Window - Skew), t) \subseteq AdmittedIn(time - (Window - Skew), time)
      BY <1>1, <2>3 DEF AdmittedIn, Skew
    <3>2. AdmittedIn(time - (Window - Skew), time) \in SUBSET Request
      BY <1>1 DEF AdmittedIn
    <3>3. Cardinality(AdmittedIn(time - (Window - Skew), time)) <= Limit
      BY <1>1 DEF LimitHolds
    <3> QED BY <2>1, <3>1, <3>2, <3>3, SubsetCountsLess, RequestsAreFinite
  <2> QED BY <1>1, <2>2, <2>3
<1> QED BY <1>2, <1>3

-----------------------------------------------------------------------------
LEMMA TickStep == LimiterInv /\ Tick => LimiterInv'
<1> SUFFICES ASSUME LimiterInv, Tick PROVE LimiterInv' OBVIOUS
<1> USE LimiterAssumption DEF LimiterInv, Tick
<1>1. Admitted' = Admitted BY DEF Admitted
<1>2. TypeOK' BY <1>1 DEF TypeOK
<1>3. StampsBounded' BY DEF StampsBounded, TypeOK
<1> QED BY <1>1, <1>2, <1>3, QuietStep

LEMMA RevokeStep == LimiterInv /\ Revoke => LimiterInv'
<1> SUFFICES ASSUME LimiterInv, Revoke PROVE LimiterInv' OBVIOUS
<1> USE LimiterAssumption DEF LimiterInv, Revoke
<1>1. Admitted' = Admitted BY DEF Admitted
<1>2. TypeOK' BY <1>1 DEF TypeOK
<1>3. StampsBounded' BY DEF StampsBounded
<1> QED BY <1>1, <1>2, <1>3, QuietStep

LEMMA AuthorizeStep ==
  ASSUME NEW r \in Request
  PROVE  LimiterInv /\ Authorize(r) => LimiterInv'
<1> SUFFICES ASSUME LimiterInv, Authorize(r) PROVE LimiterInv' OBVIOUS
<1> USE LimiterAssumption DEF LimiterInv, Authorize
<1>1. Admitted' = Admitted BY DEF Admitted, TypeOK
<1>2. TypeOK' BY <1>1 DEF TypeOK, States
<1>3. StampsBounded' BY DEF StampsBounded, TypeOK
<1> QED BY <1>1, <1>2, <1>3, QuietStep

LEMMA ReadClockStep ==
  ASSUME NEW r \in Request
  PROVE  LimiterInv /\ ReadClock(r) => LimiterInv'
<1> SUFFICES ASSUME LimiterInv, ReadClock(r) PROVE LimiterInv' OBVIOUS
<1> USE LimiterAssumption DEF LimiterInv, ReadClock
<1>1. Admitted' = Admitted BY DEF Admitted, TypeOK
<1>2. PICK now \in (time - Late) .. (time + Ahead) : stamp' = [stamp EXCEPT ![r] = now]
  OBVIOUS
<1>3. now \in Nat BY DEF TypeOK
<1>4. TypeOK' BY <1>1, <1>2, <1>3 DEF TypeOK, States
<1>5. StampsBounded' BY <1>2, <1>3 DEF StampsBounded, TypeOK
<1> QED BY <1>1, <1>4, <1>5, QuietStep

-----------------------------------------------------------------------------
LEMMA AdmitStep ==
  ASSUME NEW r \in Request
  PROVE  LimiterInv /\ Admit(r) => LimiterInv'
<1> SUFFICES ASSUME LimiterInv, Admit(r) PROVE LimiterInv' OBVIOUS
<1> USE LimiterAssumption DEF LimiterInv
<1>1. Admitted' = Admitted \cup {r} /\ r \notin Admitted
  BY DEF Admitted, Admit, Evaluable, TypeOK
<1>2. Kept(r) \subseteq zset /\ Kept(r) \in SUBSET Request BY KeptIsPart
<1>3. Cardinality(Kept(r) \cup {r}) <= Limit BY AdmissionFits DEF Admit
<1>4. TypeOK' BY <1>1, <1>2, <1>3 DEF TypeOK, States, Admit
<1>5. StampsBounded' BY DEF StampsBounded, TypeOK, Admit, Evaluable
<1>6. \A q \in Admitted : /\ q # r /\ q \in Request /\ admittedAt'[q] = admittedAt[q]
                          /\ admittedAt[q] \in Nat /\ admittedAt[q] <= time
  BY <1>1 DEF Admitted, Admit, TypeOK, StampsBounded
<1>7. admittedAt'[r] = time /\ time \in Nat /\ time' = time /\ expires' = time + Window
  BY DEF Admit, TypeOK
<1>8. \A q \in Admitted : time - (Window - Skew) < admittedAt[q] => q \in Kept(r)
  BY RecentSurvives DEF Admit
<1>9. zset' = Kept(r) \cup {r} BY DEF Admit
<1>10. RecentIsKept' BY <1>1, <1>6, <1>7, <1>8, <1>9 DEF RecentIsKept, Skew
<1>11. LimitHolds'
  <2> SUFFICES ASSUME NEW t \in 0 .. time
               PROVE  Cardinality(AdmittedIn(t - (Window - Skew), t)') <= Limit
    BY <1>7 DEF LimitHolds, Skew
  <2>1. CASE t < time
    <3>1. AdmittedIn(t - (Window - Skew), t)' = AdmittedIn(t - (Window - Skew), t)
      BY <1>1, <1>6, <1>7, <2>1 DEF AdmittedIn
    <3> QED BY <3>1 DEF LimitHolds
  <2>2. CASE t = time
    <3>1. AdmittedIn(t - (Window - Skew), t)' \subseteq Kept(r) \cup {r}
      BY <1>1, <1>6, <1>7, <1>8, <2>2 DEF AdmittedIn
    <3>2. Cardinality(AdmittedIn(t - (Window - Skew), t)') <= Cardinality(Kept(r) \cup {r})
      BY <1>2, <3>1, SubsetCountsLess
    <3>3. /\ Cardinality(AdmittedIn(t - (Window - Skew), t)') \in Nat
          /\ Cardinality(Kept(r) \cup {r}) \in Nat
      BY <1>2, <3>1, RequestsAreFinite
    <3> QED BY <1>3, <3>2, <3>3
  <2> QED BY <1>7, <2>1, <2>2
<1> QED BY <1>4, <1>5, <1>10, <1>11

LEMMA DenyStep ==
  ASSUME NEW r \in Request
  PROVE  LimiterInv /\ Deny(r) => LimiterInv'
<1> SUFFICES ASSUME LimiterInv, Deny(r) PROVE LimiterInv' OBVIOUS
<1> USE LimiterAssumption DEF LimiterInv
<1>1. Admitted' = Admitted BY DEF Admitted, Deny, Evaluable, TypeOK
<1>2. /\ Kept(r) \subseteq zset /\ Kept(r) \in SUBSET Request
      /\ Cardinality(Kept(r)) <= Limit
  BY KeptIsPart
<1>3. retryAfter' \in [Request -> Nat]
  <2>1. Window \div Second \in Nat BY QuotientIsInteger
  <2>2. \A o \in Kept(r) : RetryFor(r, stamp[o]) \in Nat BY <1>2, RetryIsNatural
  <2> QED BY <2>1, <2>2 DEF Deny, TypeOK
<1>4. TypeOK' BY <1>1, <1>2, <1>3 DEF TypeOK, States, Deny, Admitted
<1>5. StampsBounded' BY DEF StampsBounded, TypeOK, Deny
<1>6. time' = time /\ admittedAt' = admittedAt /\ expires' = expires /\ zset' = Kept(r)
  BY DEF Deny
<1>7. RecentIsKept'
  <2>1. \A q \in Admitted : time - (Window - Skew) < admittedAt[q] => q \in Kept(r)
    BY RecentSurvives DEF Deny
  <2> QED BY <1>1, <1>6, <2>1 DEF RecentIsKept, Skew
<1>8. LimitHolds' BY <1>1, <1>6 DEF LimitHolds, AdmittedIn, Skew
<1> QED BY <1>4, <1>5, <1>7, <1>8

-----------------------------------------------------------------------------
(* LimiterInv is inductive: every action of the gate preserves it.         *)
LEMMA LimiterStep == LimiterInv /\ [Next]_vars => LimiterInv'
<1> SUFFICES ASSUME LimiterInv, [Next]_vars PROVE LimiterInv' OBVIOUS
<1>1. CASE Tick BY <1>1, TickStep
<1>2. CASE Revoke BY <1>2, RevokeStep
<1>3. ASSUME NEW r \in Request, Authorize(r) PROVE LimiterInv' BY <1>3, AuthorizeStep
<1>4. ASSUME NEW r \in Request, ReadClock(r) PROVE LimiterInv' BY <1>4, ReadClockStep
<1>5. ASSUME NEW r \in Request, Admit(r) PROVE LimiterInv' BY <1>5, AdmitStep
<1>6. ASSUME NEW r \in Request, Deny(r) PROVE LimiterInv' BY <1>6, DenyStep
<1>7. CASE UNCHANGED vars
  BY <1>7 DEF vars, LimiterInv, TypeOK, StampsBounded, RecentIsKept, LimitHolds,
              Admitted, AdmittedIn, Skew
<1> QED BY <1>1, <1>2, <1>3, <1>4, <1>5, <1>6, <1>7 DEF Next

(* The invariant of the gate holds in every reachable state.               *)
THEOREM LimiterInvariant == Spec => []LimiterInv
BY LimiterInit, LimiterStep, PTL DEF Spec

(* Type correctness: in particular a key's ZSET never holds more members   *)
(* than the key's limit, whatever clients do (rate_limit.py:53-54).        *)
THEOREM LimiterTypeCorrect == Spec => []TypeOK
<1>1. LimiterInv => TypeOK BY DEF LimiterInv
<1> QED BY <1>1, LimiterInvariant, PTL

(* The sliding window keeps its promise: no interval shorter than the      *)
(* window by the error of the time stamps sees more than Limit admissions  *)
(* (rate_limit.py:3-8).                                                    *)
THEOREM SlidingWindowHolds == Spec => []LimitHolds
<1>1. LimiterInv => LimitHolds BY DEF LimiterInv
<1> QED BY <1>1, LimiterInvariant, PTL
-----------------------------------------------------------------------------
(* Retry-After, rounded up, ends after the member it is computed from has  *)
(* left the window.                                                        *)
LEMMA RetryReachesPast ==
  ASSUME TypeOK, NEW r \in Request, NEW o \in Request, stamp[o] > stamp[r] - Window
  PROVE  stamp[o] + Window < stamp[r] + Second * RetryFor(r, stamp[o])
<1> DEFINE x == stamp[o] + Window - stamp[r]
           n == x \div Second
<1>1. /\ x \in Nat /\ stamp[o] \in Nat /\ stamp[r] \in Nat
      /\ Window \in Nat /\ Second \in Nat \ {0}
  BY LimiterAssumption DEF TypeOK
<1>2. n \in Nat /\ x < Second * (n + 1)
  <2> HIDE DEF x
  <2>1. x \div Second \in Nat /\ x <= (x \div Second) * Second + Second - 1
    BY <1>1
  <2> HIDE DEF n
  <2>2. n \in Nat /\ x <= n * Second + Second - 1 BY <2>1 DEF n
  <2>3. Second * (n + 1) = n * Second + Second BY <1>1, <2>2
  <2>4. n * Second \in Nat BY <1>1, <2>2
  <2> QED BY <1>1, <2>2, <2>3, <2>4
<1>3. RetryFor(r, stamp[o]) = n + 1
  <2>1. RetryFor(r, stamp[o]) = IF n + 1 < 1 THEN 1 ELSE n + 1 BY DEF RetryFor
  <2> HIDE DEF n
  <2> QED BY <1>2, <2>1
<1>4. Second * (n + 1) \in Nat
  <2> HIDE DEF n
  <2> QED BY <1>1, <1>2
<1>5. stamp[o] + Window = stamp[r] + x BY <1>1
<1>6. stamp[r] + x < stamp[r] + Second * (n + 1)
  <2> HIDE DEF n, x
  <2> QED BY <1>1, <1>2, <1>4
<1> QED BY <1>3, <1>5, <1>6

(* Two sets of which the larger has no more members are one.               *)
LEMMA FullPartIsWhole ==
  ASSUME NEW S \in SUBSET Request, NEW T \in SUBSET S, Cardinality(T) >= Cardinality(S)
  PROVE  T = S
<1>1. IsFiniteSet(S) /\ Cardinality(S) \in Nat /\ Cardinality(T) \in Nat
  BY RequestsAreFinite
<1>2. Cardinality(T) = Cardinality(S) BY <1>1, FS_Subset
<1> QED BY <1>1, <1>2, FS_Subset

LEMMA DenialsInit == Init => DenialsInv
BY DEF Init, DenialsInv, RetryAfterIsHonest

(* Steps that admit nobody and deny nobody.                                *)
LEMMA DenialsFrame ==
  ASSUME DenialsInv, Admitted' = Admitted,
         UNCHANGED <<zset, retryAfter, before>>,
         \A q \in Request : state'[q] = "denied" => state[q] = "denied" /\ stamp'[q] = stamp[q],
         \A q \in zset : stamp'[q] = stamp[q]
  PROVE  DenialsInv'
<1>1. ASSUME NEW q \in Request, state'[q] = "denied", DenialStands(q) PROVE DenialStands(q)'
  BY <1>1 DEF DenialStands
<1> QED BY <1>1 DEF DenialsInv, RetryAfterIsHonest

(* An admission is after every denial there was.                           *)
LEMMA DenialsAdmit ==
  ASSUME LimiterInv, DenialsInv, NEW r \in Request, Admit(r)
  PROVE  DenialsInv'
<1>1. Admitted' = Admitted \cup {r} /\ r \notin Admitted
  BY DEF LimiterInv, Admitted, Admit, Evaluable, TypeOK
<1>2. /\ \A q \in Request : state'[q] = "denied" => state[q] = "denied"
      /\ UNCHANGED <<stamp, retryAfter, before>>
  BY DEF LimiterInv, Admit, TypeOK
<1> QED BY <1>1, <1>2 DEF DenialsInv, RetryAfterIsHonest

(* A denial while another stands sees the same members; whichever of the   *)
(* two stamps is the later one, it does not reach the other's Retry-After. *)
LEMMA DenialsDeny ==
  ASSUME LimiterInv, DenialsInv, NEW r \in Request, Deny(r)
  PROVE  DenialsInv'
<1>1. TypeOK /\ zset \in SUBSET Request /\ Cardinality(zset) <= Limit
  BY DEF LimiterInv, TypeOK, Admitted
<1>2. Kept(r) \subseteq zset /\ Kept(r) \in SUBSET Request /\ Cardinality(Kept(r)) \in Nat
  BY <1>1, KeptIsPart
<1>3. Cardinality(Kept(r)) >= Limit BY <1>2, LimiterAssumption DEF Deny, HasRoom
<1>4. Admitted' = Admitted BY <1>1 DEF Admitted, Deny, Evaluable, TypeOK
<1>5. /\ zset' = Kept(r) /\ stamp' = stamp
      /\ before'[r] = Admitted /\ \A q \in Request \ {r} : before'[q] = before[q]
      /\ \A q \in Request \ {r} : state'[q] = state[q]
      /\ \A q \in Request \ {r} : retryAfter'[q] = retryAfter[q]
      /\ state[r] # "denied"
  BY <1>1 DEF Deny, Evaluable, TypeOK
<1>6. \A o \in Kept(r) : stamp[o] > stamp[r] - Window BY DEF Kept
<1> SUFFICES ASSUME Limit > 0 PROVE DenialsInv'
  BY DEF DenialsInv, RetryAfterIsHonest
<1>7. Kept(r) # {}
  <2> SUFFICES ASSUME Kept(r) = {} PROVE FALSE OBVIOUS
  <2>1. Cardinality(Kept(r)) = 0 BY FS_EmptySet
  <2> QED BY <1>3, <2>1, LimiterAssumption
<1>8. PICK o \in Kept(r) : retryAfter' = [retryAfter EXCEPT ![r] = RetryFor(r, stamp[o])]
  BY <1>7 DEF Deny
<1>9. retryAfter'[r] = RetryFor(r, stamp[o]) BY <1>1, <1>8 DEF TypeOK
<1>10. o \in Request BY <1>2
<1>11. stamp[o] + Window < stamp[r] + Second * retryAfter'[r]
  BY <1>1, <1>6, <1>9, <1>10, RetryReachesPast
<1>12. DenialStands(r)' BY <1>3, <1>5, <1>6, <1>11 DEF DenialStands
<1>13. ASSUME NEW q \in Request \ {r}, state[q] = "denied", before[q] = Admitted
       PROVE  /\ DenialStands(q)
              /\ zset = Kept(r)
  <2>1. DenialStands(q) BY <1>13 DEF DenialsInv
  <2>2. Cardinality(zset) \in Nat BY <1>1, RequestsAreFinite
  <2>3. Cardinality(Kept(r)) >= Cardinality(zset) BY <1>1, <1>2, <1>3, <2>2, LimiterAssumption
  <2> QED BY <1>1, <1>2, <2>1, <2>3, FullPartIsWhole
<1>14. ASSUME NEW q \in Request, state'[q] = "denied"
       PROVE  /\ before'[q] \subseteq Admitted'
              /\ before'[q] = Admitted' => DenialStands(q)'
  <2>1. CASE q = r BY <1>4, <1>5, <1>12, <2>1
  <2>2. CASE q # r
    <3>1. before'[q] \subseteq Admitted' BY <1>4, <1>5, <1>14, <2>2 DEF DenialsInv
    <3>2. ASSUME before'[q] = Admitted' PROVE DenialStands(q)'
      <4>1. DenialStands(q) /\ zset = Kept(r) BY <1>4, <1>5, <1>13, <1>14, <2>2, <3>2
      <4> QED BY <1>5, <2>2, <4>1 DEF DenialStands
    <3> QED BY <3>1, <3>2
  <2> QED BY <2>1, <2>2
<1>15. ASSUME NEW p \in Request, NEW q \in Request, DenialStands(p)', DenialStands(q)'
       PROVE  ~(stamp[q] >= stamp[p] + Second * retryAfter'[p])
  <2>1. PICK m \in Kept(r) : stamp[m] + Window < stamp[p] + Second * retryAfter'[p]
    BY <1>5, <1>15 DEF DenialStands
  <2>2. stamp[m] > stamp[q] - Window BY <1>5, <1>15 DEF DenialStands
  <2>3. stamp[m] \in Nat /\ stamp[p] \in Nat /\ stamp[q] \in Nat /\ Window \in Nat
    BY <1>1, <1>2, LimiterAssumption DEF TypeOK
  <2>4. Second * retryAfter'[p] \in Nat
    <3>1. retryAfter'[p] \in Nat
      BY <1>1, <1>5, <1>9, <1>10, RetryIsNatural DEF TypeOK
    <3> QED BY <3>1, LimiterAssumption
  <2> QED BY <2>1, <2>2, <2>3, <2>4
<1>16. RetryAfterIsHonest'
  <2> SUFFICES ASSUME NEW p \in Request, NEW q \in Request,
                      state'[p] = "denied", state'[q] = "denied",
                      stamp[q] >= stamp[p] + Second * retryAfter'[p],
                      before'[p] = before'[q]
               PROVE  FALSE
    BY <1>5 DEF RetryAfterIsHonest
  <2>1. CASE p = r \/ q = r
    <3>1. before'[p] = Admitted' /\ before'[q] = Admitted' BY <1>4, <1>5, <2>1
    <3> QED BY <1>14, <1>15, <3>1
  <2>2. CASE p # r /\ q # r
    BY <1>5, <2>2 DEF DenialsInv, RetryAfterIsHonest
  <2> QED BY <2>1, <2>2
<1> QED BY <1>14, <1>16 DEF DenialsInv

LEMMA DenialsStep == LimiterInv /\ DenialsInv /\ [Next]_vars => DenialsInv'
<1> SUFFICES ASSUME LimiterInv, DenialsInv, [Next]_vars PROVE DenialsInv' OBVIOUS
<1>1. TypeOK /\ zset \subseteq Admitted BY DEF LimiterInv, TypeOK
<1>2. CASE Tick \/ Revoke \/ UNCHANGED vars
  <2>1. UNCHANGED <<zset, retryAfter, before, state, stamp>>
    BY <1>2 DEF Tick, Revoke, vars
  <2>2. Admitted' = Admitted BY <2>1 DEF Admitted
  <2> QED BY <2>1, <2>2, DenialsFrame
<1>3. ASSUME NEW r \in Request, Authorize(r) PROVE DenialsInv'
  <2>1. Admitted' = Admitted BY <1>1, <1>3 DEF Admitted, Authorize, TypeOK
  <2>2. \A q \in Request : state'[q] = "denied" => state[q] = "denied"
    BY <1>1, <1>3 DEF Authorize, TypeOK
  <2> QED BY <1>3, <2>1, <2>2, DenialsFrame DEF Authorize
<1>4. ASSUME NEW r \in Request, ReadClock(r) PROVE DenialsInv'
  <2>1. Admitted' = Admitted BY <1>1, <1>4 DEF Admitted, ReadClock, TypeOK
  <2>2. \A q \in Request \ {r} : stamp'[q] = stamp[q] /\ state'[q] = state[q]
    BY <1>1, <1>4 DEF ReadClock, TypeOK
  <2>3. state'[r] = "stamped" /\ r \notin zset
    BY <1>1, <1>4 DEF ReadClock, TypeOK, Admitted
  <2>4. \A q \in zset : stamp'[q] = stamp[q] BY <1>1, <2>2, <2>3 DEF Admitted
  <2>5. \A q \in Request : state'[q] = "denied" => state[q] = "denied" /\ stamp'[q] = stamp[q]
    BY <2>2, <2>3
  <2> QED BY <1>4, <2>1, <2>4, <2>5, DenialsFrame DEF ReadClock
<1>5. ASSUME NEW r \in Request, Admit(r) PROVE DenialsInv' BY <1>5, DenialsAdmit
<1>6. ASSUME NEW r \in Request, Deny(r) PROVE DenialsInv' BY <1>6, DenialsDeny
<1> QED BY <1>2, <1>3, <1>4, <1>5, <1>6 DEF Next

(* RetryAfterIsHonest, for any number of requests and any error of their   *)
(* time stamps: whoever waits for Retry-After is denied again only if the  *)
(* key was used meanwhile (rate_limit.py:34-39, 60-61).                    *)
THEOREM RetryAfterKeepsItsWord == Spec => []RetryAfterIsHonest
<1>1. DenialsInv => RetryAfterIsHonest BY DEF DenialsInv
<1> QED BY <1>1, DenialsInit, DenialsStep, LimiterInvariant, PTL DEF Spec
=============================================================================
