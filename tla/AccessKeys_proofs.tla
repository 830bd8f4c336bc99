-------------------------- MODULE AccessKeys_proofs --------------------------
(***************************************************************************)
(* What AccessKeys promises, proved for any number of requests and of      *)
(* create-key commands and any size of the pool. AccessInv, of module      *)
(* AccessKeys, is inductive.                                               *)
(***************************************************************************)
EXTENDS AccessKeys, FiniteSetTheorems, TLAPS

(* What no step ever does to a row: delete it, change its bits or who      *)
(* ordered it, or bring it back into force.                                *)
RowsGrow ==
  \A k \in DOMAIN rows :
    /\ k \in DOMAIN rows'
    /\ rows'[k].permissions = rows[k].permissions /\ rows'[k].by = rows[k].by
    /\ rows[k].revoked => rows'[k].revoked

Same(q) ==
  /\ pc'[q] = pc[q] /\ ask'[q] = ask[q] /\ cred'[q] = cred[q]
  /\ answer'[q] = answer[q] /\ wasActive'[q] = wasActive[q] /\ fresh'[q] = fresh[q]

LEMMA NoKeyIsNotStored == TypeOK => ~Stored(NoKey)
<1> SUFFICES ASSUME TypeOK, Stored(NoKey) PROVE FALSE OBVIOUS
<1>1. 0 \in 1 .. drawn BY DEF TypeOK, Stored, NoKey
<1> QED BY <1>1

LEMMA DrawnAreKeys == TypeOK => drawn \in Nat /\ 1 .. drawn \subseteq Keys
<1> SUFFICES ASSUME TypeOK PROVE drawn \in Nat /\ 1 .. drawn \subseteq Keys OBVIOUS
<1>1. Cardinality(Requests) \in Nat BY AccessAssumption, FS_CardinalityType
<1>2. 1 + MaxCommands + Cardinality(Requests) \in Nat BY <1>1, AccessAssumption
<1>3. drawn \in 1 .. 1 + MaxCommands + Cardinality(Requests) BY DEF TypeOK, Keys
<1> QED BY <1>2, <1>3 DEF Keys

(* A request that does not move keeps its invariant, whatever happens to   *)
(* the rows.                                                               *)
LEMMA RequestFrame ==
  ASSUME NEW q \in Requests, RowsGrow, Same(q), RequestInv(q), TypeOK'
  PROVE  RequestInv(q)'
<1>1. ~Stored(NoKey)' BY NoKeyIsNotStored, PTL
<1>2. \A k : Stored(k) => Stored(k)' BY DEF RowsGrow, Stored
<1>3. \A k, bits : Stored(k) /\ Holds(k, bits) => Holds(k, bits)' BY DEF RowsGrow, Stored, Holds
<1>4. \A k, bits : Stored(k) /\ Holds(k, bits)' => Holds(k, bits) BY DEF RowsGrow, Stored, Holds
<1>5. \A k : Stored(k) /\ InForce(k)' => InForce(k) BY DEF RowsGrow, Stored, InForce
<1>6. \A k : InForce(k)' => Stored(k)' BY DEF InForce
<1> QED BY <1>1, <1>2, <1>3, <1>4, <1>5, <1>6 DEF RequestInv, AnswerIsEarned, Same, RowsGrow, Stored

(* A row keeps its invariant while the request that ordered it stands.     *)
LEMMA RowFrame ==
  ASSUME NEW k \in DOMAIN rows, RowsGrow, RowInv(k), TypeOK,
         \A q \in Requests : RequestInv(q),
         DOMAIN shown \subseteq DOMAIN shown',
         \A q \in Requests : rows[k].by = q /\ pc[q] \in {"reply", "done"} => Same(q)
  PROVE  RowInv(k)'
<1> SUFFICES ASSUME rows'[k].by # Cli PROVE RowInv(k)' BY DEF RowInv
<1>1. rows'[k].by = rows[k].by BY DEF RowsGrow
<1>2. PICK r \in Requests : r = rows[k].by BY <1>1 DEF TypeOK, Row
<1>3. /\ fresh[r] = k /\ pc[r] \in {"reply", "done"}
      /\ wasActive[r] /\ Holds(cred[r], Bits) /\ ask[r].sameOrigin
      /\ k \in DOMAIN shown \/ pc[r] = "reply" \/ answer[r] \in {"500", "lost"}
  BY <1>1, <1>2 DEF RowInv
<1>4. Same(r) BY <1>2, <1>3
<1>5. Stored(cred[r]) BY <1>3 DEF RequestInv
<1>6. Holds(cred[r], Bits)' BY <1>3, <1>4, <1>5 DEF Holds, Stored, RowsGrow, Same
<1> QED BY <1>1, <1>2, <1>3, <1>4, <1>6 DEF RowInv, Same

(* One request moves: what is left is its own part, the rows it has        *)
(* ordered or adds, and the keys together.                                 *)
LEMMA OneMoves ==
  ASSUME AccessInv, TypeOK', RowsGrow, DOMAIN shown \subseteq DOMAIN shown',
         NEW r \in Requests, \A q \in Requests \ {r} : Same(q), RequestInv(r)',
         pc[r] \in {"reply", "done"} => \A k \in DOMAIN rows : rows[k].by = r => RowInv(k)',
         \A k \in DOMAIN rows' \ DOMAIN rows : RowInv(k)',
         KeysInv'
  PROVE  AccessInv'
<1>1. \A q \in Requests \ {r} : RequestInv(q)' BY RequestFrame DEF AccessInv
<1>2. ASSUME NEW k \in DOMAIN rows PROVE RowInv(k)'
  <2>1. CASE rows[k].by = r /\ pc[r] \in {"reply", "done"} BY <2>1
  <2>2. CASE ~(rows[k].by = r /\ pc[r] \in {"reply", "done"})
    BY <2>2, RowFrame DEF AccessInv
  <2> QED BY <2>1, <2>2
<1> QED BY <1>1, <1>2 DEF AccessInv

(* No request moves.                                                       *)
LEMMA NoneMoves ==
  ASSUME AccessInv, TypeOK', RowsGrow, DOMAIN shown \subseteq DOMAIN shown',
         \A q \in Requests : Same(q),
         \A k \in DOMAIN rows' \ DOMAIN rows : RowInv(k)',
         KeysInv'
  PROVE  AccessInv'
<1>1. \A q \in Requests : RequestInv(q)' BY RequestFrame DEF AccessInv
<1>2. \A k \in DOMAIN rows : RowInv(k)' BY RowFrame DEF AccessInv
<1> QED BY <1>1, <1>2 DEF AccessInv

(* The keys together, for the steps that draw none and show none.          *)
LEMMA KeysFrame ==
  ASSUME KeysInv, RowsGrow, UNCHANGED <<drawn, fresh, shown, cli>>,
         \A r \in Issuing : Stored(fresh[r])' => Stored(fresh[r]) \/ rows'[fresh[r]].by = r
  PROVE  KeysInv'
<1>1. Issuing' = Issuing BY DEF Issuing
<1>2. \A k : Stored(k) => Stored(k)' BY DEF RowsGrow, Stored
<1>3. \A k \in DOMAIN shown : Stored(k)' /\ rows'[k].permissions = Permissions(shown[k])
  BY DEF KeysInv, RowsGrow, Stored
<1>4. \A r \in Issuing : Stored(fresh[r])' => rows'[fresh[r]].by = r
  BY DEF KeysInv, RowsGrow, Stored
<1>5. cli # NoCommand => Stored(cli.key)' /\ rows'[cli.key].permissions = Permissions(cli.role)
  BY DEF KeysInv, RowsGrow, Stored
<1> QED BY <1>1, <1>3, <1>4, <1>5 DEF KeysInv

LEMMA KeysUnchanged ==
  ASSUME KeysInv, UNCHANGED <<rows, drawn, fresh, shown, cli>>
  PROVE  KeysInv'
BY DEF KeysInv, Issuing, Stored

LEMMA NewRowIsRow ==
  ASSUME NEW role \in Roles, NEW who \in Requests \cup {Cli}
  PROVE  RowOf(role, who) \in Row
<1>1. Permissions(role) \subseteq Bits
  <2>1. CASE role = "admin" BY <2>1 DEF Permissions
  <2>2. CASE role = "maintenance" BY <2>2 DEF Permissions, Bits
  <2>3. CASE role = "api_only" BY <2>3 DEF Permissions
  <2> QED BY <2>1, <2>2, <2>3 DEF Roles
<1> QED BY <1>1 DEF RowOf, Row

(* A new row.                                                              *)
LEMMA NewRow ==
  ASSUME TypeOK, NEW k \in 1 .. drawn', ~Stored(k), drawn <= drawn', drawn' \in Nat,
         NEW role \in Roles, NEW who \in Requests \cup {Cli},
         rows' = WithRow(k, RowOf(role, who))
  PROVE  /\ RowsGrow /\ DOMAIN rows' = DOMAIN rows \cup {k}
         /\ DOMAIN rows' \subseteq 1 .. drawn' /\ \A j \in DOMAIN rows' : rows'[j] \in Row
         /\ rows'[k] = [permissions |-> Permissions(role), revoked |-> FALSE, by |-> who]
<1>2. RowOf(role, who) \in Row BY NewRowIsRow
<1>3. DOMAIN rows' = DOMAIN rows \cup {k} BY DEF WithRow
<1>4. \A j \in DOMAIN rows' : rows'[j] = IF j = k THEN RowOf(role, who) ELSE rows[j]
  BY <1>3 DEF WithRow
<1>5. DOMAIN rows' \subseteq 1 .. drawn' BY <1>3, AccessAssumption DEF TypeOK, Keys
<1>6. \A j \in DOMAIN rows : j # k BY DEF Stored
<1> QED BY <1>2, <1>3, <1>4, <1>5, <1>6 DEF RowsGrow, TypeOK, RowOf

LEMMA HeldIsFinite == TypeOK => IsFiniteSet(held) /\ Cardinality(held) \in Nat
<1> SUFFICES ASSUME TypeOK PROVE IsFiniteSet(held) /\ Cardinality(held) \in Nat OBVIOUS
<1>1. IsFiniteSet({"lookup", "handler"})
  <2>1. IsFiniteSet({"lookup"}) BY FS_Singleton
  <2>2. IsFiniteSet({"lookup"} \cup {"handler"}) BY <2>1, FS_AddElement
  <2>3. {"lookup", "handler"} = {"lookup"} \cup {"handler"} OBVIOUS
  <2> QED BY <2>2, <2>3
<1>2. IsFiniteSet(Requests \X {"lookup", "handler"}) BY <1>1, FS_Product, AccessAssumption
<1>3. held \in SUBSET (Requests \X {"lookup", "handler"}) BY DEF TypeOK
<1>4. IsFiniteSet(held) BY <1>2, <1>3, FS_Subset
<1> QED BY <1>4, FS_CardinalityType

(* Connections that go back.                                               *)
LEMMA HeldShrinks ==
  ASSUME TypeOK, held' \subseteq held
  PROVE  held' \subseteq Requests \X {"lookup", "handler"} /\ Cardinality(held') <= PoolSize
<1> USE AccessAssumption
<1>1. IsFiniteSet(held) BY HeldIsFinite
<1>2. IsFiniteSet(held') /\ Cardinality(held') <= Cardinality(held) BY <1>1, FS_Subset
<1>3. Cardinality(held) \in Int /\ Cardinality(held') \in Int BY <1>1, <1>2, FS_CardinalityType
<1>4. Cardinality(held) <= PoolSize /\ held \subseteq Requests \X {"lookup", "handler"} BY DEF TypeOK
<1> QED BY <1>2, <1>3, <1>4
-----------------------------------------------------------------------------
LEMMA AccessInit == Init => AccessInv
<1> SUFFICES ASSUME Init PROVE AccessInv OBVIOUS
<1> USE AccessAssumption DEF Init
<1>1. DOMAIN rows = {1} /\ rows[1] = [permissions |-> Bits, revoked |-> FALSE, by |-> Cli]
  BY DEF RowOf, Permissions
<1>2. DOMAIN shown = {1} /\ shown[1] = "admin" OBVIOUS
<1>3. Cardinality(Requests) \in Nat BY FS_CardinalityType
<1>4. TypeOK
  <2>1. drawn \in Keys BY <1>3 DEF Keys
  <2>2. 1 .. drawn = {1} OBVIOUS
  <2>3. rows[1] \in Row
    <3>1. rows[1] = RowOf("admin", Cli) OBVIOUS
    <3>2. "admin" \in Roles BY DEF Roles
    <3> QED BY <3>1, <3>2, NewRowIsRow
  <2>4. DOMAIN rows \subseteq 1 .. drawn /\ \A k \in DOMAIN rows : rows[k] \in Row
    BY <1>1, <2>2, <2>3
  <2>5. DOMAIN shown \subseteq 1 .. drawn /\ \A k \in DOMAIN shown : shown[k] \in Roles
    BY <1>2, <2>2 DEF Roles
  <2>6. Cardinality(held) <= PoolSize BY FS_EmptySet
  <2>7. cli \in [key : 0 .. drawn, role : Roles] BY DEF NoCommand, NoKey, Roles
  <2> QED BY <2>1, <2>4, <2>5, <2>6, <2>7 DEF TypeOK, NoKey
<1>5. \A r \in Requests : RequestInv(r) BY DEF RequestInv, AnswerIsEarned
<1>6. \A k \in DOMAIN rows : RowInv(k) BY <1>1 DEF RowInv
<1>7. KeysInv
  <2>1. Issuing = {} BY DEF Issuing
  <2>2. Cardinality(Issuing) = 0 BY <2>1, FS_EmptySet
  <2> QED BY <1>1, <1>2, <2>1, <2>2 DEF KeysInv, Stored, Permissions
<1> QED BY <1>4, <1>5, <1>6, <1>7 DEF AccessInv
-----------------------------------------------------------------------------
(* The steps of a request that leave the table alone.                      *)
LEMMA SendKeeps ==
  ASSUME AccessInv, NEW r \in Requests, Send(r)
  PROVE  AccessInv'
<1> USE AccessAssumption DEF Send
<1>1. TypeOK'
  <2>1. TypeOK BY DEF AccessInv
  <2>2. PICK k \in DOMAIN shown \cup {NoKey} : cred' = [cred EXCEPT ![r] = k] OBVIOUS
  <2>3. k \in Keys \cup {NoKey} BY <2>1, DrawnAreKeys DEF TypeOK
  <2>4. cred' \in [Requests -> Keys \cup {NoKey}] BY <2>1, <2>2, <2>3 DEF TypeOK
  <2>5. wasActive' \in [Requests -> BOOLEAN] BY <2>1 DEF TypeOK, InForce
  <2>6. ask' \in [Requests -> Asks \cup {NoAsk}] BY <2>1 DEF TypeOK
  <2>7. pc' \in [Requests -> {"new", "auth", "lookup", "act", "statement", "reply", "done"}]
    BY <2>1 DEF TypeOK
  <2> QED BY <2>1, <2>4, <2>5, <2>6, <2>7 DEF TypeOK, Keys, Row
<1>2. RowsGrow BY DEF RowsGrow
<1>3. \A q \in Requests \ {r} : Same(q) BY DEF AccessInv, TypeOK, Same
<1>4. KeysInv' BY KeysUnchanged DEF AccessInv
<1>5. PICK k \in DOMAIN shown \cup {NoKey} : cred'[r] = k /\ wasActive'[r] = InForce(k)
  BY DEF AccessInv, TypeOK
<1>6. pc'[r] = "auth" /\ answer'[r] = "none" /\ fresh'[r] = NoKey
  BY DEF AccessInv, TypeOK, RequestInv
<1>7. RequestInv(r)' BY <1>5, <1>6 DEF RequestInv, AnswerIsEarned, AccessInv, KeysInv, InForce, Stored
<1> QED BY <1>1, <1>2, <1>3, <1>4, <1>7, OneMoves

LEMMA AcquireKeeps ==
  ASSUME AccessInv, NEW r \in Requests, Acquire(r)
  PROVE  AccessInv'
<1> USE AccessAssumption DEF Acquire
<1>1. TypeOK' 
  <2>1. PICK w \in {"lookup", "handler"} : held' = held \cup {<<r, w>>} OBVIOUS
  <2>2. IsFiniteSet(held) /\ Cardinality(held) \in Nat BY HeldIsFinite DEF AccessInv
  <2>3. Cardinality(held') = Cardinality(held) \/ Cardinality(held') = Cardinality(held) + 1
    <3>1. CASE <<r, w>> \in held
      <4>1. held' = held BY <2>1, <3>1
      <4> QED BY <4>1
    <3>2. CASE <<r, w>> \notin held BY <2>1, <2>2, <3>2, FS_AddElement
    <3> QED BY <3>1, <3>2
  <2>4. Cardinality(held) < PoolSize BY DEF FreeConnection
  <2>5. Cardinality(held') <= PoolSize BY <2>2, <2>3, <2>4 DEF FreeConnection
  <2>6. held' \subseteq Requests \X {"lookup", "handler"} BY <2>1 DEF AccessInv, TypeOK
  <2>7. pc' \in [Requests -> {"new", "auth", "lookup", "act", "statement", "reply", "done"}]
    BY DEF AccessInv, TypeOK
  <2> QED BY <2>5, <2>6, <2>7 DEF AccessInv, TypeOK
<1>2. RowsGrow BY DEF RowsGrow
<1>3. \A q \in Requests \ {r} : Same(q) BY DEF AccessInv, TypeOK, Same
<1>4. KeysInv' BY KeysUnchanged DEF AccessInv
<1>5. RequestInv(r)'
  <2>1. CASE pc[r] = "auth" /\ pc'[r] = "lookup"
    BY <2>1 DEF RequestInv, AnswerIsEarned, AccessInv, TypeOK, InForce, Stored, Holds
  <2>2. CASE pc[r] = "act" /\ pc'[r] = "statement"
    BY <2>2 DEF RequestInv, AnswerIsEarned, AccessInv, TypeOK, InForce, Stored, Holds
  <2> QED BY <2>1, <2>2 DEF AccessInv, TypeOK
<1> QED BY <1>1, <1>2, <1>3, <1>4, <1>5, OneMoves DEF AccessInv
(* What the checks of a request leave behind: its key is stored, was       *)
(* active when it was sent and has the bits of the route.                  *)
LEMMA Earned ==
  ASSUME AccessInv, NEW r \in Requests, Authorized(r)
  PROVE  wasActive[r] /\ Holds(cred[r], Required(ask[r].route))
         /\ (ask[r].route = "issue" => ask[r].sameOrigin)
<1>1. Stored(cred[r]) /\ rows[cred[r]].revoked = FALSE
  BY DEF Authorized, Unauthorized, ActiveKey
<1>2. wasActive[r] BY <1>1 DEF AccessInv, RequestInv, InForce, Authorized
<1> QED BY <1>2 DEF Authorized, Forbidden, HasAll, Holds

LEMMA RejectKeeps ==
  ASSUME AccessInv, NEW r \in Requests, Reject(r)
  PROVE  AccessInv'
<1> USE DEF Reject, Answer
<1>1. TypeOK'
  <2>1. held' \subseteq Requests \X {"lookup", "handler"} /\ Cardinality(held') <= PoolSize
    BY HeldShrinks DEF AccessInv, Released
  <2> QED BY <2>1 DEF AccessInv, TypeOK, Keys, Row
<1>2. RowsGrow BY DEF RowsGrow
<1>3. \A q \in Requests \ {r} : Same(q) BY DEF AccessInv, TypeOK, Same
<1>4. KeysInv' BY KeysUnchanged DEF AccessInv
<1>5. pc'[r] = "done" /\ fresh[r] = NoKey BY DEF AccessInv, TypeOK, RequestInv
<1>6. RequestInv(r) BY DEF AccessInv
<1>7. RequestInv(r)'
  <2>1. CASE Unauthorized(r) /\ answer'[r] = "401"
    <3>1. ~(InForce(cred[r]) /\ Holds(cred[r], EntryBits(ask[r].route)))
      <4> SUFFICES ASSUME InForce(cred[r]), Holds(cred[r], EntryBits(ask[r].route)) PROVE FALSE
        OBVIOUS
      <4>1. ActiveKey(cred[r]) BY DEF InForce, ActiveKey, Stored, AccessInv, TypeOK, Row
      <4>2. ask[r].route # "api" /\ ~HasAny(cred[r], {"ADMIN_READ"}) BY <2>1, <4>1 DEF Unauthorized
      <4> QED BY <4>2 DEF EntryBits, HasAny, Holds
    <3> QED BY <2>1, <3>1, <1>5, <1>6 DEF RequestInv, AnswerIsEarned, InForce, Stored, Holds
  <2>2. CASE ~Unauthorized(r) /\ Forbidden(r) /\ answer'[r] = "403"
    <3>1. ActiveKey(cred[r]) BY <2>2 DEF Unauthorized
    <3>2. wasActive[r] BY <3>1, <1>6 DEF RequestInv, InForce, ActiveKey
    <3>3. Holds(cred[r], {"ADMIN_READ"})
      <4>1. CASE ask[r].route = "api"
        BY <4>1, <2>2 DEF Forbidden, HasAll, Required
      <4>2. CASE ask[r].route # "api" BY <4>2, <2>2 DEF Unauthorized, HasAny, Holds
      <4> QED BY <4>1, <4>2
    <3>4. ~Holds(cred[r], Required(ask[r].route)) \/ (ask[r].route = "issue" /\ ~ask[r].sameOrigin)
      BY <2>2 DEF Forbidden, HasAll, Holds
    <3> QED BY <2>2, <3>2, <3>3, <3>4, <1>5, <1>6 DEF RequestInv, AnswerIsEarned, InForce, Stored, Holds
  <2> QED BY <2>1, <2>2 DEF AccessInv, TypeOK
<1> QED BY <1>1, <1>2, <1>3, <1>4, <1>7, OneMoves DEF AccessInv

LEMMA ServeKeeps ==
  ASSUME AccessInv, NEW r \in Requests, Serve(r)
  PROVE  AccessInv'
<1> USE DEF Serve, Answer
<1>1. TypeOK'
  <2>1. held' \subseteq Requests \X {"lookup", "handler"} /\ Cardinality(held') <= PoolSize
    BY HeldShrinks DEF AccessInv, Released
  <2> QED BY <2>1 DEF AccessInv, TypeOK, Keys, Row
<1>2. RowsGrow BY DEF RowsGrow
<1>3. \A q \in Requests \ {r} : Same(q) BY DEF AccessInv, TypeOK, Same
<1>4. KeysInv' BY KeysUnchanged DEF AccessInv
<1>5. pc[r] = "lookup" /\ pc'[r] = "done" /\ answer'[r] = "200" /\ fresh[r] = NoKey
  BY DEF AccessInv, TypeOK, RequestInv, Authorized
<1>6. RequestInv(r) BY DEF AccessInv
<1>7. RequestInv(r)' BY <1>5, <1>6, Earned DEF RequestInv, AnswerIsEarned, InForce, Stored, Holds
<1> QED BY <1>1, <1>2, <1>3, <1>4, <1>5, <1>7, OneMoves DEF AccessInv

LEMMA StartListKeeps ==
  ASSUME AccessInv, NEW r \in Requests, StartList(r)
  PROVE  AccessInv'
<1> USE DEF StartList
<1>1. TypeOK'
  <2>1. held' \subseteq Requests \X {"lookup", "handler"} /\ Cardinality(held') <= PoolSize
    BY HeldShrinks DEF AccessInv, GivenBack
  <2> QED BY <2>1 DEF AccessInv, TypeOK, Keys, Row
<1>2. RowsGrow BY DEF RowsGrow
<1>3. \A q \in Requests \ {r} : Same(q) BY DEF AccessInv, TypeOK, Same
<1>4. KeysInv' BY KeysUnchanged DEF AccessInv
<1>5. pc[r] = "lookup" /\ pc'[r] = "act" /\ fresh[r] = NoKey
  BY DEF AccessInv, TypeOK, RequestInv, Authorized
<1>6. RequestInv(r) BY DEF AccessInv
<1>7. wasActive[r] /\ Holds(cred[r], Bits) BY Earned DEF Required
<1>8. RequestInv(r)' BY <1>5, <1>6, <1>7 DEF RequestInv, AnswerIsEarned, InForce, Stored, Holds
<1> QED BY <1>1, <1>2, <1>3, <1>4, <1>5, <1>8, OneMoves DEF AccessInv

LEMMA ListKeeps ==
  ASSUME AccessInv, NEW r \in Requests, List(r)
  PROVE  AccessInv'
<1> USE DEF List, Answer
<1>1. TypeOK'
  <2>1. held' \subseteq Requests \X {"lookup", "handler"} /\ Cardinality(held') <= PoolSize
    BY HeldShrinks DEF AccessInv, Released
  <2> QED BY <2>1 DEF AccessInv, TypeOK, Keys, Row
<1>2. RowsGrow BY DEF RowsGrow
<1>3. \A q \in Requests \ {r} : Same(q) BY DEF AccessInv, TypeOK, Same
<1>4. KeysInv' BY KeysUnchanged DEF AccessInv
<1>5. pc'[r] = "done" /\ answer'[r] = "200" BY DEF AccessInv, TypeOK
<1>6. RequestInv(r) BY DEF AccessInv
<1>7. RequestInv(r)' BY <1>5, <1>6 DEF RequestInv, AnswerIsEarned, InForce, Stored, Holds, Required
<1> QED BY <1>1, <1>2, <1>3, <1>4, <1>5, <1>7, OneMoves DEF AccessInv
-----------------------------------------------------------------------------
(* The steps that draw, store, show or revoke a key.                       *)

LEMMA IssuingIsFinite ==
  /\ IsFiniteSet(Issuing) /\ Cardinality(Issuing) \in Nat
  /\ Cardinality(Issuing) <= Cardinality(Requests) /\ Cardinality(Requests) \in Nat
<1>1. IsFiniteSet(Issuing) /\ Cardinality(Issuing) <= Cardinality(Requests)
  BY FS_Subset, AccessAssumption DEF Issuing
<1> QED BY <1>1, FS_CardinalityType, AccessAssumption

(* A key that no row and no request has.                                   *)
LEMMA NextKey ==
  ASSUME TypeOK, drawn < 1 + MaxCommands + Cardinality(Requests), drawn' = drawn + 1
  PROVE  /\ drawn' \in Keys /\ drawn' \in 1 .. drawn' /\ 1 .. drawn \subseteq 1 .. drawn'
         /\ drawn' \notin 0 .. drawn /\ 0 .. drawn \subseteq 0 .. drawn'
         /\ ~Stored(drawn') /\ drawn' \notin DOMAIN shown
<1>1. Cardinality(Requests) \in Nat BY AccessAssumption, FS_CardinalityType
<1>2. drawn \in Nat BY DrawnAreKeys
<1>3. MaxCommands \in Nat BY AccessAssumption
<1>4. drawn' \in 1 .. 1 + MaxCommands + Cardinality(Requests) BY <1>1, <1>2, <1>3
<1>5. drawn' \in 1 .. drawn' /\ 1 .. drawn \subseteq 1 .. drawn' BY <1>2
<1>6. drawn' \notin 0 .. drawn /\ 0 .. drawn \subseteq 0 .. drawn' BY <1>2
<1>7. drawn' \notin 1 .. drawn BY <1>2
<1>8. DOMAIN rows \subseteq 1 .. drawn /\ DOMAIN shown \subseteq 1 .. drawn BY DEF TypeOK
<1> QED BY <1>4, <1>5, <1>6, <1>7, <1>8 DEF Keys, Stored

LEMMA StartIssueKeeps ==
  ASSUME AccessInv, NEW r \in Requests, StartIssue(r)
  PROVE  AccessInv'
<1> USE DEF StartIssue
<1>1. pc[r] = "lookup" /\ pc'[r] = "act" /\ fresh[r] = NoKey /\ fresh'[r] = drawn'
  BY DEF AccessInv, TypeOK, RequestInv, Authorized
<1>2. drawn \in Nat BY DrawnAreKeys DEF AccessInv
<1>3. drawn' # NoKey BY <1>2 DEF NoKey
<1>4. Issuing' = Issuing \cup {r} /\ r \notin Issuing
  BY <1>1, <1>3 DEF Issuing, AccessInv, TypeOK
<1>5. Cardinality(Issuing') = Cardinality(Issuing) + 1
  BY <1>4, IssuingIsFinite, FS_AddElement
<1>6. IsFiniteSet(Issuing') /\ Cardinality(Issuing') <= Cardinality(Requests)
  BY <1>4, FS_Subset, AccessAssumption DEF Issuing
<1>7. drawn <= 1 + MaxCommands + Cardinality(Issuing) BY DEF AccessInv, KeysInv
<1>8. MaxCommands \in Nat BY AccessAssumption
<1>9. drawn < 1 + MaxCommands + Cardinality(Requests) /\ drawn' <= 1 + MaxCommands + Cardinality(Issuing')
  BY <1>2, <1>5, <1>6, <1>7, <1>8, IssuingIsFinite
<1>10. /\ drawn' \in Keys /\ drawn' \in 1 .. drawn' /\ 1 .. drawn \subseteq 1 .. drawn'
       /\ drawn' \notin 0 .. drawn /\ 0 .. drawn \subseteq 0 .. drawn'
       /\ ~Stored(drawn') /\ drawn' \notin DOMAIN shown
  BY <1>9, NextKey DEF AccessInv
<1>11. TypeOK'
  <2>1. held' \subseteq Requests \X {"lookup", "handler"} /\ Cardinality(held') <= PoolSize
    BY HeldShrinks DEF AccessInv, GivenBack
  <2>2. TypeOK BY DEF AccessInv
  <2>3. fresh' \in [Requests -> 0 .. drawn']
    <3>1. drawn' \in 0 .. drawn' BY <1>2
    <3> QED BY <2>2, <3>1, <1>10 DEF TypeOK
  <2>4. cli' \in [key : 0 .. drawn', role : Roles] BY <2>2, <1>10 DEF TypeOK
  <2>5. pc' \in [Requests -> {"new", "auth", "lookup", "act", "statement", "reply", "done"}]
    BY <2>2 DEF TypeOK
  <2>6. /\ DOMAIN rows' \subseteq 1 .. drawn' /\ \A k \in DOMAIN rows' : rows'[k] \in Row
        /\ DOMAIN shown' \subseteq 1 .. drawn' /\ \A k \in DOMAIN shown' : shown'[k] \in Roles
    BY <2>2, <1>10 DEF TypeOK
  <2> QED BY <1>10, <2>1, <2>2, <2>3, <2>4, <2>5, <2>6 DEF TypeOK, Keys, Row
<1>12. RowsGrow BY DEF RowsGrow
<1>13. \A q \in Requests \ {r} : Same(q) BY DEF AccessInv, TypeOK, Same
<1>14. KeysInv'
  <2>1. \A q \in Issuing : fresh'[q] = fresh[q] /\ fresh[q] \in 0 .. drawn
    BY <1>4 DEF AccessInv, TypeOK, Issuing
  <2>2. \A p, q \in Issuing' : fresh'[p] = fresh'[q] => p = q
    BY <1>1, <1>4, <1>10, <2>1 DEF AccessInv, KeysInv
  <2>3. \A q \in Issuing' : Stored(fresh'[q]) => rows[fresh'[q]].by = q
    BY <1>1, <1>4, <1>10, <2>1 DEF AccessInv, KeysInv
  <2> QED BY <1>9, <2>2, <2>3 DEF AccessInv, KeysInv, Stored
<1>15. RequestInv(r) BY DEF AccessInv
<1>16. wasActive[r] /\ Holds(cred[r], Bits) /\ ask[r].sameOrigin BY Earned DEF Required
<1>17. RequestInv(r)'
  BY <1>1, <1>3, <1>15, <1>16 DEF RequestInv, AnswerIsEarned, InForce, Stored, Holds
<1> QED BY <1>1, <1>11, <1>12, <1>13, <1>14, <1>17, OneMoves DEF AccessInv

(* The row a request adds is its own.                                      *)
LEMMA RowOfRequest ==
  ASSUME AccessInv, NEW r \in Requests, pc[r] = "statement", ask[r].route = "issue",
         rows' = WithRow(fresh[r], RowOf(ask[r].role, r)), UNCHANGED drawn
  PROVE  /\ RowsGrow /\ DOMAIN rows' = DOMAIN rows \cup {fresh[r]} /\ fresh[r] \notin DOMAIN rows
         /\ DOMAIN rows' \subseteq 1 .. drawn' /\ \A j \in DOMAIN rows' : rows'[j] \in Row
         /\ rows'[fresh[r]] = [permissions |-> Permissions(ask[r].role), revoked |-> FALSE, by |-> r]
         /\ wasActive[r] /\ Holds(cred[r], Bits) /\ ask[r].sameOrigin /\ r \in Issuing
<1>1. fresh[r] # NoKey /\ wasActive[r] /\ Holds(cred[r], Bits) /\ ask[r].sameOrigin
  BY DEF AccessInv, RequestInv
<1>2. fresh[r] \in 1 .. drawn
  <2>1. fresh[r] \in 0 .. drawn /\ drawn \in Nat BY DrawnAreKeys DEF AccessInv, TypeOK
  <2> QED BY <2>1, <1>1 DEF NoKey
<1>3. ~Stored(fresh[r])
  <2> SUFFICES ASSUME Stored(fresh[r]) PROVE FALSE OBVIOUS
  <2>1. rows[fresh[r]].by = r BY <1>1 DEF AccessInv, KeysInv, Issuing
  <2>2. r # Cli BY AccessAssumption
  <2>3. pc[r] \in {"reply", "done"} BY <2>1, <2>2 DEF AccessInv, RowInv, Stored
  <2> QED BY <2>3
<1>4. ask[r].role \in Roles
  <2>1. NoAsk.role \in Roles BY DEF NoAsk, Roles
  <2> QED BY <2>1, AccessAssumption DEF AccessInv, TypeOK
<1>5. drawn \in Nat BY DrawnAreKeys DEF AccessInv
<1> QED BY <1>1, <1>2, <1>3, <1>4, <1>5, NewRow DEF AccessInv, Stored, Issuing

LEMMA InsertKeeps ==
  ASSUME AccessInv, NEW r \in Requests, Insert(r)
  PROVE  AccessInv'
<1> USE DEF Insert
<1>1. /\ RowsGrow /\ DOMAIN rows' = DOMAIN rows \cup {fresh[r]} /\ fresh[r] \notin DOMAIN rows
      /\ DOMAIN rows' \subseteq 1 .. drawn' /\ \A j \in DOMAIN rows' : rows'[j] \in Row
      /\ rows'[fresh[r]] = [permissions |-> Permissions(ask[r].role), revoked |-> FALSE, by |-> r]
      /\ wasActive[r] /\ Holds(cred[r], Bits) /\ ask[r].sameOrigin /\ r \in Issuing
  BY RowOfRequest
<1>2. pc'[r] = "reply" BY DEF AccessInv, TypeOK
<1>3. TypeOK'
  <2>1. held' \subseteq Requests \X {"lookup", "handler"} /\ Cardinality(held') <= PoolSize
    BY HeldShrinks DEF AccessInv, Released
  <2>2. pc' \in [Requests -> {"new", "auth", "lookup", "act", "statement", "reply", "done"}]
    BY DEF AccessInv, TypeOK
  <2> QED BY <1>1, <2>1, <2>2 DEF AccessInv, TypeOK, Keys
<1>4. \A q \in Requests \ {r} : Same(q) BY DEF AccessInv, TypeOK, Same
<1>5. KeysInv'
  <2>1. \A q \in Issuing : fresh[q] = fresh[r] => q = r BY <1>1 DEF AccessInv, KeysInv
  <2>2. \A q \in Issuing : Stored(fresh[q])' => Stored(fresh[q]) \/ rows'[fresh[q]].by = q
    BY <1>1, <2>1 DEF Stored
  <2> QED BY <1>1, <2>2, KeysFrame DEF AccessInv
<1>6. RequestInv(r) /\ Stored(cred[r]) BY DEF AccessInv, RequestInv
<1>7. Stored(cred[r])' /\ Holds(cred[r], Bits)' BY <1>1, <1>6 DEF RowsGrow, Stored, Holds
<1>8. RequestInv(r)' BY <1>1, <1>2, <1>6, <1>7 DEF RequestInv, AnswerIsEarned, Stored, Issuing
<1>9. RowInv(fresh[r])' BY <1>1, <1>2, <1>7 DEF RowInv
<1>10. \A k \in DOMAIN rows' \ DOMAIN rows : RowInv(k)' BY <1>1, <1>9
<1> QED BY <1>1, <1>3, <1>4, <1>5, <1>8, <1>10, OneMoves

LEMMA FailKeeps ==
  ASSUME AccessInv, NEW r \in Requests, Fail(r)
  PROVE  AccessInv'
<1> USE DEF Fail, Answer
<1>1. pc'[r] = "done" /\ answer'[r] = "500" BY DEF AccessInv, TypeOK
<1>2. RequestInv(r) BY DEF AccessInv
<1>3. held' \subseteq Requests \X {"lookup", "handler"} /\ Cardinality(held') <= PoolSize
  BY HeldShrinks DEF AccessInv, Released
<1>4. /\ pc' \in [Requests -> {"new", "auth", "lookup", "act", "statement", "reply", "done"}]
      /\ answer' \in [Requests -> {"none", "200", "401", "403", "500", "lost"}]
  BY DEF AccessInv, TypeOK
<1>5. \A q \in Requests \ {r} : Same(q) BY DEF AccessInv, TypeOK, Same
<1>6. CASE UNCHANGED rows
  <2>1. TypeOK' BY <1>3, <1>4, <1>6 DEF AccessInv, TypeOK, Keys, Row
  <2>2. RowsGrow BY <1>6 DEF RowsGrow
  <2>3. KeysInv' BY <1>6, KeysUnchanged DEF AccessInv
  <2>4. RequestInv(r)' BY <1>1, <1>2, <1>6 DEF RequestInv, AnswerIsEarned, InForce, Stored, Holds
  <2> QED BY <1>5, <1>6, <2>1, <2>2, <2>3, <2>4, OneMoves DEF AccessInv
<1>7. CASE /\ pc[r] = "statement" /\ ask[r].route = "issue"
           /\ rows' = WithRow(fresh[r], RowOf(ask[r].role, r))
  <2>1. /\ RowsGrow /\ DOMAIN rows' = DOMAIN rows \cup {fresh[r]} /\ fresh[r] \notin DOMAIN rows
        /\ DOMAIN rows' \subseteq 1 .. drawn' /\ \A j \in DOMAIN rows' : rows'[j] \in Row
        /\ rows'[fresh[r]] = [permissions |-> Permissions(ask[r].role), revoked |-> FALSE, by |-> r]
        /\ wasActive[r] /\ Holds(cred[r], Bits) /\ ask[r].sameOrigin /\ r \in Issuing
    BY <1>7, RowOfRequest
  <2>2. TypeOK' BY <2>1, <1>3, <1>4 DEF AccessInv, TypeOK, Keys
  <2>3. KeysInv'
    <3>1. \A q \in Issuing : fresh[q] = fresh[r] => q = r BY <2>1 DEF AccessInv, KeysInv
    <3>2. \A q \in Issuing : Stored(fresh[q])' => Stored(fresh[q]) \/ rows'[fresh[q]].by = q
      BY <2>1, <3>1 DEF Stored
    <3> QED BY <2>1, <3>2, KeysFrame DEF AccessInv
  <2>4. Stored(cred[r]) BY <1>2, <1>7 DEF RequestInv
  <2>5. Stored(cred[r])' /\ Holds(cred[r], Bits)' BY <2>1, <2>4 DEF RowsGrow, Stored, Holds
  <2>6. RequestInv(r)' BY <1>1, <1>2, <1>7, <2>1, <2>5 DEF RequestInv, AnswerIsEarned, Stored, Issuing
  <2>7. RowInv(fresh[r])' BY <1>1, <2>1, <2>5 DEF RowInv
  <2>8. \A k \in DOMAIN rows' \ DOMAIN rows : RowInv(k)' BY <2>1, <2>7
  <2> QED BY <1>5, <1>7, <2>1, <2>2, <2>3, <2>6, <2>8, OneMoves
<1> QED BY <1>6, <1>7
LEMMA ShowType ==
  ASSUME TypeOK, NEW k \in DOMAIN rows, NEW role \in Roles, shown' = Show(k, role), UNCHANGED drawn
  PROVE  /\ DOMAIN shown' = DOMAIN shown \cup {k} /\ shown'[k] = role
         /\ \A j \in DOMAIN shown : j # k => shown'[j] = shown[j]
         /\ DOMAIN shown' \subseteq 1 .. drawn' /\ \A j \in DOMAIN shown' : shown'[j] \in Roles
<1>1. DOMAIN shown' = DOMAIN shown \cup {k} BY DEF Show
<1>2. \A j \in DOMAIN shown' : shown'[j] = IF j = k THEN role ELSE shown[j] BY <1>1 DEF Show
<1> QED BY <1>1, <1>2 DEF TypeOK

LEMMA ReplyKeeps ==
  ASSUME AccessInv, NEW r \in Requests, Reply(r)
  PROVE  AccessInv'
<1> USE DEF Reply, Answer
<1>1. RequestInv(r) BY DEF AccessInv
<1>2. Stored(fresh[r]) /\ rows[fresh[r]].permissions = Permissions(ask[r].role)
  BY <1>1 DEF RequestInv
<1>3. ask[r].role \in Roles
  <2>1. NoAsk.role \in Roles BY DEF NoAsk, Roles
  <2> QED BY <2>1, AccessAssumption DEF AccessInv, TypeOK
<1>4. held' \subseteq Requests \X {"lookup", "handler"} /\ Cardinality(held') <= PoolSize
  BY HeldShrinks DEF AccessInv, Released
<1>5. /\ pc' \in [Requests -> {"new", "auth", "lookup", "act", "statement", "reply", "done"}]
      /\ answer' \in [Requests -> {"none", "200", "401", "403", "500", "lost"}]
  BY DEF AccessInv, TypeOK
<1>6. \A q \in Requests \ {r} : Same(q) BY DEF AccessInv, TypeOK, Same
<1>7. RowsGrow BY DEF RowsGrow
<1>8. pc'[r] = "done" /\ answer'[r] \in {"200", "lost"} BY DEF AccessInv, TypeOK
<1>9. wasActive[r] /\ Holds(cred[r], Bits) /\ ask[r].sameOrigin /\ Required(ask[r].route) = Bits
  BY <1>1 DEF RequestInv, AnswerIsEarned, Required
<1>10. RequestInv(r)' BY <1>1, <1>8, <1>9 DEF RequestInv, AnswerIsEarned, InForce, Stored, Holds
<1>11. CASE answer'[r] = "200" /\ shown' = Show(fresh[r], ask[r].role)
  <2>1. /\ DOMAIN shown' = DOMAIN shown \cup {fresh[r]} /\ shown'[fresh[r]] = ask[r].role
        /\ \A j \in DOMAIN shown : j # fresh[r] => shown'[j] = shown[j]
        /\ DOMAIN shown' \subseteq 1 .. drawn' /\ \A j \in DOMAIN shown' : shown'[j] \in Roles
    BY <1>2, <1>3, <1>11, ShowType DEF AccessInv, Stored
  <2>2. TypeOK' BY <1>4, <1>5, <2>1 DEF AccessInv, TypeOK, Keys, Row
  <2>3. KeysInv'
    <3>1. \A k \in DOMAIN shown' : Stored(k) /\ rows[k].permissions = Permissions(shown'[k])
      BY <1>2, <2>1 DEF AccessInv, KeysInv
    <3> QED BY <3>1 DEF AccessInv, KeysInv, Issuing, Stored
  <2>4. \A k \in DOMAIN rows : rows[k].by = r => RowInv(k)'
    BY <1>8, <2>1 DEF AccessInv, RowInv, Holds
  <2> QED BY <1>6, <1>7, <1>10, <2>1, <2>2, <2>3, <2>4, OneMoves
<1>12. CASE answer'[r] = "lost" /\ UNCHANGED shown
  <2>1. TypeOK' BY <1>4, <1>5, <1>12 DEF AccessInv, TypeOK, Keys, Row
  <2>2. KeysInv' BY <1>12, KeysUnchanged DEF AccessInv
  <2>3. \A k \in DOMAIN rows : rows[k].by = r => RowInv(k)'
    BY <1>8, <1>12 DEF AccessInv, RowInv, Holds
  <2> QED BY <1>6, <1>7, <1>10, <1>12, <2>1, <2>2, <2>3, OneMoves
<1> QED BY <1>11, <1>12 DEF AccessInv, TypeOK

LEMMA CliInsertKeeps ==
  ASSUME AccessInv, NEW role \in Roles, CliInsert(role)
  PROVE  AccessInv'
<1> USE DEF CliInsert
<1>1. drawn - Cardinality(Issuing) <= MaxCommands BY DEF Issuing
<1>2. drawn \in Nat /\ MaxCommands \in Nat BY DrawnAreKeys, AccessAssumption DEF AccessInv
<1>3. /\ drawn < 1 + MaxCommands + Cardinality(Requests)
      /\ drawn' <= 1 + MaxCommands + Cardinality(Issuing)
  BY <1>1, <1>2, IssuingIsFinite
<1>4. /\ drawn' \in Keys /\ drawn' \in 1 .. drawn' /\ 1 .. drawn \subseteq 1 .. drawn'
      /\ drawn' \notin 0 .. drawn /\ 0 .. drawn \subseteq 0 .. drawn'
      /\ ~Stored(drawn') /\ drawn' \notin DOMAIN shown
  BY <1>3, NextKey DEF AccessInv
<1>5. rows' = WithRow(drawn', RowOf(role, Cli)) OBVIOUS
<1>6. /\ RowsGrow /\ DOMAIN rows' = DOMAIN rows \cup {drawn'}
      /\ DOMAIN rows' \subseteq 1 .. drawn' /\ \A j \in DOMAIN rows' : rows'[j] \in Row
      /\ rows'[drawn'] = [permissions |-> Permissions(role), revoked |-> FALSE, by |-> Cli]
  <2>1. drawn <= drawn' /\ drawn' \in Nat BY <1>2
  <2>2. PICK k \in 1 .. drawn' : k = drawn' BY <1>4
  <2>3. ~Stored(k) /\ rows' = WithRow(k, RowOf(role, Cli)) BY <1>4, <1>5, <2>2
  <2>4. /\ RowsGrow /\ DOMAIN rows' = DOMAIN rows \cup {k}
        /\ DOMAIN rows' \subseteq 1 .. drawn' /\ \A j \in DOMAIN rows' : rows'[j] \in Row
        /\ rows'[k] = [permissions |-> Permissions(role), revoked |-> FALSE, by |-> Cli]
    <3> HIDE DEF CliInsert
    <3>1. TypeOK /\ Cli \in Requests \cup {Cli} BY DEF AccessInv
    <3> QED BY <2>1, <2>3, <3>1, NewRow
  <2> QED BY <2>2, <2>4
<1>7. TypeOK'
  <2>1. TypeOK BY DEF AccessInv
  <2>2. fresh' \in [Requests -> 0 .. drawn'] BY <1>4, <2>1 DEF TypeOK
  <2>3. cli' \in [key : 0 .. drawn', role : Roles]
    <3>1. drawn' \in 0 .. drawn' BY <1>2
    <3>2. cli' = [key |-> drawn', role |-> role] OBVIOUS
    <3> QED BY <3>1, <3>2
  <2>4. DOMAIN shown' \subseteq 1 .. drawn' /\ \A k \in DOMAIN shown' : shown'[k] \in Roles
    BY <1>4, <2>1 DEF TypeOK
  <2> QED BY <1>4, <1>6, <2>1, <2>2, <2>3, <2>4 DEF TypeOK, Keys
<1>8. \A q \in Requests : Same(q) BY DEF Same
<1>9. KeysInv'
  <2>1. \A q \in Issuing : fresh[q] \in 0 .. drawn BY DEF AccessInv, TypeOK, Issuing
  <2>2. \A q \in Issuing : fresh[q] # drawn' BY <1>4, <2>1
  <2>3. \A q \in Issuing : Stored(fresh[q])' => rows'[fresh[q]].by = q
    BY <1>6, <2>2 DEF AccessInv, KeysInv, Stored, RowsGrow
  <2>4. \A k \in DOMAIN shown : Stored(k)' /\ rows'[k].permissions = Permissions(shown[k])
    BY <1>6 DEF AccessInv, KeysInv, Stored, RowsGrow
  <2>5. Stored(cli.key)' /\ rows'[cli'.key].permissions = Permissions(cli'.role)
    BY <1>6 DEF Stored
  <2>6. Issuing' = Issuing BY DEF Issuing
  <2>7. \A p, q \in Issuing' : fresh'[p] = fresh'[q] => p = q
    BY <2>6 DEF AccessInv, KeysInv
  <2> QED BY <1>3, <2>3, <2>4, <2>5, <2>6, <2>7 DEF KeysInv
<1>10. \A k \in DOMAIN rows' \ DOMAIN rows : RowInv(k)' BY <1>6 DEF RowInv
<1> QED BY <1>6, <1>7, <1>8, <1>9, <1>10, NoneMoves

LEMMA CliPrintKeeps ==
  ASSUME AccessInv, CliPrint
  PROVE  AccessInv'
<1> USE DEF CliPrint
<1>1. Stored(cli.key) /\ rows[cli.key].permissions = Permissions(cli.role)
  BY DEF AccessInv, KeysInv
<1>2. cli.role \in Roles BY DEF AccessInv, TypeOK
<1>3. /\ DOMAIN shown' = DOMAIN shown \cup {cli.key} /\ shown'[cli.key] = cli.role
      /\ \A j \in DOMAIN shown : j # cli.key => shown'[j] = shown[j]
      /\ DOMAIN shown' \subseteq 1 .. drawn' /\ \A j \in DOMAIN shown' : shown'[j] \in Roles
  BY <1>1, <1>2, ShowType DEF AccessInv, Stored
<1>4. TypeOK'
  <2>1. NoCommand \in [key : 0 .. drawn, role : Roles]
    BY DrawnAreKeys DEF AccessInv, NoCommand, NoKey, Roles
  <2> QED BY <1>3, <2>1 DEF AccessInv, TypeOK, Keys, Row
<1>5. RowsGrow BY DEF RowsGrow
<1>6. \A q \in Requests : Same(q) BY DEF Same
<1>7. KeysInv'
  <2>1. \A k \in DOMAIN shown' : Stored(k) /\ rows[k].permissions = Permissions(shown'[k])
    BY <1>1, <1>3 DEF AccessInv, KeysInv
  <2>2. NoCommand' = NoCommand BY DEF NoCommand, NoKey
  <2> QED BY <2>1, <2>2 DEF AccessInv, KeysInv, Issuing, Stored
<1> QED BY <1>3, <1>4, <1>5, <1>6, <1>7, NoneMoves

LEMMA CliDiesKeeps ==
  ASSUME AccessInv, CliDies
  PROVE  AccessInv'
<1> USE DEF CliDies
<1>1. TypeOK'
  <2>1. NoCommand \in [key : 0 .. drawn, role : Roles]
    BY DrawnAreKeys DEF AccessInv, NoCommand, NoKey, Roles
  <2> QED BY <2>1 DEF AccessInv, TypeOK, Keys, Row
<1>2. RowsGrow BY DEF RowsGrow
<1>3. \A q \in Requests : Same(q) BY DEF Same
<1>4. KeysInv' BY DEF AccessInv, KeysInv, Issuing, Stored, NoCommand, NoKey
<1> QED BY <1>1, <1>2, <1>3, <1>4, NoneMoves

LEMMA RevokeKeeps ==
  ASSUME AccessInv, NEW k, Revoke(k)
  PROVE  AccessInv'
<1> USE DEF Revoke
<1>1. k \in DOMAIN rows BY DEF InForce, Stored
<1>2. rows' = [rows EXCEPT ![k] = [rows[k] EXCEPT !.revoked = TRUE]] BY <1>1
<1>3. DOMAIN rows' = DOMAIN rows BY <1>2
<1>4. rows[k] \in Row BY <1>1 DEF AccessInv, TypeOK
<1>5. /\ rows'[k] \in Row /\ rows'[k].revoked = TRUE
      /\ rows'[k].permissions = rows[k].permissions /\ rows'[k].by = rows[k].by
  BY <1>1, <1>2, <1>4 DEF Row
<1>6. \A j \in DOMAIN rows : j # k => rows'[j] = rows[j] BY <1>2
<1>7. TypeOK' BY <1>3, <1>5, <1>6 DEF AccessInv, TypeOK, Keys
<1>8. RowsGrow BY <1>1, <1>3, <1>5, <1>6 DEF RowsGrow
<1>9. \A q \in Requests : Same(q) BY DEF Same
<1>10. KeysInv' BY <1>3, <1>8, KeysFrame DEF AccessInv, Stored
<1> QED BY <1>3, <1>7, <1>8, <1>9, <1>10, NoneMoves
-----------------------------------------------------------------------------
LEMMA AccessStep == AccessInv /\ [Next]_vars => AccessInv'
<1> SUFFICES ASSUME AccessInv, [Next]_vars PROVE AccessInv' OBVIOUS
<1>1. ASSUME NEW r \in Requests, Send(r) \/ Step(r) PROVE AccessInv'
  <2>1. CASE Send(r) BY <2>1, SendKeeps
  <2>2. CASE Acquire(r) BY <2>2, AcquireKeeps
  <2>3. CASE Reject(r) BY <2>3, RejectKeeps
  <2>4. CASE Serve(r) BY <2>4, ServeKeeps
  <2>5. CASE StartList(r) BY <2>5, StartListKeeps
  <2>6. CASE StartIssue(r) BY <2>6, StartIssueKeeps
  <2>7. CASE List(r) BY <2>7, ListKeeps
  <2>8. CASE Insert(r) BY <2>8, InsertKeeps
  <2>9. CASE Reply(r) BY <2>9, ReplyKeeps
  <2>10. CASE Fail(r) BY <2>10, FailKeeps
  <2> QED BY <1>1, <2>1, <2>2, <2>3, <2>4, <2>5, <2>6, <2>7, <2>8, <2>9, <2>10 DEF Step
<1>2. ASSUME NEW role \in Roles, CliInsert(role) PROVE AccessInv' BY <1>2, CliInsertKeeps
<1>3. CASE CliPrint BY <1>3, CliPrintKeeps
<1>4. CASE CliDies BY <1>4, CliDiesKeeps
<1>5. ASSUME NEW k \in DOMAIN shown, Revoke(k) PROVE AccessInv' BY <1>5, RevokeKeeps
<1>6. CASE UNCHANGED vars
  <2> USE <1>6 DEF vars
  <2>1. TypeOK' BY DEF AccessInv, TypeOK, Keys, Row
  <2>2. RowsGrow BY DEF RowsGrow
  <2>3. \A q \in Requests : Same(q) BY DEF Same
  <2>4. KeysInv' BY KeysUnchanged DEF AccessInv
  <2> QED BY <2>1, <2>2, <2>3, <2>4, NoneMoves
<1> QED BY <1>1, <1>2, <1>3, <1>4, <1>5, <1>6 DEF Next

(* AccessInv holds in every state: whatever clients, requests, commands    *)
(* and whoever revokes do, in any order (keys.py, auth.py, cli.py).        *)
THEOREM AccessInvariant == Spec => []AccessInv
<1>1. Init => AccessInv BY AccessInit
<1>2. AccessInv /\ [Next]_vars => AccessInv' BY AccessStep
<1> QED BY <1>1, <1>2, PTL DEF Spec

(* Every state has its shape: no key is stored or shown that was not       *)
(* drawn, and the pool never hands out more connections than it has.       *)
THEOREM AccessTypeCorrect == Spec => []TypeOK
<1>1. AccessInv => TypeOK BY DEF AccessInv
<1> QED BY <1>1, AccessInvariant, PTL

(* AccessIsEarned, for any number of requests: who is served had a key     *)
(* that was active when the request was sent, with every bit its route     *)
(* requires; no 401 meets a key that is still active and may enter; 403    *)
(* means that bits or the origin are missing, and is never said to a       *)
(* secret that is no key; and a row the command did not add was ordered by *)
(* a request that had the right to (auth.py:63-121, keys.py:73-88).        *)
THEOREM AccessMustBeEarned == Spec => []AccessIsEarned
<1>1. AccessInv => AccessIsEarned
  <2> SUFFICES ASSUME AccessInv PROVE AccessIsEarned OBVIOUS
  <2>1. \A k \in DOMAIN rows : rows[k].by # Cli =>
          wasActive[rows[k].by] /\ Holds(cred[rows[k].by], Bits) /\ ask[rows[k].by].sameOrigin
    BY DEF AccessInv, RowInv
  <2>2. \A r \in Requests : RequestInv(r) BY DEF AccessInv
  <2> QED BY <2>1, <2>2 DEF AccessIsEarned, RequestInv, AnswerIsEarned
<1> QED BY <1>1, AccessInvariant, PTL

(* ShownKeysWork, for any number of requests and commands: a key somebody  *)
(* was shown is stored with the bits of the role it was shown as, and a    *)
(* stored key nobody was shown belongs to a request or a command that is   *)
(* still at it or broke off after the INSERT (cli.py:27-42,                *)
(* admin/routes.py:186-196).                                               *)
THEOREM ShownKeysDoWork == Spec => []ShownKeysWork
<1>1. AccessInv => ShownKeysWork BY DEF AccessInv, KeysInv, RowInv, ShownKeysWork
<1> QED BY <1>1, AccessInvariant, PTL
=============================================================================
