------------------------------- MODULE AccessKeys -------------------------------
(***************************************************************************)
(* API keys of pulse-api: how they are issued, by `app.cli create-key` and *)
(* by POST /admin/keys, and what a request may do with one                 *)
(* (services/pulse-api/app/security/keys.py, admin/auth.py,                *)
(* admin/routes.py, cli.py, and the table in alembic/versions).            *)
(*                                                                         *)
(* Requests run concurrently on one asyncpg pool. Each looks its key up    *)
(* with a connection of the pool, gives it back, and takes one again if    *)
(* its handler needs one: between the two anything may happen to the key.  *)
(* PostgreSQL may break off any statement, also one it has carried out.    *)
(*                                                                         *)
(* A key stands for the secret and for its SHA-256, 256 random bits that   *)
(* are never drawn twice: the keys are numbered in the order they were     *)
(* drawn. What a request does after the check of /api/v1 is the subject of *)
(* RateLimiter, TrendingApi and AnalyticsReads.                            *)
(*                                                                         *)
(* Bound, for model checking only: MaxCommands, how often the command is   *)
(* run; with one request each, that bounds the keys.                       *)
(***************************************************************************)
EXTENDS Integers, FiniteSets

CONSTANTS Requests,   (* each is sent at most once *)
          Asks,       (* what they may ask for *)
          PoolSize,   (* max_size of the pool *)
          MaxCommands,
          Cli         (* whoever types create-key *)

Roles == {"admin", "maintenance", "api_only"}
Routes == {"api", "page", "list", "issue"}   (* /api/v1, /admin, GET and POST /admin/keys *)

ASSUME AccessAssumption ==
  /\ PoolSize \in Nat \ {0} /\ MaxCommands \in Nat /\ IsFiniteSet(Requests)
  /\ Cli \notin Requests
  /\ Asks \subseteq [route : Routes, role : Roles, sameOrigin : BOOLEAN]

(* 1 is the admin key the first command issued, 0 a secret that is no key. *)
Keys == 1 .. 1 + MaxCommands + Cardinality(Requests)
NoKey == 0
NoCommand == [key |-> NoKey, role |-> "api_only"]   (* --role has this default *)
NoAsk == [route |-> "page", role |-> "api_only", sameOrigin |-> FALSE]

VARIABLES rows,     (* api_keys: a function from the stored keys *)
          shown,    (* the keys somebody was shown, and as which role *)
          drawn,    (* how many have been generated *)
          held,     (* connections of the pool: who holds one, for which statement *)
          pc, ask, cred, answer,   (* per request: place, what it asks, its key, the status *)
          wasActive,               (* per request: its key was active when it was sent *)
          fresh,                   (* per request: the key it has generated *)
          cli       (* the key create-key has stored and not printed yet, and its role *)

vars == <<rows, shown, drawn, held, pc, ask, cred, answer, wasActive, fresh, cli>>

(* ApiKeyPermission, a set of bits. *)
Bits == {"ADMIN_READ", "ADMIN_WRITE"}

(* ROLE_PRESETS *)
Permissions(role) ==
  CASE role = "admin" -> Bits
    [] role = "maintenance" -> {"ADMIN_READ"}
    [] role = "api_only" -> {}

(* The columns of a new row; `by` is who ordered it. *)
RowWithDefault(role, who) == [permissions |-> Bits, revoked |-> FALSE, by |-> who]
RowOf(role, who) == [permissions |-> Permissions(role), revoked |-> FALSE, by |-> who]

Stored(k) == k \in DOMAIN rows
WithRow(k, row) == [j \in DOMAIN rows \cup {k} |-> IF j = k THEN row ELSE rows[j]]
Show(k, role) == [j \in DOMAIN shown \cup {k} |-> IF j = k THEN role ELSE shown[j]]

(* What the properties mean by a key in force, and by its bits. *)
InForce(k) == Stored(k) /\ ~rows[k].revoked
Holds(k, bits) == bits \subseteq rows[k].permissions

Init ==
  /\ rows = [k \in {1} |-> RowOf("admin", Cli)]
  /\ shown = [k \in {1} |-> "admin"]
  /\ drawn = 1
  /\ held = {}
  /\ pc = [r \in Requests |-> "new"]
  /\ ask = [r \in Requests |-> NoAsk]
  /\ cred = [r \in Requests |-> NoKey]
  /\ answer = [r \in Requests |-> "none"]
  /\ wasActive = [r \in Requests |-> FALSE]
  /\ fresh = [r \in Requests |-> NoKey]
  /\ cli = NoCommand
-----------------------------------------------------------------------------
(* find_active_key: WHERE key_hash = $1 AND revoked_at IS NULL *)
KnownKey(k) == Stored(k)
ActiveKey(k) == Stored(k) /\ rows[k].revoked = FALSE

(* What a route requires of the bits of the key; /api/v1 does not read them. *)
Required(route) ==
  CASE route = "api" -> {}
    [] route = "page" -> {"ADMIN_READ"}
    [] route \in {"list", "issue"} -> Bits

(* require_admin_permission: any of the bits, or all of them. *)
HasAny(k, bits) == bits \cap rows[k].permissions # {}
HasAll(k, bits) == bits \subseteq rows[k].permissions

(* The answers of the dependencies, in their order. *)
UnauthorizedWithoutEveryBit(r) == ~(ActiveKey(cred[r]) /\ HasAll(cred[r], Required(ask[r].route)))
Unauthorized(r) == ~( /\ ActiveKey(cred[r])
                      /\ ask[r].route = "api" \/ HasAny(cred[r], {"ADMIN_READ"}) )
ForbiddenToAnyOtherOrigin(r) == \/ ~HasAll(cred[r], Required(ask[r].route))
                                \/ ask[r].route # "api" /\ ~ask[r].sameOrigin
Forbidden(r) == \/ ~HasAll(cred[r], Required(ask[r].route))
                \/ ask[r].route = "issue" /\ ~ask[r].sameOrigin

(* The pool: a connection belongs to one statement. *)
OneConnectionMore == Cardinality(held) <= PoolSize
FreeConnection == Cardinality(held) < PoolSize
Released(r) == {h \in held : h[1] # r}
KeptForRequest(r) == held
GivenBack(r) == held \ {<<r, "lookup">>}

Answer(r, status) ==
  /\ pc' = [pc EXCEPT ![r] = "done"]
  /\ answer' = [answer EXCEPT ![r] = status]
  /\ held' = Released(r)
-----------------------------------------------------------------------------
(* A client uses a key it was shown, or a secret that is none. *)
Send(r) ==
  /\ pc[r] = "new"
  /\ \E k \in DOMAIN shown \cup {NoKey} :
       /\ cred' = [cred EXCEPT ![r] = k]
       /\ wasActive' = [wasActive EXCEPT ![r] = InForce(k)]
  /\ \E a \in Asks : ask' = [ask EXCEPT ![r] = a]
  /\ pc' = [pc EXCEPT ![r] = "auth"]
  /\ UNCHANGED <<rows, shown, drawn, held, answer, fresh, cli>>

(* The pool hands out a connection, for the lookup or for the handler. *)
Acquire(r) ==
  /\ FreeConnection
  /\ \/ pc[r] = "auth" /\ held' = held \cup {<<r, "lookup">>} /\ pc' = [pc EXCEPT ![r] = "lookup"]
     \/ pc[r] = "act" /\ held' = held \cup {<<r, "handler">>} /\ pc' = [pc EXCEPT ![r] = "statement"]
  /\ UNCHANGED <<rows, shown, drawn, ask, cred, answer, wasActive, fresh, cli>>

(* require_admin_auth or require_api_key, and what hangs on it. *)
Reject(r) ==
  /\ pc[r] = "lookup"
  /\ \/ Unauthorized(r) /\ Answer(r, "401")
     \/ ~Unauthorized(r) /\ Forbidden(r) /\ Answer(r, "403")
  /\ UNCHANGED <<rows, shown, drawn, ask, cred, wasActive, fresh, cli>>

Authorized(r) == pc[r] = "lookup" /\ ~Unauthorized(r) /\ ~Forbidden(r)

(* Routes that need PostgreSQL for nothing else. *)
Serve(r) ==
  /\ Authorized(r) /\ ask[r].route \in {"api", "page"}
  /\ Answer(r, "200")
  /\ UNCHANGED <<rows, shown, drawn, ask, cred, wasActive, fresh, cli>>

(* admin_keys goes on to the pool ... *)
StartList(r) ==
  /\ Authorized(r) /\ ask[r].route = "list"
  /\ held' = GivenBack(r)
  /\ pc' = [pc EXCEPT ![r] = "act"]
  /\ UNCHANGED <<rows, shown, drawn, ask, cred, answer, wasActive, fresh, cli>>

(* ... and admin_issue_key generates a key first. *)
StartIssue(r) ==
  /\ Authorized(r) /\ ask[r].route = "issue"
  /\ held' = GivenBack(r)
  /\ drawn' = drawn + 1
  /\ fresh' = [fresh EXCEPT ![r] = drawn + 1]
  /\ pc' = [pc EXCEPT ![r] = "act"]
  /\ UNCHANGED <<rows, shown, ask, cred, answer, wasActive, cli>>

(* list_active_keys *)
List(r) ==
  /\ pc[r] = "statement" /\ ask[r].route = "list"
  /\ Answer(r, "200")
  /\ UNCHANGED <<rows, shown, drawn, ask, cred, wasActive, fresh, cli>>

(* insert_api_key, and the connection goes back at the end of the block. *)
Insert(r) ==
  /\ pc[r] = "statement" /\ ask[r].route = "issue"
  /\ rows' = WithRow(fresh[r], RowOf(ask[r].role, r))
  /\ held' = Released(r)
  /\ pc' = [pc EXCEPT ![r] = "reply"]
  /\ UNCHANGED <<shown, drawn, ask, cred, answer, wasActive, fresh, cli>>

(* The page with the raw key, the only time it is shown; or nobody reads it. *)
Reply(r) ==
  /\ pc[r] = "reply"
  /\ \/ Answer(r, "200") /\ shown' = Show(fresh[r], ask[r].role)
     \/ Answer(r, "lost") /\ UNCHANGED shown
  /\ UNCHANGED <<rows, drawn, ask, cred, wasActive, fresh, cli>>

(* The statement fails and the request ends with 500; an INSERT whose      *)
(* connection broke after the commit has stored its row.                   *)
Fail(r) ==
  /\ pc[r] \in {"lookup", "statement"}
  /\ \/ UNCHANGED rows
     \/ pc[r] = "statement" /\ ask[r].route = "issue" /\ rows' = WithRow(fresh[r], RowOf(ask[r].role, r))
  /\ Answer(r, "500")
  /\ UNCHANGED <<shown, drawn, ask, cred, wasActive, fresh, cli>>
-----------------------------------------------------------------------------
(* create-key has a connection of its own, inserts and then prints.        *)
CliInsert(role) ==
  /\ cli = NoCommand /\ drawn - Cardinality({r \in Requests : fresh[r] # NoKey}) <= MaxCommands
  /\ drawn' = drawn + 1
  /\ cli' = [key |-> drawn + 1, role |-> role]
  /\ rows' = WithRow(drawn + 1, RowOf(role, Cli))
  /\ UNCHANGED <<shown, held, pc, ask, cred, answer, wasActive, fresh>>

CliPrint ==
  /\ cli # NoCommand
  /\ shown' = Show(cli.key, cli.role)
  /\ cli' = NoCommand
  /\ UNCHANGED <<rows, drawn, held, pc, ask, cred, answer, wasActive, fresh>>

(* connection.close() fails, or the command is interrupted. *)
CliDies ==
  /\ cli # NoCommand
  /\ cli' = NoCommand
  /\ UNCHANGED <<rows, shown, drawn, held, pc, ask, cred, answer, wasActive, fresh>>

(* revoked_at, set by hand, to take a key from whoever has it. *)
Revoke(k) ==
  /\ InForce(k)
  /\ rows' = [rows EXCEPT ![k].revoked = TRUE]
  /\ UNCHANGED <<shown, drawn, held, pc, ask, cred, answer, wasActive, fresh, cli>>

Step(r) == \/ Acquire(r) \/ Reject(r) \/ Serve(r) \/ StartList(r) \/ StartIssue(r)
           \/ List(r) \/ Insert(r) \/ Reply(r) \/ Fail(r)

Next == \/ \E r \in Requests : Send(r) \/ Step(r)
        \/ \E role \in Roles : CliInsert(role)
        \/ CliPrint \/ CliDies
        \/ \E k \in DOMAIN shown : Revoke(k)

Spec == Init /\ [][Next]_vars

(* The event loop runs every request that can go on, and PostgreSQL ends   *)
(* every statement, with a result or an error. Nobody has to send, issue   *)
(* or revoke anything.                                                     *)
FairSpec == Spec /\ \A r \in Requests : WF_vars(Step(r))
-----------------------------------------------------------------------------
Row == [permissions : SUBSET Bits, revoked : BOOLEAN, by : Requests \cup {Cli}]

(* Shape of the state: what is stored or shown was drawn, and the pool     *)
(* never hands out more connections than it has.                           *)
TypeOK ==
  /\ drawn \in Keys
  /\ DOMAIN rows \subseteq 1 .. drawn /\ \A k \in DOMAIN rows : rows[k] \in Row
  /\ DOMAIN shown \subseteq 1 .. drawn /\ \A k \in DOMAIN shown : shown[k] \in Roles
  /\ held \subseteq Requests \X {"lookup", "handler"}
  /\ Cardinality(held) <= PoolSize
  /\ pc \in [Requests -> {"new", "auth", "lookup", "act", "statement", "reply", "done"}]
  /\ ask \in [Requests -> Asks \cup {NoAsk}]
  /\ cred \in [Requests -> Keys \cup {NoKey}]
  /\ answer \in [Requests -> {"none", "200", "401", "403", "500", "lost"}]
  /\ wasActive \in [Requests -> BOOLEAN]
  /\ fresh \in [Requests -> 0 .. drawn]
  /\ cli \in [key : 0 .. drawn, role : Roles]

(* What a key must have to get beyond the Basic dialog of /admin, where a  *)
(* 401 would ask for another one.                                          *)
EntryBits(route) == IF route = "api" THEN {} ELSE {"ADMIN_READ"}

AnswerIsEarned(r) ==
  LET needed == Required(ask[r].route)
  IN  /\ answer[r] \in {"200", "lost"} => wasActive[r] /\ Holds(cred[r], needed)
      /\ answer[r] = "401" => ~(InForce(cred[r]) /\ Holds(cred[r], EntryBits(ask[r].route)))
      /\ answer[r] = "403" =>
           /\ wasActive[r] /\ Holds(cred[r], {"ADMIN_READ"})
           /\ ~Holds(cred[r], needed) \/ (ask[r].route = "issue" /\ ~ask[r].sameOrigin)

(* What an answer says is true of the key, whatever happened to it between *)
(* the steps of the request: who is served had a key that was active when  *)
(* the request was sent and has every bit the route requires; 401 never    *)
(* meets a key that is still active and, on /admin, has ADMIN_READ,        *)
(* whichever other bits the route requires (auth.py:48-50, 85-87); 403     *)
(* tells nothing to a secret that is no key, and is never said to a key    *)
(* with every bit of the route unless a page of another origin asks to     *)
(* issue one. And every row that was not issued by the command was ordered *)
(* by a request with the right to issue keys, from a page of /admin itself *)
(* (auth.py:63-121, keys.py:73-88).                                        *)
AccessIsEarned ==
  /\ \A r \in Requests : AnswerIsEarned(r)
  /\ \A k \in DOMAIN rows : rows[k].by # Cli =>
       LET r == rows[k].by
       IN  wasActive[r] /\ Holds(cred[r], Bits) /\ ask[r].sameOrigin

(* A key somebody was shown is stored, with the bits of the role it was    *)
(* shown as, whichever of the two ways it was issued; and a row nobody was *)
(* shown, a key nobody can ever use, is one whose command or request is    *)
(* still at it or broke off after the INSERT (cli.py:27-42,                *)
(* admin/routes.py:186-196).                                               *)
ShownKeysWork ==
  /\ \A k \in DOMAIN shown : Stored(k) /\ rows[k].permissions = Permissions(shown[k])
  /\ \A k \in DOMAIN rows \ DOMAIN shown :
       LET r == rows[k].by
       IN  r # Cli => fresh[r] = k /\ (pc[r] = "reply" \/ answer[r] \in {"500", "lost"})

(* The inductive invariant of AccessKeys_proofs, by request, by row and    *)
(* for the keys together: an answer is earned step by step, a row is known *)
(* to the one request or command that drew its key, and no key is drawn    *)
(* twice.                                                                  *)
RequestInv(r) ==
  /\ pc[r] \in {"new", "auth", "lookup"} => fresh[r] = NoKey
  /\ pc[r] # "done" => answer[r] = "none"
  /\ pc[r] # "new" => /\ cred[r] = NoKey \/ Stored(cred[r])
                      /\ wasActive[r] => Stored(cred[r])
                      /\ InForce(cred[r]) => wasActive[r]
  /\ pc[r] \in {"act", "statement", "reply"} =>
       /\ ask[r].route \in {"list", "issue"}
       /\ wasActive[r] /\ Holds(cred[r], Bits)
       /\ ask[r].route = "issue" => ask[r].sameOrigin /\ fresh[r] # NoKey
  /\ pc[r] = "reply" => /\ ask[r].route = "issue" /\ Stored(fresh[r])
                        /\ rows[fresh[r]].permissions = Permissions(ask[r].role)
  /\ AnswerIsEarned(r)

RowInv(k) ==
  rows[k].by # Cli =>
    LET r == rows[k].by
    IN  /\ fresh[r] = k /\ pc[r] \in {"reply", "done"}
        /\ wasActive[r] /\ Holds(cred[r], Bits) /\ ask[r].sameOrigin
        /\ k \in DOMAIN shown \/ pc[r] = "reply" \/ answer[r] \in {"500", "lost"}

Issuing == {r \in Requests : fresh[r] # NoKey}

KeysInv ==
  /\ drawn <= 1 + MaxCommands + Cardinality(Issuing)
  /\ \A r, q \in Issuing : fresh[r] = fresh[q] => r = q
  /\ \A r \in Issuing : Stored(fresh[r]) => rows[fresh[r]].by = r
  /\ \A k \in DOMAIN shown : Stored(k) /\ rows[k].permissions = Permissions(shown[k])
  /\ cli # NoCommand => Stored(cli.key) /\ rows[cli.key].permissions = Permissions(cli.role)

AccessInv ==
  /\ TypeOK
  /\ \A r \in Requests : RequestInv(r)
  /\ \A k \in DOMAIN rows : RowInv(k)
  /\ KeysInv

(* Every request is answered, however few connections there are for        *)
(* however many requests: none of them waits for a connection while it     *)
(* holds another (keys.py:85, admin/routes.py:188, main.py:49).            *)
RequestsEnd == \A r \in Requests : pc[r] = "auth" ~> pc[r] = "done"
=============================================================================
