----------------------------- MODULE RateLimiter -----------------------------
(***************************************************************************)
(* The gate of /api/v1 for one API key (services/pulse-api/app/security):  *)
(* the key is looked up in PostgreSQL, the API process that serves the     *)
(* request reads its own clock, and one Lua script in Redis counts the     *)
(* requests of the sliding window and admits or denies. Requests of one    *)
(* key run concurrently in several processes, so they reach Redis in an    *)
(* order that is not the order of their time stamps.                       *)
(*                                                                         *)
(* Time is counted in ticks, `Second` of them to a second; `time` is       *)
(* Redis's clock. A process may be up to Ahead ticks before that clock; a  *)
(* time stamp is at most Late ticks old when the script runs: the process  *)
(* is behind, or the call is slow. MaxTime bounds time for model checking. *)
(***************************************************************************)
EXTENDS Integers, FiniteSets

CONSTANTS Request,   (* the requests that carry the key *)
          Limit,     (* api_keys.rate_limit *)
          Window,    (* WINDOW_SECONDS, in ticks *)
          Second, Ahead, Late, MaxTime

ASSUME LimiterAssumption ==
  /\ IsFiniteSet(Request)
  /\ Limit \in Nat
  /\ Window \in Nat \ {0} /\ Second \in Nat \ {0}
  /\ Ahead \in Nat /\ Late \in Nat /\ MaxTime \in Nat

VARIABLES time,
          revoked,     (* the key has been revoked *)
          state,       (* where each request is *)
          stamp,       (* time.time() of the process that serves it *)
          zset,        (* the members of the ZSET; a member's score is its stamp *)
          expires,     (* when Redis drops the ZSET as a whole *)
          admittedAt,  (* when the script admitted a request *)
          retryAfter,  (* Retry-After of a denied request, in seconds *)
          before       (* the requests admitted before it was denied *)

vars == <<time, revoked, state, stamp, zset, expires, admittedAt, retryAfter, before>>

States == {"new", "authorized", "stamped", "admitted", "denied", "unauthorized"}
Admitted == {q \in Request : state[q] = "admitted"}

(* time starts at Late: no time stamp is negative. *)
Init ==
  /\ time = Late
  /\ revoked = FALSE
  /\ state = [r \in Request |-> "new"]
  /\ stamp = [r \in Request |-> 0]
  /\ zset = {}
  /\ expires = 0
  /\ admittedAt = [r \in Request |-> 0]
  /\ retryAfter = [r \in Request |-> 0]
  /\ before = [r \in Request |-> {}]

Tick ==
  /\ time < MaxTime
  /\ time' = time + 1
  /\ UNCHANGED <<revoked, state, stamp, zset, expires, admittedAt, retryAfter, before>>

Revoke ==
  /\ ~revoked
  /\ revoked' = TRUE
  /\ UNCHANGED <<time, state, stamp, zset, expires, admittedAt, retryAfter, before>>
-----------------------------------------------------------------------------
(* require_api_key: the row is read once, the request goes on with it. *)
Authorize(r) ==
  /\ state[r] = "new"
  /\ state' = [state EXCEPT ![r] = IF revoked THEN "unauthorized" ELSE "authorized"]
  /\ UNCHANGED <<time, revoked, stamp, zset, expires, admittedAt, retryAfter, before>>

(* now = time.time() *)
ReadClock(r) ==
  /\ state[r] = "authorized"
  /\ \E now \in (time - Late) .. (time + Ahead) : stamp' = [stamp EXCEPT ![r] = now]
  /\ state' = [state EXCEPT ![r] = "stamped"]
  /\ UNCHANGED <<time, revoked, zset, expires, admittedAt, retryAfter, before>>
-----------------------------------------------------------------------------
(* The script runs in Redis as one step. *)

(* A ZSET past its EXPIRE is gone when it is next touched. *)
Members == IF time < expires THEN zset ELSE {}

(* ZREMRANGEBYSCORE key 0 now - window *)
SameFixedWindow(r) == {q \in Members : stamp[q] \div Window = stamp[r] \div Window}
Kept(r) == {q \in Members : stamp[q] > stamp[r] - Window}

Evaluable(r) == state[r] = "stamped" /\ stamp[r] >= time - Late

AdmitOneMore(r) == Cardinality(Kept(r)) <= Limit
HasRoom(r) == Cardinality(Kept(r)) < Limit

(* ZADD and EXPIRE *)
Admit(r) ==
  /\ Evaluable(r)
  /\ HasRoom(r)
  /\ zset' = Kept(r) \cup {r}
  /\ expires' = time + Window
  /\ state' = [state EXCEPT ![r] = "admitted"]
  /\ admittedAt' = [admittedAt EXCEPT ![r] = time]
  /\ UNCHANGED <<time, revoked, stamp, retryAfter, before>>

(* Seconds until the oldest member leaves the window of a clock like r's. *)
RetryRoundedDown(r, oldest) == (oldest + Window - stamp[r]) \div Second
RetryFor(r, oldest) ==
  LET wait == (oldest + Window - stamp[r]) \div Second + 1
  IN  IF wait < 1 THEN 1 ELSE wait

Deny(r) ==
  /\ Evaluable(r)
  /\ ~HasRoom(r)
  /\ zset' = Kept(r)
  /\ \/ /\ Kept(r) = {}
        /\ retryAfter' = [retryAfter EXCEPT ![r] = Window \div Second]
     \/ \E o \in Kept(r) :
          /\ \A q \in Kept(r) : stamp[o] <= stamp[q]
          /\ retryAfter' = [retryAfter EXCEPT ![r] = RetryFor(r, stamp[o])]
  /\ state' = [state EXCEPT ![r] = "denied"]
  /\ before' = [before EXCEPT ![r] = Admitted]
  /\ UNCHANGED <<time, revoked, stamp, expires, admittedAt>>

Next == \/ Tick \/ Revoke
        \/ \E r \in Request : Authorize(r) \/ ReadClock(r) \/ Admit(r) \/ Deny(r)

Spec == Init /\ [][Next]_vars
-----------------------------------------------------------------------------
(* Shape of the state; the ZSET of a key never outgrows its limit, however *)
(* often a client ignores 429 (rate_limit.py:53-54).                       *)
TypeOK ==
  /\ time \in Nat /\ Late <= time
  /\ revoked \in BOOLEAN
  /\ state \in [Request -> States]
  /\ stamp \in [Request -> Nat]
  /\ zset \subseteq Admitted /\ Cardinality(zset) <= Limit
  /\ expires \in Nat
  /\ admittedAt \in [Request -> Nat]
  /\ retryAfter \in [Request -> Nat]
  /\ before \in [Request -> SUBSET Request]

(* How much shorter than the window the time is that the limit is kept for:*)
(* members leave by time stamps, and these are off by so much.             *)
Skew == Ahead + Late

AdmittedIn(from, to) == {q \in Admitted : from < admittedAt[q] /\ admittedAt[q] <= to}

(* The sliding window keeps its promise (rate_limit.py:3-8): wherever an   *)
(* interval begins, and not only at whole minutes, no more than Limit      *)
(* requests are admitted in it, in any interleaving of the processes, as   *)
(* long as it is shorter than the window by the error of the time stamps.  *)
LimitHolds ==
  \A t \in 0 .. time : Cardinality(AdmittedIn(t - (Window - Skew), t)) <= Limit

(* Why the limit holds: what was admitted so recently that its place may   *)
(* not be given away is still in the ZSET, and the ZSET is still there.    *)
StampsBounded ==
  \A r \in Request :
    /\ state[r] = "stamped" => stamp[r] <= time + Ahead
    /\ state[r] = "admitted" => /\ admittedAt[r] <= time
                                /\ admittedAt[r] - Late <= stamp[r]

RecentIsKept ==
  \A r \in Admitted :
    /\ admittedAt[r] + Window <= expires
    /\ time - (Window - Skew) < admittedAt[r] => r \in zset

LimiterInv == TypeOK /\ StampsBounded /\ RecentIsKept /\ LimitHolds

(* Retry-After is honest (rate_limit.py:34-39, 60-61): a request whose     *)
(* time stamp is Retry-After seconds after that of a denied one is denied  *)
(* again only if the key was used in between. So a denied request itself   *)
(* never takes a place in the window.                                      *)
RetryAfterIsHonest ==
  \A q, r \in Request :
    /\ state[q] = "denied" /\ state[r] = "denied"
    /\ Limit > 0
    /\ stamp[r] >= stamp[q] + Second * retryAfter[q]
    => before[q] # before[r]

(* Why it is: until the key is used again, the ZSET is what the denied     *)
(* request saw, full, and Retry-After reaches past one of its members.     *)
DenialStands(q) ==
  /\ Cardinality(zset) >= Limit
  /\ \A o \in zset : stamp[o] > stamp[q] - Window
  /\ \E o \in zset : stamp[o] + Window < stamp[q] + Second * retryAfter[q]

DenialsInv ==
  /\ \A q \in Request :
       state[q] = "denied" /\ Limit > 0 =>
         before[q] \subseteq Admitted /\ (before[q] = Admitted => DenialStands(q))
  /\ RetryAfterIsHonest
=============================================================================
