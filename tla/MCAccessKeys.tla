---------------------------- MODULE MCAccessKeys ----------------------------
(* Instances of AccessKeys for TLC. *)
EXTENDS AccessKeys

(* The role matters to POST /admin/keys only. So does the origin, which is *)
(* seen by a GET that another page asks for as well.                       *)
SomeAsks ==
  {[route |-> route, role |-> "api_only", sameOrigin |-> TRUE] : route \in Routes \ {"issue"}}
    \cup {[route |-> "issue", role |-> role, sameOrigin |-> TRUE] : role \in {"admin", "maintenance"}}
    \cup {[route |-> "issue", role |-> "admin", sameOrigin |-> FALSE],
          [route |-> "list", role |-> "api_only", sameOrigin |-> FALSE]}
=============================================================================
