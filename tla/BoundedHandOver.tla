-------------------------- MODULE BoundedHandOver --------------------------
(***************************************************************************)
(* What gh-collector owes the events its source hands over                 *)
(* (services/gh-collector/cmd/gh-collector/main.go:46-67, 384-392,         *)
(* 448-463): a bounded number of them is open at any time; each gets at    *)
(* most one answer; a run that ends in success has an answer to every one  *)
(* of them, and only a run that ends in failure gives any up.              *)
(***************************************************************************)
EXTENDS Integers, FiniteSets

CONSTANTS Item, Capacity

VARIABLES accepted, answered, abandoned, outcome

handOverVars == <<accepted, answered, abandoned, outcome>>

Open == accepted \ (answered \cup abandoned)

Init == /\ accepted = {} /\ answered = {} /\ abandoned = {}
        /\ outcome = "running"

Accept(x) == /\ outcome = "running"
             /\ x \notin accepted
             /\ Cardinality(Open) < Capacity
             /\ accepted' = accepted \cup {x}
             /\ UNCHANGED <<answered, abandoned, outcome>>

Answer(x) == /\ outcome = "running"
             /\ x \in Open
             /\ answered' = answered \cup {x}
             /\ UNCHANGED <<accepted, abandoned, outcome>>

Succeed == /\ outcome = "running"
           /\ Open = {}
           /\ outcome' = "success"
           /\ UNCHANGED <<accepted, answered, abandoned>>

Fail == /\ outcome = "running"
        /\ outcome' = "failure"
        /\ abandoned' = Open
        /\ UNCHANGED <<accepted, answered>>

Next == (\E x \in Item : Accept(x) \/ Answer(x)) \/ Succeed \/ Fail

Spec == Init /\ [][Next]_handOverVars
=============================================================================
