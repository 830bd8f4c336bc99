------------------------- MODULE AtLeastOnceDelivery -------------------------
(***************************************************************************)
(* The promise of docs/adr/0004: a reader group acknowledges a message     *)
(* only after it is done with it. Each source is a stream of messages      *)
(* <<source, position>>; `mark` is how far the group has acknowledged a    *)
(* source (-1: it remembers nothing) and `floor` is where it began to read *)
(* the last time it remembered nothing.                                    *)
(***************************************************************************)
EXTENDS Integers

CONSTANTS Source, Position

VARIABLES sent, done, mark, floor

avars == <<sent, done, mark, floor>>

Init == /\ sent = {} /\ done = {}
        /\ mark = [s \in Source |-> -1]
        /\ floor = [s \in Source |-> 0]

Send == /\ sent \subseteq sent' /\ sent' \subseteq Source \X Position
        /\ UNCHANGED <<done, mark, floor>>

(* Messages get done in any order and any number of times. *)
Process == /\ done \subseteq done' /\ done' \subseteq sent
           /\ UNCHANGED <<sent, mark, floor>>

(* An acknowledgement only moves forward and covers only what is done. *)
Acknowledge ==
  /\ mark' \in [Source -> Position \cup {-1}]
  /\ \A s \in Source :
       /\ mark'[s] >= mark[s]
       /\ \A n \in Position :
            floor[s] <= n /\ n < mark'[s] => <<s, n>> \in done
  /\ UNCHANGED <<sent, done, floor>>

(* The group's memory is lost as a whole ... *)
Forget == /\ mark' = [s \in Source |-> -1]
          /\ UNCHANGED <<sent, done, floor>>

(* ... and a source it remembers nothing of is read from where it begins. *)
Begin == /\ \E s \in Source, n \in Position :
              /\ mark[s] = -1
              /\ n >= floor[s]
              /\ floor' = [floor EXCEPT ![s] = n]
         /\ UNCHANGED <<sent, done, mark>>

Next == Send \/ Process \/ Acknowledge \/ Forget \/ Begin

Spec == Init /\ [][Next]_avars
=============================================================================
