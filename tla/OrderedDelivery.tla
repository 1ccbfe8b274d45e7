-------------------------- MODULE OrderedDelivery --------------------------
(***************************************************************************)
(* What messaging promises a consumer, without transactions, inboxes and   *)
(* quarantines: each aggregate is a log that only grows at its end, and    *)
(* each consumer reads it from the start, one entry after the other,       *)
(* skipping none and never going back.                                     *)
(***************************************************************************)
EXTENDS Naturals

CONSTANTS Aggregate, Consumer

VARIABLES length,   \* per aggregate, the entries in its log
          position  \* per consumer and aggregate, the entries it has read

Init ==
  /\ length = [a \in Aggregate |-> 0]
  /\ position = [c \in Consumer |-> [a \in Aggregate |-> 0]]

Write(a) ==
  /\ length' = [length EXCEPT ![a] = @ + 1]
  /\ UNCHANGED position

Read(c, a) ==
  /\ position[c][a] < length[a]
  /\ position' = [position EXCEPT ![c][a] = @ + 1]
  /\ UNCHANGED length

Next == \E a \in Aggregate : Write(a) \/ \E c \in Consumer : Read(c, a)

Spec == Init /\ [][Next]_<<length, position>>

\* Every consumer reads on as long as there is more to read.
FairSpec ==
  Spec /\ \A c \in Consumer, a \in Aggregate : WF_<<length, position>>(Read(c, a))
=============================================================================
