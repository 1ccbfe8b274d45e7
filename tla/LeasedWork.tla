----------------------------- MODULE LeasedWork -----------------------------
(***************************************************************************)
(* What durable execution promises of one piece of work, without tables,   *)
(* clocks, limits or idempotency: accepted work waits, is held by at most  *)
(* one worker at a time, comes back at most Budget times in all, and once  *)
(* done is done for ever.                                                  *)
(*                                                                         *)
(* One step of the service may move many pieces of work, because every     *)
(* claim first sweeps the workspace, but it hands out at most one.         *)
(***************************************************************************)
EXTENDS Naturals

CONSTANTS Job, Worker, None, Definition,
          Budget  \* [Definition -> how often work of that kind is handed out]

VARIABLE item     \* [Job -> state, kind, holder and number of grants]

Untouched == [state |-> "absent", kind |-> None, holder |-> None, grants |-> 0]

Init == item = [j \in Job |-> Untouched]

Accepted(i, k) ==
  /\ i.state = "absent"
  /\ k.state = "waiting" /\ k.kind \in Definition /\ k.holder = None /\ k.grants = 0

Granted(i, k) ==
  /\ i.state = "waiting"
  /\ i.grants < Budget[i.kind]
  /\ \E w \in Worker :
       k = [i EXCEPT !.state = "held", !.holder = w, !.grants = @ + 1]

\* Held work comes back only while it may be handed out again.
Returned(i, k) ==
  /\ i.state = "held"
  /\ \/ k = [i EXCEPT !.state = "done", !.holder = None]
     \/ /\ i.grants < Budget[i.kind]
        /\ k = [i EXCEPT !.state = "waiting", !.holder = None]

Withdrawn(i, k) ==
  /\ i.state = "waiting"
  /\ k = [i EXCEPT !.state = "done"]

\* A worker that runs its job in one transaction takes it and returns it.
Turned(i, k) ==
  /\ i.state = "waiting"
  /\ i.grants < Budget[i.kind]
  /\ \/ k = [i EXCEPT !.state = "done", !.grants = @ + 1]
     \/ /\ i.grants + 1 < Budget[i.kind]
        /\ k = [i EXCEPT !.grants = @ + 1]

HandedOut(i, k) == Granted(i, k) \/ Turned(i, k)

Moves(i, k) ==
  k = i \/ Accepted(i, k) \/ Returned(i, k) \/ Withdrawn(i, k) \/ HandedOut(i, k)

Next ==
  /\ \A j \in Job : Moves(item[j], item'[j])
  /\ \A j, k \in Job :
       HandedOut(item[j], item'[j]) /\ HandedOut(item[k], item'[k]) => j = k
  /\ DOMAIN item' = Job

Spec == Init /\ [][Next]_item
=============================================================================
