---------------------------- MODULE MCMessaging ----------------------------
(***************************************************************************)
(* Messaging in two instances.  In "races" three transactions compete for  *)
(* two aggregates; what they commit is of no interest to a consumer that   *)
(* takes one event after the other.  In "delivery" one client commits one  *)
(* event after the other, and they reach a consumer in any order.          *)
(***************************************************************************)
EXTENDS Messaging

CONSTANTS k1, k2, k3, a1, a2, c1, c2, c3, projection

VARIABLE part

\* Processes of two versions take the events, as during a rolling deployment.
BothMajors == [c \in Consumer |-> Major]

mcVars == <<part, cmdVars, conVars>>

MCInit == part \in {"delivery", "races"} /\ Init

\* The commands of each instance.
Racing ==
  \A c \in Client : txn'[c].pc # "idle" => txn'[c].major = 1 /\ txn'[c].cmd.expected <= 1

Delivered ==
  \A c \in Client :
    txn'[c].pc # "idle" => c = c1 /\ txn'[c].cmd.aggregate = a1 /\ txn'[c].cmd.payload = "p"

NextRace     == Cmd!Next /\ Racing /\ UNCHANGED conVars
NextDelivery == Next /\ Delivered

MCNext ==
  \/ part = "races" /\ NextRace /\ UNCHANGED part
  \/ part = "delivery" /\ NextDelivery /\ UNCHANGED part

MCSpec == MCInit /\ [][MCNext]_mcVars

\* A transaction that can go on does: waiters for a row lock are queued by the
\* database, so one that can get the lock again and again gets it.  The
\* delivery is fair to every event, and the operator replays what can be.
FairSpec ==
  /\ MCSpec
  /\ \A c \in Client :
       SF_mcVars(part = "races" /\ Cmd!Progress(c) /\ UNCHANGED <<part, conVars>>)
  /\ \A e \in {event \in Published : event.aggregate = a1} :
       WF_mcVars(part = "delivery" /\ Served(projection, e) /\ UNCHANGED part)

\* No set of transactions waits for each other for ever, and no command waits
\* for ever behind others: each one ends.
CommandEnds ==
  \A c \in Client :
    part = "races" /\ txn[c].pc # "idle" ~> part = "delivery" \/ txn[c].pc = "idle"

Ordered ==
  INSTANCE OrderedDelivery WITH
    length <- IF part = "delivery" THEN version ELSE [a \in Aggregate |-> 0], position <- last

\* Commands and consumers implement ordered delivery; with fair delivery and
\* replay the consumers read on as it promises, past poisoned, early, late and
\* unknown events, if their processes accept its schema.
ReadsOn == Ordered!FairSpec
=============================================================================
