--------------------------- MODULE EventConsumer ---------------------------
(***************************************************************************)
(* EventConsumerService of app/messaging/service.py: inbox deduplication,  *)
(* per-aggregate order, quarantine and authorized replay.                  *)
(*                                                                         *)
(* consume and replay lock the consumer's sequence row of the aggregate    *)
(* until their transaction ends, and an inbox row that another transaction *)
(* has inserted makes claim_inbox wait for its end, so each call is one    *)
(* action.  A call that raises, or whose process dies, is rolled back and  *)
(* is no step.                                                             *)
(*                                                                         *)
(* What carries events to the consumers is not part of the code: any event *)
(* of the outbox may arrive at any time, in any order, any number of times,*)
(* or not at all.                                                          *)
(***************************************************************************)
EXTENDS Integers, Sequences, FiniteSets

CONSTANTS
  Consumer,    \* consumer identities
  Aggregate,
  Event,       \* [aggregate, sequence, major, ...]
  Supported,   \* [Consumer -> the schema majors its deployed processes accept]
  None,
  MaxPoison    \* bound: handlers that fail

VARIABLES
  outbox,       \* the events committed so far; only read here
  inbox,        \* inbox_events: per consumer and event absent or a status
  last,         \* consumer_sequences.last_sequence
  quarantine,   \* event_quarantine: per consumer and event None or a row
  applied       \* per consumer the events whose handler ran and committed

conVars == <<inbox, last, quarantine, applied>>

Init ==
  /\ inbox = [c \in Consumer |-> [e \in Event |-> "absent"]]
  /\ last = [c \in Consumer |-> [a \in Aggregate |-> 0]]
  /\ quarantine = [c \in Consumer |-> [e \in Event |-> None]]
  /\ applied = [c \in Consumer |-> <<>>]

NextIn(c, e) == last[c][e.aggregate] + 1

\* _quarantine of an event the inbox has not seen.
SetAside(c, e, reason) ==
  /\ inbox[c][e] = "absent"
  /\ inbox' = [inbox EXCEPT ![c][e] = "quarantined"]
  /\ quarantine' = [quarantine EXCEPT ![c][e] = [reason |-> reason, status |-> "quarantined"]]
  /\ UNCHANGED <<last, applied>>

-----------------------------------------------------------------------------
(* consume: one action per outcome.  A duplicate changes nothing. *)

\* The process that takes the event accepts another major of its type.
ConsumeUnknown(c, e, m) ==
  /\ e \in outbox
  /\ m \in Supported[c]
  /\ m # e.major
  /\ SetAside(c, e, "unknown_schema")

ConsumeOutOfOrder(c, e) ==
  /\ e \in outbox
  /\ e.major \in Supported[c]
  /\ e.sequence # NextIn(c, e)
  /\ SetAside(c, e, IF e.sequence > NextIn(c, e) THEN "sequence_gap" ELSE "stale_sequence")

ConsumeAnyOrder(c, e) ==
  /\ e \in outbox
  /\ e.major \in Supported[c]
  /\ inbox[c][e] = "absent"
  /\ inbox' = [inbox EXCEPT ![c][e] = "processed"]
  /\ last' = [last EXCEPT ![c][e.aggregate] = e.sequence]
  /\ applied' = [applied EXCEPT ![c] = Append(@, e)]
  /\ UNCHANGED quarantine

\* The handler runs in a savepoint of the same transaction and succeeds.
ConsumeInOrder(c, e) ==
  /\ e \in outbox
  /\ e.major \in Supported[c]
  /\ e.sequence = NextIn(c, e)
  /\ inbox[c][e] = "absent"
  /\ inbox' = [inbox EXCEPT ![c][e] = "processed"]
  /\ last' = [last EXCEPT ![c][e.aggregate] = e.sequence]
  /\ applied' = [applied EXCEPT ![c] = Append(@, e)]
  /\ UNCHANGED quarantine

Poisoned == {p \in Consumer \X Event :
               quarantine[p[1]][p[2]] # None /\ quarantine[p[1]][p[2]].reason = "poison_message"}

\* The handler raises: its savepoint is rolled back, the event set aside.
ConsumePoison(c, e) ==
  /\ e \in outbox
  /\ e.major \in Supported[c]
  /\ e.sequence = NextIn(c, e)
  /\ Cardinality(Poisoned) < MaxPoison
  /\ SetAside(c, e, "poison_message")

Open(c, e) == quarantine[c][e] # None /\ quarantine[c][e].status = "quarantined"

\* As a bug: any quarantined event can be replayed, also one ahead of its turn.
ReplayAnyOrder(c, e) ==
  /\ Open(c, e)
  /\ e.major \in Supported[c]
  /\ inbox' = [inbox EXCEPT ![c][e] = "processed"]
  /\ last' = [last EXCEPT ![c][e.aggregate] = e.sequence]
  /\ quarantine' = [quarantine EXCEPT ![c][e].status = "replayed"]
  /\ UNCHANGED applied

\* replay by a process that accepts the event's schema, not a dry run: the
\* event counts as processed, and no handler runs.
Replay(c, e) ==
  /\ Open(c, e)
  /\ e.major \in Supported[c]
  /\ e.sequence = NextIn(c, e)
  /\ inbox' = [inbox EXCEPT ![c][e] = "processed"]
  /\ last' = [last EXCEPT ![c][e.aggregate] = e.sequence]
  /\ quarantine' = [quarantine EXCEPT ![c][e].status = "replayed"]
  /\ UNCHANGED applied

\* The outcomes of an arriving event that take it in.
TakeIn(c, e) ==
  \/ \E m \in Supported[c] : ConsumeUnknown(c, e, m)
  \/ ConsumeOutOfOrder(c, e)
  \/ ConsumeInOrder(c, e)
  \/ ConsumePoison(c, e)

Next == \E c \in Consumer, e \in Event : TakeIn(c, e) \/ Replay(c, e)

-----------------------------------------------------------------------------
AppliedInOrder ==
  \A c \in Consumer : \A i, j \in DOMAIN applied[c] :
    i < j /\ applied[c][i].aggregate = applied[c][j].aggregate
      => applied[c][i].sequence < applied[c][j].sequence

PositionIsProcessed ==
  \A c \in Consumer, e \in outbox :
    inbox[c][e] = "processed" <=> e.sequence <= last[c][e.aggregate]

Ran(c, e) == \E i \in DOMAIN applied[c] : applied[c][i] = e

Replayed(c, e) == quarantine[c][e] # None /\ quarantine[c][e].status = "replayed"

ProcessedOnce ==
  \A c \in Consumer, e \in Event :
    /\ inbox[c][e] = "processed" <=> Ran(c, e) \/ Replayed(c, e)
    /\ ~(Ran(c, e) /\ Replayed(c, e))

\* However often an event arrives, is set aside and replayed: per aggregate
\* its handler takes effect at most once and in the order of the sequence; the
\* consumer's position has passed exactly the events that count as processed;
\* and each of those had its handler run or was replayed, never both.
AppliedOnceInOrder == AppliedInOrder /\ PositionIsProcessed /\ ProcessedOnce

\* H0_FOUNDATION_SPEC.md: consumers process at least once, so an event that
\* counts as processed has had its handler run.
ProcessedWasApplied ==
  \A c \in Consumer, e \in Event :
    inbox[c][e] = "processed" => Ran(c, e)
=============================================================================
