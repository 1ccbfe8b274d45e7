------------------------------ MODULE Commands ------------------------------
(***************************************************************************)
(* CommandService.record of app/messaging/service.py: the optimistic,      *)
(* idempotent command with its audit row and its outbox row.               *)
(*                                                                         *)
(* A command is one transaction that takes three row locks in turn: its    *)
(* idempotency row, its aggregate's version row and the audit chain head,  *)
(* which the audit trigger of migration 0012 takes.  Each lock is held to  *)
(* the end of the transaction, so the steps between two locks are one      *)
(* action, and the tables show only what was committed.                    *)
(***************************************************************************)
EXTENDS Integers, Sequences, FiniteSets

CONSTANTS
  Client,     \* transactions that run at the same time
  Key,        \* idempotency keys; a key stands for (actor, command type, key)
  Aggregate,  \* aggregates of the workspace
  Payload,    \* what the request digest covers besides aggregate and version
  Major,      \* schema majors of the events
  None,       \* SQL NULL
  MaxVersion  \* bound: no command expects a later version

VARIABLES
  idem,     \* command_idempotency: per key the committed row or None
  version,  \* aggregate_versions
  outbox,   \* outbox_events of these aggregates
  audit,    \* audit_events in chain order
  txn,      \* the transaction of each client
  answers   \* what the callers of committed transactions were told

cmdVars == <<idem, version, outbox, audit, txn, answers>>

\* CommandEnvelope; request_digest covers all of it but the key.
Command == [key : Key, aggregate : Aggregate, expected : 0..MaxVersion, payload : Payload]

Event == [aggregate : Aggregate, sequence : Nat, major : Major, key : Key]

Digest(cmd) == <<cmd.aggregate, cmd.expected, cmd.payload>>

Idle == [pc |-> "idle", cmd |-> None, major |-> None, read |-> 0]

Init ==
  /\ idem = [k \in Key |-> None]
  /\ version = [a \in Aggregate |-> 0]
  /\ outbox = {}
  /\ audit = <<>>
  /\ txn = [c \in Client |-> Idle]
  /\ answers = {}

-----------------------------------------------------------------------------
(* Row locks: who holds one follows from how far its transaction is. *)

KeyLockedBy(c, k) == txn[c].pc # "idle" /\ txn[c].cmd.key = k

AggregateLockedBy(c, a) == txn[c].pc \in {"locked", "audited"} /\ txn[c].cmd.aggregate = a

ChainLockedBy(c) == txn[c].pc = "audited"

KeyFree(k) == \A c \in Client : ~KeyLockedBy(c, k)

AggregateFreeOfAudited(a) ==
  \A c \in Client : ~(ChainLockedBy(c) /\ txn[c].cmd.aggregate = a)

AggregateFree(a) == \A c \in Client : ~AggregateLockedBy(c, a)

ChainFree == \A c \in Client : ~ChainLockedBy(c)

-----------------------------------------------------------------------------
\* claim_command inserts the row: another transaction's uncommitted row makes
\* the insert wait, a committed one makes it do nothing.
Claim(c, cmd, m) ==
  /\ txn[c].pc = "idle"
  /\ KeyFree(cmd.key)
  /\ idem[cmd.key] = None
  /\ txn' = [txn EXCEPT ![c] = [pc |-> "claimed", cmd |-> cmd, major |-> m, read |-> 0]]
  /\ UNCHANGED <<idem, version, outbox, audit, answers>>

RetryAnyRequest(c, cmd) ==
  /\ txn[c].pc = "idle"
  /\ KeyFree(cmd.key)
  /\ idem[cmd.key] # None
  /\ idem[cmd.key].status = "completed"
  /\ answers' = answers \cup {[cmd |-> cmd, event |-> idem[cmd.key].event]}
  /\ UNCHANGED <<idem, version, outbox, audit, txn>>

\* An exact retry is told the original outcome.  With another digest, or with
\* a row that is not completed, record raises and nothing changes.
Retry(c, cmd) ==
  /\ txn[c].pc = "idle"
  /\ KeyFree(cmd.key)
  /\ idem[cmd.key] # None
  /\ idem[cmd.key].digest = Digest(cmd)
  /\ idem[cmd.key].status = "completed"
  /\ answers' = answers \cup {[cmd |-> cmd, event |-> idem[cmd.key].event]}
  /\ UNCHANGED <<idem, version, outbox, audit, txn>>

\* lock_aggregate, and the precondition holds.
Lock(c) ==
  /\ txn[c].pc = "claimed"
  /\ AggregateFree(txn[c].cmd.aggregate)
  /\ version[txn[c].cmd.aggregate] = txn[c].cmd.expected
  /\ txn' = [txn EXCEPT ![c].pc = "locked", ![c].read = version[txn[c].cmd.aggregate]]
  /\ UNCHANGED <<idem, version, outbox, audit, answers>>

ConflictOnlyBehind(c) ==
  /\ txn[c].pc = "claimed"
  /\ AggregateFree(txn[c].cmd.aggregate)
  /\ version[txn[c].cmd.aggregate] > txn[c].cmd.expected
  /\ txn' = [txn EXCEPT ![c] = Idle]
  /\ UNCHANGED <<idem, version, outbox, audit, answers>>

\* The precondition fails and record raises.  A caller that catches the error
\* inside its transaction commits the claimed row; any other rolls it back.
Conflict(c) ==
  LET cmd == txn[c].cmd
  IN  /\ txn[c].pc = "claimed"
      /\ AggregateFree(cmd.aggregate)
      /\ version[cmd.aggregate] # cmd.expected
      /\ \/ idem' = [idem EXCEPT ![cmd.key] =
                       [status |-> "started", digest |-> Digest(cmd), event |-> None]]
         \/ UNCHANGED idem
      /\ txn' = [txn EXCEPT ![c] = Idle]
      /\ UNCHANGED <<version, outbox, audit, answers>>

\* The event of the command c runs, which its audit row names.
EventOf(c) == [aggregate |-> txn[c].cmd.aggregate, sequence |-> txn[c].read + 1,
               major |-> txn[c].major, key |-> txn[c].cmd.key]

\* AuditWriterService.write: the trigger chain_audit_event locks the head.
WriteAudit(c) ==
  /\ txn[c].pc = "locked"
  /\ ChainFree
  /\ txn' = [txn EXCEPT ![c].pc = "audited"]
  /\ UNCHANGED <<idem, version, outbox, audit, answers>>

\* The rest of record, and the commit.  aggregate.version + 1 is computed from
\* the row read when it was locked.
Commit(c) ==
  LET cmd   == txn[c].cmd
      event == EventOf(c)
  IN  /\ txn[c].pc = "audited"
      /\ version' = [version EXCEPT ![cmd.aggregate] = event.sequence]
      /\ audit' = Append(audit, event)
      /\ outbox' = outbox \cup {event}
      /\ idem' = [idem EXCEPT ![cmd.key] =
                    [status |-> "completed", digest |-> Digest(cmd), event |-> event]]
      /\ answers' = answers \cup {[cmd |-> cmd, event |-> event]}
      /\ txn' = [txn EXCEPT ![c] = Idle]

\* The caller fails later in its transaction, or its process dies.
Rollback(c) ==
  /\ txn[c].pc # "idle"
  /\ txn' = [txn EXCEPT ![c] = Idle]
  /\ UNCHANGED <<idem, version, outbox, audit, answers>>

Progress(c) == Lock(c) \/ Conflict(c) \/ WriteAudit(c) \/ Commit(c)

Next ==
  \E c \in Client :
    \/ \E cmd \in Command : (\E m \in Major : Claim(c, cmd, m)) \/ Retry(c, cmd)
    \/ Lock(c) \/ Conflict(c) \/ WriteAudit(c) \/ Commit(c)
    \/ Rollback(c)

Spec == Init /\ [][Next]_cmdVars

-----------------------------------------------------------------------------
\* Version, outbox and audit commit together.  The events of an aggregate are
\* numbered 1, 2, ... up to its version, one event per number, so that
\* uq_outbox_aggregate_sequence never fails a command and a consumer that
\* demands consecutive sequences can always go on; and the audit chain names
\* each event once, per aggregate in the order of the sequences.
OutboxCountsVersion ==
  /\ \A a \in Aggregate :
       LET stream == {e \in outbox : e.aggregate = a}
       IN  /\ {e.sequence : e \in stream} = 1..version[a]
           /\ Cardinality(stream) = version[a]
  /\ Len(audit) = Cardinality(outbox)
  /\ \A e \in outbox : \E i \in DOMAIN audit : audit[i] = e
  /\ \A i, j \in DOMAIN audit :
       i < j /\ audit[i].aggregate = audit[j].aggregate
         => audit[i].sequence < audit[j].sequence

\* What callers can tell of commands that run at the same time: each that is
\* answered happened in one step, on the version its caller expected, with its
\* event; and whoever asks under a key that has an outcome is told that event
\* for the same request, and nothing for another.
Atomic == INSTANCE AtomicCommands WITH outcome <- idem

ImplementsAtomicCommands == Atomic!Spec
=============================================================================
