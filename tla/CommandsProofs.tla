--------------------------- MODULE CommandsProofs ---------------------------
(***************************************************************************)
(* Proofs about Commands, for any clients, keys, aggregates and payloads.  *)
(*                                                                         *)
(* The row locks are exclusive because a lock is only taken when no other  *)
(* transaction is as far.  So what a transaction read of its key and of    *)
(* its aggregate is still so when it commits: the key is free, and the     *)
(* version is the last sequence of the aggregate's stream.                 *)
(***************************************************************************)
EXTENDS Commands, FiniteSetTheorems, SequenceTheorems, TLAPS

Digests == Aggregate \X (0..MaxVersion) \X Payload

IdemRow ==
  [status : {"started"}, digest : Digests, event : {None}]
    \cup [status : {"completed"}, digest : Digests, event : Event]

\* NULL is no row, and the bound is a number.
NullIsNoRow == None \notin IdemRow /\ MaxVersion \in Nat

TxnRow ==
  {Idle} \cup [pc : {"claimed", "locked", "audited"}, cmd : Command, major : Major, read : Nat]

TypeOK ==
  /\ idem \in [Key -> {None} \cup IdemRow]
  /\ version \in [Aggregate -> Nat]
  /\ outbox \subseteq Event
  /\ audit \in Seq(Event)
  /\ txn \in [Client -> TxnRow]
  /\ answers \subseteq [cmd : Command, event : Event]

\* No two transactions work under one key, and the key of a running one has no row.
KeysExclusive ==
  \A c \in Client : txn[c].pc # "idle" =>
    /\ idem[txn[c].cmd.key] = None
    /\ \A d \in Client : txn[d].pc # "idle" /\ txn[d].cmd.key = txn[c].cmd.key => d = c

\* One transaction has an aggregate's row, and the version it read is the row's.
RowsExclusive ==
  \A c \in Client : txn[c].pc \in {"locked", "audited"} =>
    /\ txn[c].read = version[txn[c].cmd.aggregate]
    /\ \A d \in Client :
         txn[d].pc \in {"locked", "audited"} /\ txn[d].cmd.aggregate = txn[c].cmd.aggregate => d = c

\* What was published or told is what the key's row says.
OnRecord(key, event) ==
  idem[key] # None /\ idem[key].status = "completed" /\ idem[key].event = event

Recorded ==
  /\ \A e \in outbox : OnRecord(e.key, e)
  /\ \A r \in answers : OnRecord(r.cmd.key, r.event) /\ idem[r.cmd.key].digest = Digest(r.cmd)

StreamOf(a) == {e \in outbox : e.aggregate = a}

StreamsCount ==
  /\ IsFiniteSet(outbox)
  /\ \A a \in Aggregate :
       {e.sequence : e \in StreamOf(a)} = 1..version[a] /\ Cardinality(StreamOf(a)) = version[a]

AuditNames ==
  /\ Len(audit) = Cardinality(outbox)
  /\ \A i \in DOMAIN audit : audit[i] \in outbox
  /\ \A e \in outbox : \E i \in DOMAIN audit : audit[i] = e
  /\ \A i, j \in DOMAIN audit :
       i < j /\ audit[i].aggregate = audit[j].aggregate => audit[i].sequence < audit[j].sequence

IInv ==
  /\ TypeOK
  /\ KeysExclusive /\ RowsExclusive
  /\ Recorded
  /\ StreamsCount
  /\ AuditNames

-----------------------------------------------------------------------------
LEMMA Starts == ASSUME NullIsNoRow, Init PROVE IInv
<1> USE DEF Init
<1>1. TypeOK
  BY DEF TypeOK, TxnRow
<1>2. KeysExclusive /\ RowsExclusive /\ Recorded
  BY DEF KeysExclusive, RowsExclusive, Recorded, Idle
<1>3. StreamsCount
  <2>1. \A a \in Aggregate : StreamOf(a) = {}
    BY DEF StreamOf
  <2>2. {e.sequence : e \in {}} = 1..0
    OBVIOUS
  <2> QED BY <2>1, <2>2, FS_EmptySet DEF StreamsCount
<1>4. AuditNames
  BY FS_EmptySet DEF AuditNames
<1> QED BY <1>1, <1>2, <1>3, <1>4 DEF IInv

\* The row of a transaction that runs.
LEMMA RunningRow ==
  ASSUME TypeOK, NEW c \in Client, txn[c].pc # "idle"
  PROVE  /\ txn[c] \in [pc : {"claimed", "locked", "audited"}, cmd : Command, major : Major, read : Nat]
         /\ txn[c].cmd \in Command /\ txn[c].cmd.key \in Key /\ txn[c].cmd.aggregate \in Aggregate
         /\ EventOf(c) \in Event
<1>1. txn[c] \in [pc : {"claimed", "locked", "audited"}, cmd : Command, major : Major, read : Nat]
  BY DEF TypeOK, TxnRow, Idle
<1>2. txn[c].cmd \in Command /\ txn[c].read \in Nat /\ txn[c].major \in Major
  BY <1>1
<1> QED BY <1>1, <1>2 DEF Command, EventOf, Event

LEMMA ClaimKeeps ==
  ASSUME IInv, NEW c \in Client, NEW cmd \in Command, NEW m \in Major, Claim(c, cmd, m) PROVE IInv'
<1> USE DEF Claim
<1>1. TypeOK'
  BY DEF IInv, TypeOK, TxnRow
<1>2. txn'[c].pc = "claimed" /\ txn'[c].cmd = cmd /\ \A d \in Client : d # c => txn'[d] = txn[d]
  BY DEF IInv, TypeOK
<1>3. KeysExclusive'
  BY <1>2 DEF IInv, KeysExclusive, KeyFree, KeyLockedBy
<1>4. RowsExclusive'
  BY <1>2 DEF IInv, RowsExclusive
<1>5. Recorded' /\ StreamsCount' /\ AuditNames'
  BY DEF IInv, Recorded, OnRecord, StreamsCount, StreamOf, AuditNames
<1> QED BY <1>1, <1>3, <1>4, <1>5 DEF IInv

LEMMA RetryKeeps ==
  ASSUME IInv, NEW c \in Client, NEW cmd \in Command, Retry(c, cmd) PROVE IInv'
<1> USE DEF Retry
<1>1. cmd.key \in Key /\ idem[cmd.key].event \in Event
  BY DEF IInv, TypeOK, IdemRow, Command
<1>2. TypeOK'
  BY <1>1 DEF IInv, TypeOK
<1>3. KeysExclusive' /\ RowsExclusive' /\ StreamsCount' /\ AuditNames'
  BY DEF IInv, KeysExclusive, RowsExclusive, StreamsCount, StreamOf, AuditNames
<1>4. Recorded'
  BY DEF IInv, Recorded, OnRecord
<1> QED BY <1>2, <1>3, <1>4 DEF IInv

\* A transaction that goes back to the start, with its key's row perhaps left behind.
LEMMA EndKeeps ==
  ASSUME IInv, NEW c \in Client, Conflict(c) \/ Rollback(c) PROVE IInv'
<1> DEFINE cmd == txn[c].cmd
<1>0. txn[c].pc # "idle"
  BY DEF Conflict, Rollback
<1>1. cmd \in Command /\ cmd.key \in Key /\ idem[cmd.key] = None /\ Digest(cmd) \in Digests
  BY <1>0, RunningRow DEF IInv, KeysExclusive, Digest, Digests, Command
<1>2. txn' = [txn EXCEPT ![c] = Idle] /\ UNCHANGED <<version, outbox, audit, answers>>
  BY DEF Conflict, Rollback
<1>3. \/ UNCHANGED idem
      \/ idem' = [idem EXCEPT ![cmd.key] = [status |-> "started", digest |-> Digest(cmd), event |-> None]]
  BY DEF Conflict, Rollback
<1>4. TypeOK'
  <2>1. idem' \in [Key -> {None} \cup IdemRow]
    BY <1>1, <1>3 DEF IInv, TypeOK, IdemRow
  <2> QED BY <1>2, <2>1 DEF IInv, TypeOK, TxnRow
<1>5. txn'[c].pc = "idle" /\ \A d \in Client : d # c => txn'[d] = txn[d]
  BY <1>2 DEF IInv, TypeOK, Idle
<1>6. \A k \in Key : k # cmd.key => idem'[k] = idem[k]
  BY <1>1, <1>3 DEF IInv, TypeOK
<1>7. KeysExclusive'
  <2> SUFFICES ASSUME NEW d \in Client, txn'[d].pc # "idle"
               PROVE  /\ idem'[txn'[d].cmd.key] = None
                      /\ \A e \in Client : txn'[e].pc # "idle" /\ txn'[e].cmd.key = txn'[d].cmd.key => e = d
    BY DEF KeysExclusive
  <2>1. d # c /\ txn'[d] = txn[d] /\ txn[d].pc # "idle"
    BY <1>5
  <2>2. txn[d].cmd.key \in Key /\ txn[d].cmd.key # cmd.key
    BY <1>0, <2>1, RunningRow DEF IInv, KeysExclusive
  <2> QED BY <1>5, <1>6, <2>1, <2>2 DEF IInv, KeysExclusive
<1>8. RowsExclusive'
  BY <1>2, <1>5 DEF IInv, RowsExclusive
<1>9. Recorded'
  <2>1. \A k \in Key : \A e : OnRecord(k, e) => k # cmd.key /\ idem'[k] = idem[k]
    BY <1>1, <1>6 DEF OnRecord
  <2>2. \A e \in outbox : e.key \in Key
    BY DEF IInv, TypeOK, Event
  <2>3. \A r \in answers : r.cmd.key \in Key
    BY DEF IInv, TypeOK, Command
  <2> QED BY <1>2, <2>1, <2>2, <2>3 DEF IInv, Recorded, OnRecord
<1>10. StreamsCount' /\ AuditNames'
  BY <1>2 DEF IInv, StreamsCount, StreamOf, AuditNames
<1> QED BY <1>4, <1>7, <1>8, <1>9, <1>10 DEF IInv

LEMMA LockKeeps ==
  ASSUME IInv, NEW c \in Client, Lock(c) \/ WriteAudit(c) PROVE IInv'
<1>1. txn[c].pc # "idle" /\ txn[c] \in [pc : {"claimed", "locked", "audited"}, cmd : Command, major : Major, read : Nat]
  BY RunningRow DEF Lock, WriteAudit, IInv
<1>2. UNCHANGED <<idem, version, outbox, audit, answers>>
  BY DEF Lock, WriteAudit
<1>3. /\ txn'[c] \in [pc : {"locked", "audited"}, cmd : {txn[c].cmd}, major : Major, read : Nat]
      /\ txn'[c].read = version[txn[c].cmd.aggregate]
      /\ \A d \in Client : d # c => txn'[d] = txn[d]
      /\ DOMAIN txn' = Client /\ txn' = [d \in Client |-> txn'[d]]
  <2>1. CASE Lock(c)
    BY <1>1, <2>1 DEF Lock, IInv, TypeOK, Command
  <2>2. CASE WriteAudit(c)
    BY <1>1, <2>2 DEF WriteAudit, IInv, TypeOK, RowsExclusive
  <2> QED BY <2>1, <2>2
<1>4. TypeOK'
  <2>1. \A d \in Client : txn'[d] \in TxnRow
    BY <1>1, <1>3 DEF IInv, TypeOK, TxnRow
  <2> QED BY <1>2, <1>3, <2>1 DEF IInv, TypeOK
<1>5. KeysExclusive'
  BY <1>1, <1>2, <1>3 DEF IInv, KeysExclusive
<1>6. RowsExclusive'
  <2>1. \A d \in Client : d # c /\ txn[d].pc \in {"locked", "audited"}
          => txn[d].cmd.aggregate # txn[c].cmd.aggregate
    BY DEF Lock, WriteAudit, AggregateFree, AggregateLockedBy, IInv, RowsExclusive
  <2> QED BY <1>2, <1>3, <2>1 DEF IInv, RowsExclusive
<1>7. Recorded' /\ StreamsCount' /\ AuditNames'
  BY <1>2 DEF IInv, Recorded, OnRecord, StreamsCount, StreamOf, AuditNames
<1> QED BY <1>4, <1>5, <1>6, <1>7 DEF IInv

\* The event of a commit carries the next number of its aggregate's stream.
LEMMA CommitKeeps ==
  ASSUME NullIsNoRow, IInv, NEW c \in Client, Commit(c) PROVE IInv'
<1> PICK cmd, event : cmd = txn[c].cmd /\ event = EventOf(c)
  OBVIOUS
<1> DEFINE row == [status |-> "completed", digest |-> Digest(cmd), event |-> event]
<1>0. txn[c].pc = "audited"
  BY DEF Commit
<1>1. /\ cmd \in Command /\ cmd.key \in Key /\ cmd.aggregate \in Aggregate
      /\ event \in Event /\ event.key = cmd.key /\ event.aggregate = cmd.aggregate
      /\ event.sequence = version[cmd.aggregate] + 1
      /\ idem[cmd.key] = None
  BY <1>0, RunningRow DEF IInv, KeysExclusive, RowsExclusive, EventOf
<1>2. /\ version' = [version EXCEPT ![cmd.aggregate] = event.sequence]
      /\ audit' = Append(audit, event)
      /\ outbox' = outbox \cup {event}
      /\ idem' = [idem EXCEPT ![cmd.key] = row]
      /\ answers' = answers \cup {[cmd |-> cmd, event |-> event]}
      /\ txn' = [txn EXCEPT ![c] = Idle]
  BY DEF Commit
<1>3. row \in IdemRow /\ row # None
  BY <1>1 DEF IdemRow, Digest, Digests, Command, NullIsNoRow
<1> HIDE DEF row
<1>4. TypeOK'
  <2>1. idem' \in [Key -> {None} \cup IdemRow] /\ version' \in [Aggregate -> Nat]
    BY <1>1, <1>2, <1>3 DEF IInv, TypeOK
  <2>2. outbox' \subseteq Event /\ audit' \in Seq(Event) /\ answers' \subseteq [cmd : Command, event : Event]
    BY <1>1, <1>2 DEF IInv, TypeOK
  <2>3. txn' \in [Client -> TxnRow]
    BY <1>2 DEF IInv, TypeOK, TxnRow
  <2> QED BY <2>1, <2>2, <2>3 DEF TypeOK
<1>5. txn'[c].pc = "idle" /\ \A d \in Client : d # c => txn'[d] = txn[d]
  BY <1>2 DEF IInv, TypeOK, Idle
<1>6. \A d \in Client : d # c /\ txn[d].pc # "idle" => txn[d].cmd.key # cmd.key /\ txn[d].cmd.key \in Key
  BY <1>0, RunningRow DEF IInv, KeysExclusive
<1>7. \A d \in Client : d # c /\ txn[d].pc \in {"locked", "audited"}
        => txn[d].cmd.aggregate # cmd.aggregate /\ txn[d].cmd.aggregate \in Aggregate
  BY <1>0, RunningRow DEF IInv, RowsExclusive
<1>8. /\ \A k \in Key : k # cmd.key => idem'[k] = idem[k]
      /\ idem'[cmd.key] = row
      /\ \A a \in Aggregate : a # cmd.aggregate => version'[a] = version[a]
      /\ version'[cmd.aggregate] = version[cmd.aggregate] + 1
  BY <1>1, <1>2 DEF IInv, TypeOK
<1>9. KeysExclusive'
  BY <1>5, <1>6, <1>8 DEF IInv, KeysExclusive
<1>10. RowsExclusive'
  BY <1>5, <1>7, <1>8 DEF IInv, RowsExclusive
<1>11. Recorded'
  <2>1. \A k \in Key : \A e : OnRecord(k, e) => k # cmd.key /\ OnRecord(k, e)' /\ idem'[k] = idem[k]
    BY <1>1, <1>8 DEF OnRecord
  <2>2. row.status = "completed" /\ row.event = event /\ row.digest = Digest(cmd)
    BY DEF row
  <2>3. OnRecord(cmd.key, event)' /\ idem'[cmd.key].digest = Digest(cmd)
    BY <1>3, <1>8, <2>2 DEF OnRecord
  <2>4. \A e \in outbox' : OnRecord(e.key, e)'
    BY <1>1, <1>2, <2>1, <2>3 DEF IInv, TypeOK, Event, Recorded
  <2>5. ASSUME NEW r \in answers' PROVE OnRecord(r.cmd.key, r.event)' /\ idem'[r.cmd.key].digest = Digest(r.cmd)
    <3>1. CASE r \in answers
      BY <2>1, <3>1 DEF IInv, TypeOK, Command, Recorded
    <3>2. CASE r = [cmd |-> cmd, event |-> event]
      BY <2>3, <3>2
    <3> QED BY <1>2, <2>5, <3>1, <3>2
  <2> QED BY <2>4, <2>5 DEF Recorded
<1>12. event \notin StreamOf(cmd.aggregate) /\ event \notin outbox
  <2>1. \A e \in StreamOf(cmd.aggregate) : e.sequence <= version[cmd.aggregate]
    BY <1>1 DEF IInv, StreamsCount
  <2> QED BY <1>1, <2>1 DEF IInv, TypeOK, StreamOf
<1>13. StreamsCount'
  <2>1. IsFiniteSet(outbox')
    BY <1>2, FS_AddElement DEF IInv, StreamsCount
  <2>2. ASSUME NEW a \in Aggregate, a # cmd.aggregate
        PROVE  {e.sequence : e \in StreamOf(a)'} = 1..version'[a] /\ Cardinality(StreamOf(a)') = version'[a]
    <3>1. StreamOf(a)' = StreamOf(a)
      BY <1>1, <1>2, <2>2 DEF StreamOf
    <3> QED BY <1>8, <2>2, <3>1 DEF IInv, StreamsCount
  <2>3. LET a == cmd.aggregate
        IN  {e.sequence : e \in StreamOf(a)'} = 1..version'[a] /\ Cardinality(StreamOf(a)') = version'[a]
    <3> DEFINE S == StreamOf(cmd.aggregate)
    <3>1. StreamOf(cmd.aggregate)' = S \cup {event}
      BY <1>1, <1>2 DEF StreamOf
    <3>2. {e.sequence : e \in S} = 1..version[cmd.aggregate] /\ Cardinality(S) = version[cmd.aggregate]
      BY <1>1 DEF IInv, StreamsCount
    <3>3. {e.sequence : e \in S \cup {event}} = {e.sequence : e \in S} \cup {version[cmd.aggregate] + 1}
      BY <1>1
    <3>4. version[cmd.aggregate] \in Nat
      BY <1>1 DEF IInv, TypeOK
    <3>5. (1..version[cmd.aggregate]) \cup {version[cmd.aggregate] + 1} = 1..(version[cmd.aggregate] + 1)
      BY <3>4
    <3>6. IsFiniteSet(S)
      BY FS_Subset DEF IInv, StreamsCount, StreamOf
    <3>7. Cardinality(S \cup {event}) = version[cmd.aggregate] + 1
      BY <1>12, <3>2, <3>6, FS_AddElement, ZenonT(60)
    <3> QED BY <1>8, <3>1, <3>2, <3>3, <3>5, <3>7
  <2> QED BY <2>1, <2>2, <2>3 DEF StreamsCount
<1>14. AuditNames'
  <2>1. audit \in Seq(Event) /\ Len(audit') = Len(audit) + 1 /\ DOMAIN audit' = 1..(Len(audit) + 1)
        /\ audit'[Len(audit) + 1] = event /\ \A i \in DOMAIN audit : audit'[i] = audit[i]
    BY <1>1, <1>2 DEF IInv, TypeOK
  <2>2. Len(audit) \in Nat /\ DOMAIN audit = 1..Len(audit)
    BY <2>1
  <2>3. Len(audit') = Cardinality(outbox')
    BY <1>2, <1>12, <2>1, FS_AddElement DEF IInv, StreamsCount, AuditNames
  <2>4. \A i \in DOMAIN audit' : audit'[i] \in outbox'
    BY <1>2, <2>1, <2>2 DEF IInv, AuditNames
  <2>5. \A e \in outbox' : \E i \in DOMAIN audit' : audit'[i] = e
    BY <1>2, <2>1, <2>2 DEF IInv, AuditNames
  <2>6. ASSUME NEW i \in DOMAIN audit', NEW j \in DOMAIN audit', i < j,
               audit'[i].aggregate = audit'[j].aggregate
        PROVE  audit'[i].sequence < audit'[j].sequence
    <3>1. i \in DOMAIN audit
      BY <2>1, <2>2, <2>6
    <3>2. CASE j \in DOMAIN audit
      BY <2>1, <2>6, <3>1, <3>2 DEF IInv, AuditNames
    <3>3. CASE j = Len(audit) + 1
      <4>1. audit[i] \in StreamOf(cmd.aggregate)
        BY <1>1, <2>1, <2>6, <3>1, <3>3 DEF IInv, AuditNames, StreamOf
      <4>2. audit[i].sequence \in 1..version[cmd.aggregate]
        BY <1>1, <4>1 DEF IInv, StreamsCount
      <4> QED BY <1>1, <2>1, <3>1, <3>3, <4>2 DEF IInv, TypeOK
    <3> QED BY <2>1, <2>2, <2>6, <3>2, <3>3
  <2> QED BY <2>3, <2>4, <2>5, <2>6 DEF AuditNames
<1> QED BY <1>4, <1>9, <1>10, <1>11, <1>13, <1>14 DEF IInv

\* Exclusive locks, one row per key, and streams that count their aggregate's version.
THEOREM CommandInvariant == ASSUME NullIsNoRow PROVE Spec => []IInv
<1>1. Init => IInv
  BY Starts
<1>2. ASSUME IInv, UNCHANGED cmdVars PROVE IInv'
  <2>1. TypeOK' /\ KeysExclusive' /\ RowsExclusive'
    BY <1>2 DEF cmdVars, IInv, TypeOK, KeysExclusive, RowsExclusive
  <2>2. Recorded' /\ StreamsCount' /\ AuditNames'
    BY <1>2 DEF cmdVars, IInv, Recorded, OnRecord, StreamsCount, StreamOf, AuditNames
  <2> QED BY <2>1, <2>2 DEF IInv
<1>3. IInv /\ Next => IInv'
  BY NullIsNoRow, ClaimKeeps, RetryKeeps, EndKeeps, LockKeeps, CommitKeeps DEF Next
<1> QED BY <1>1, <1>2, <1>3, PTL DEF Spec

LEMMA OutboxFollows == ASSUME IInv PROVE OutboxCountsVersion
  BY DEF IInv, StreamsCount, StreamOf, AuditNames, OutboxCountsVersion

\* All callers of one key got one outcome, for one request, and that outcome is the one event
\* of the key.
OneOutcomePerKey ==
  /\ \A r, s \in answers : r.cmd.key = s.cmd.key => r = s
  /\ \A d, e \in outbox : d.key = e.key => d = e

LEMMA OutcomesFollow == ASSUME IInv PROVE OneOutcomePerKey
<1>1. \A d, e \in outbox : d.key = e.key => d = e
  BY DEF IInv, Recorded, OnRecord
<1>2. ASSUME NEW r \in answers, NEW s \in answers, r.cmd.key = s.cmd.key PROVE r = s
  <2>1. r \in [cmd : Command, event : Event] /\ s \in [cmd : Command, event : Event]
    BY DEF IInv, TypeOK
  <2>2. r.event = s.event /\ Digest(r.cmd) = Digest(s.cmd)
    BY <1>2 DEF IInv, Recorded, OnRecord
  <2>3. r.cmd = s.cmd
    BY <1>2, <2>1, <2>2 DEF Digest, Command
  <2> QED BY <2>1, <2>2, <2>3
<1> QED BY <1>1, <1>2 DEF OneOutcomePerKey

\* The events of an aggregate are numbered as its version counts, and the audit chain names
\* each once and in order: CommandService.record, whoever runs at the same time.
THEOREM OutboxCountsVersionHolds == ASSUME NullIsNoRow PROVE Spec => []OutboxCountsVersion
<1> QED BY OutboxFollows, CommandInvariant, PTL

\* A key has one event, and whoever asked under the key was told that event, for the same
\* request: CommandService.record under retries, conflicts, rollbacks and crashes.
THEOREM OneOutcomePerKeyHolds == ASSUME NullIsNoRow PROVE Spec => []OneOutcomePerKey
<1> QED BY OutcomesFollow, CommandInvariant, PTL

-----------------------------------------------------------------------------
(* Refinement *)

\* A transaction that has its aggregate's row read the version its caller expects.
ReadIsExpected ==
  \A c \in Client : txn[c].pc \in {"locked", "audited"} => txn[c].read = txn[c].cmd.expected

LEMMA ReadIsExpectedKept == ASSUME IInv, ReadIsExpected, Next PROVE ReadIsExpected'
<1>0. txn \in [Client -> TxnRow] /\ Idle.pc = "idle"
  BY DEF IInv, TypeOK, Idle
<1>1. ASSUME NEW c \in Client, NEW cmd \in Command, (\E m \in Major : Claim(c, cmd, m)) \/ Retry(c, cmd)
      PROVE  ReadIsExpected'
  <2>1. CASE Retry(c, cmd)
    BY <2>1 DEF Retry, ReadIsExpected
  <2>2. CASE \E m \in Major : Claim(c, cmd, m)
    <3>1. txn'[c].pc = "claimed" /\ \A d \in Client : d # c => txn'[d] = txn[d]
      BY <1>0, <2>2 DEF Claim
    <3> QED BY <3>1 DEF ReadIsExpected
  <2> QED BY <1>1, <2>1, <2>2
<1>2. ASSUME NEW c \in Client, Lock(c) \/ WriteAudit(c) PROVE ReadIsExpected'
  <2>1. txn[c] \in [pc : {"claimed", "locked", "audited"}, cmd : Command, major : Major, read : Nat]
    BY <1>2, RunningRow DEF Lock, WriteAudit, IInv
  <2>2. txn'[c].cmd = txn[c].cmd /\ txn'[c].read = txn[c].cmd.expected
        /\ \A d \in Client : d # c => txn'[d] = txn[d]
    BY <1>0, <1>2, <2>1 DEF Lock, WriteAudit, ReadIsExpected
  <2> QED BY <2>2 DEF ReadIsExpected
<1>3. ASSUME NEW c \in Client, Conflict(c) \/ Commit(c) \/ Rollback(c) PROVE ReadIsExpected'
  <2>1. txn' = [txn EXCEPT ![c] = Idle]
    BY <1>3 DEF Conflict, Commit, Rollback
  <2>2. txn'[c].pc = "idle" /\ \A d \in Client : d # c => txn'[d] = txn[d]
    BY <1>0, <2>1
  <2> QED BY <2>2 DEF ReadIsExpected
<1> QED BY <1>1, <1>2, <1>3 DEF Next

\* An event is published for a version that a command expected.
LEMMA CommitNumbers ==
  ASSUME IInv, ReadIsExpected, NEW c \in Client, Commit(c)
  PROVE  LET cmd == txn[c].cmd
         IN  /\ cmd \in Command /\ txn[c].major \in Major
             /\ version[cmd.aggregate] = cmd.expected /\ idem[cmd.key] = None
             /\ EventOf(c) = [aggregate |-> cmd.aggregate, sequence |-> cmd.expected + 1,
                              major |-> txn[c].major, key |-> cmd.key]
<1>1. txn[c].pc = "audited"
  BY DEF Commit
<1>2. txn[c] \in [pc : {"claimed", "locked", "audited"}, cmd : Command, major : Major, read : Nat]
  BY <1>1, RunningRow DEF IInv
<1>3. txn[c].read = txn[c].cmd.expected /\ txn[c].read = version[txn[c].cmd.aggregate]
  BY <1>1 DEF IInv, RowsExclusive, ReadIsExpected
<1> QED BY <1>1, <1>2, <1>3 DEF IInv, KeysExclusive, EventOf

LEMMA CommitIsAtomic ==
  ASSUME IInv, ReadIsExpected, NEW c \in Client, Commit(c) PROVE Atomic!Next
<1> PICK cmd, m, event : cmd = txn[c].cmd /\ m = txn[c].major /\ event = EventOf(c)
  OBVIOUS
<1>1. /\ cmd \in Command /\ m \in Major
      /\ version[cmd.aggregate] = cmd.expected /\ idem[cmd.key] = None
      /\ event = [aggregate |-> cmd.aggregate, sequence |-> cmd.expected + 1,
                  major |-> m, key |-> cmd.key]
  BY CommitNumbers
<1>2. event.sequence = cmd.expected + 1
  BY <1>1
<1>3. /\ version' = [version EXCEPT ![cmd.aggregate] = cmd.expected + 1]
      /\ outbox' = outbox \cup {event}
      /\ idem' = [idem EXCEPT ![cmd.key] =
                    [status |-> "completed", digest |-> Digest(cmd), event |-> event]]
      /\ answers' = answers \cup {[cmd |-> cmd, event |-> event]}
  BY <1>2 DEF Commit
<1>4. Atomic!Settle(cmd, "completed", event) /\ Atomic!Told(cmd, event)
  BY <1>1, <1>3, Zenon DEF Atomic!Settle, Atomic!Told, Digest
<1>5. Atomic!Execute(cmd, m)
  BY <1>1, <1>3, <1>4, Zenon DEF Atomic!Execute
<1> QED BY <1>1, <1>5 DEF Atomic!Next

\* Every step of the commands is a step of the atomic ones, or none.
LEMMA StepsAreAtomic ==
  ASSUME NullIsNoRow, IInv, ReadIsExpected, Next
  PROVE  Atomic!Next \/ UNCHANGED <<version, outbox, idem, answers>>
<1>1. ASSUME NEW c \in Client, NEW cmd \in Command, Retry(c, cmd) PROVE Atomic!Next
  <2>1. Atomic!Repeat(cmd)
    BY <1>1 DEF Retry, Atomic!Repeat, Atomic!Told, Digest
  <2> QED BY <2>1 DEF Atomic!Next
<1>2. ASSUME NEW c \in Client, Conflict(c)
      PROVE  Atomic!Next \/ UNCHANGED <<version, outbox, idem, answers>>
  <2> PICK cmd : cmd = txn[c].cmd
    OBVIOUS
  <2>1. cmd \in Command /\ idem[cmd.key] = None /\ version[cmd.aggregate] # cmd.expected
    BY <1>2, RunningRow DEF Conflict, IInv, KeysExclusive
  <2>2. CASE UNCHANGED idem
    BY <1>2, <2>2 DEF Conflict
  <2>3. CASE idem' = [idem EXCEPT ![cmd.key] =
                        [status |-> "started", digest |-> Digest(cmd), event |-> None]]
    <3>1. Atomic!Waste(cmd)
      BY <1>2, <2>1, <2>3 DEF Conflict, Atomic!Waste, Atomic!Settle, Digest
    <3> QED BY <2>1, <3>1 DEF Atomic!Next
  <2> QED BY <1>2, <2>2, <2>3 DEF Conflict
<1>3. ASSUME NEW c \in Client,
             \/ \E cmd \in Command, m \in Major : Claim(c, cmd, m)
             \/ Lock(c) \/ WriteAudit(c) \/ Rollback(c)
      PROVE  UNCHANGED <<version, outbox, idem, answers>>
  BY <1>3 DEF Claim, Lock, WriteAudit, Rollback
<1> QED BY <1>1, <1>2, <1>3, CommitIsAtomic DEF Next

LEMMA StartsAtomically == ASSUME Init PROVE Atomic!Init /\ ReadIsExpected
BY DEF Init, Atomic!Init, ReadIsExpected, Idle

\* A command comes out as one step on the version its caller expects, with its event and its
\* answer, and a key as one request: CommandService.record, three row locks at a time.
THEOREM AtomicCommandsImplemented == ASSUME NullIsNoRow PROVE Spec => ImplementsAtomicCommands
<1>1. IInv /\ ReadIsExpected /\ [Next]_cmdVars => ReadIsExpected'
  BY ReadIsExpectedKept DEF cmdVars, ReadIsExpected
<1>2. IInv /\ ReadIsExpected /\ [Next]_cmdVars => [Atomic!Next]_<<version, outbox, idem, answers>>
  BY StepsAreAtomic DEF cmdVars
<1> QED BY <1>1, <1>2, StartsAtomically, CommandInvariant, PTL
        DEF Spec, ImplementsAtomicCommands, Atomic!Spec
=============================================================================
