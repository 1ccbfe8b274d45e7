--------------------------- MODULE MessagingProofs ---------------------------
(***************************************************************************)
(* Proofs about Messaging: commands and consumers, for any of them, over a *)
(* delivery that loses, repeats and reorders.                              *)
(*                                                                         *)
(* A consumer's sequence only moves to the next number, so what its        *)
(* handler was given lies behind it; and it only moves for an event of the *)
(* outbox, whose numbers end at the aggregate's version: the sequence is   *)
(* the position in a log whose length is the version.                      *)
(***************************************************************************)
EXTENDS Messaging, SequenceTheorems, TLAPS

Com     == INSTANCE CommandsProofs
Ordered == INSTANCE OrderedDelivery WITH length <- version, position <- last

QuarantineRow ==
  [reason : {"unknown_schema", "sequence_gap", "stale_sequence", "poison_message"},
   status : {"quarantined", "replayed"}]

NullIsNoRow == Com!NullIsNoRow /\ None \notin QuarantineRow

ConsumerTypeOK ==
  /\ inbox \in [Consumer -> [Published -> {"absent", "quarantined", "processed"}]]
  /\ last \in [Consumer -> [Aggregate -> Nat]]
  /\ quarantine \in [Consumer -> [Published -> {None} \cup QuarantineRow]]
  /\ applied \in [Consumer -> Seq(Published)]

\* What is set aside has been published.
SetAsideIsPublished ==
  \A c \in Consumer, e \in Published : quarantine[c][e] # None => e \in outbox

\* What the handler was given lies behind the consumer's sequence.
AppliedIsBehind ==
  \A c \in Consumer : \A i \in DOMAIN applied[c] :
    applied[c][i].sequence <= last[c][applied[c][i].aggregate]

ConsumerInv ==
  ConsumerTypeOK /\ SetAsideIsPublished /\ AppliedIsBehind /\ Con!AppliedInOrder

IInv == Com!IInv /\ ConsumerInv

-----------------------------------------------------------------------------
(* The commands, as in CommandsProofs *)

LEMMA SameCommands == Cmd!Next => Com!Next
  BY DEF Cmd!Next, Com!Next, Cmd!Claim, Com!Claim, Cmd!Retry, Com!Retry, Cmd!Lock, Com!Lock,
         Cmd!Conflict, Com!Conflict, Cmd!WriteAudit, Com!WriteAudit, Cmd!Commit, Com!Commit,
         Cmd!Rollback, Com!Rollback, Cmd!Command, Com!Command, Cmd!Digest, Com!Digest,
         Cmd!Idle, Com!Idle, Cmd!EventOf, Com!EventOf, Cmd!KeyFree, Com!KeyFree,
         Cmd!KeyLockedBy, Com!KeyLockedBy, Cmd!AggregateFree, Com!AggregateFree,
         Cmd!AggregateLockedBy, Com!AggregateLockedBy, Cmd!ChainFree, Com!ChainFree,
         Cmd!ChainLockedBy, Com!ChainLockedBy

LEMMA Starts == ASSUME NullIsNoRow, Init PROVE IInv
<1>1. Com!Init
  BY DEF Init, Cmd!Init, Com!Init, Cmd!Idle, Com!Idle
<1>2. Com!IInv
  BY <1>1, Com!Starts DEF NullIsNoRow
<1>3. ConsumerInv
  BY DEF Init, Con!Init, ConsumerInv, ConsumerTypeOK, SetAsideIsPublished, AppliedIsBehind,
         Con!AppliedInOrder
<1> QED BY <1>2, <1>3 DEF IInv

LEMMA CommandsKeep == ASSUME NullIsNoRow, Com!IInv, Cmd!Next PROVE Com!IInv'
<1>1. Com!Next
  BY SameCommands
<1> QED BY <1>1, Com!ClaimKeeps, Com!RetryKeeps, Com!EndKeeps, Com!LockKeeps, Com!CommitKeeps
        DEF NullIsNoRow, Com!Next

\* An event that is published has one of its aggregate's numbers.
LEMMA Numbered ==
  ASSUME Com!IInv, NEW e \in outbox
  PROVE  e.aggregate \in Aggregate /\ e.sequence \in Nat /\ e.sequence <= version[e.aggregate]
         /\ version \in [Aggregate -> Nat]
<1>1. e.aggregate \in Aggregate /\ e \in Com!StreamOf(e.aggregate) /\ version \in [Aggregate -> Nat]
  BY DEF Com!IInv, Com!TypeOK, Com!Event, Com!StreamOf
<1>2. e.sequence \in 1..version[e.aggregate]
  BY <1>1 DEF Com!IInv, Com!StreamsCount
<1> QED BY <1>1, <1>2

\* A step of the commands adds one entry to a log, or none.
LEMMA CommandsWrite ==
  ASSUME Com!IInv, Cmd!Next
  PROVE  /\ outbox \subseteq outbox'
         /\ UNCHANGED version
              \/ \E a \in Aggregate : version' = [version EXCEPT ![a] = @ + 1]
<1>1. Com!Next
  BY SameCommands
<1>2. ASSUME NEW c \in Client, Com!Commit(c)
      PROVE  outbox \subseteq outbox'
             /\ \E a \in Aggregate : version' = [version EXCEPT ![a] = @ + 1]
  <2>1. txn[c].pc = "audited"
    BY <1>2 DEF Com!Commit
  <2>2. txn[c].cmd.aggregate \in Aggregate /\ txn[c].read = version[txn[c].cmd.aggregate]
    BY <2>1, Com!RunningRow DEF Com!IInv, Com!RowsExclusive
  <2> QED BY <1>2, <2>2 DEF Com!Commit, Com!EventOf
<1>3. ASSUME NEW c \in Client, ~Com!Commit(c),
             \/ \E cmd \in Com!Command : (\E m \in Major : Com!Claim(c, cmd, m)) \/ Com!Retry(c, cmd)
             \/ Com!Lock(c) \/ Com!Conflict(c) \/ Com!WriteAudit(c) \/ Com!Rollback(c)
      PROVE  UNCHANGED <<outbox, version>>
  BY <1>3 DEF Com!Claim, Com!Retry, Com!Lock, Com!Conflict, Com!WriteAudit, Com!Rollback
<1> QED BY <1>1, <1>2, <1>3 DEF Com!Next

-----------------------------------------------------------------------------
(* The consumers *)

\* The event in turn is next in its log, and the consumer's sequence moves over it.
Advances(c, e) ==
  /\ e \in outbox
  /\ e.sequence = last[c][e.aggregate] + 1
  /\ last' = [last EXCEPT ![c][e.aggregate] = e.sequence]
  /\ inbox' = [inbox EXCEPT ![c][e] = "processed"]
  /\ \/ /\ inbox[c][e] = "absent"
        /\ applied' = [applied EXCEPT ![c] = Append(@, e)]
        /\ UNCHANGED quarantine
     \/ /\ quarantine[c][e] # None
        /\ quarantine' = [quarantine EXCEPT ![c][e].status = "replayed"]
        /\ UNCHANGED applied

LEMMA ConsumerSteps ==
  ASSUME IInv, NEW c \in Consumer, NEW e \in Published, Con!TakeIn(c, e) \/ Con!Replay(c, e)
  PROVE  \/ Advances(c, e)
         \/ /\ e \in outbox
            /\ \E reason \in {"unknown_schema", "sequence_gap", "stale_sequence", "poison_message"} :
                 Con!SetAside(c, e, reason)
<1>1. CASE Con!ConsumeInOrder(c, e)
  BY <1>1 DEF Con!ConsumeInOrder, Con!NextIn, Advances
<1>2. CASE Con!Replay(c, e)
  BY <1>2 DEF Con!Replay, Con!Open, Con!NextIn, Advances, IInv, ConsumerInv, SetAsideIsPublished
<1>3. CASE (\E m \in Supported[c] : Con!ConsumeUnknown(c, e, m))
           \/ Con!ConsumeOutOfOrder(c, e) \/ Con!ConsumePoison(c, e)
  BY <1>3 DEF Con!ConsumeUnknown, Con!ConsumeOutOfOrder, Con!ConsumePoison
<1> QED BY <1>1, <1>2, <1>3 DEF Con!TakeIn

LEMMA SetAsideKeeps ==
  ASSUME NullIsNoRow, ConsumerInv, NEW c \in Consumer, NEW e \in Published, e \in outbox,
         NEW reason \in {"unknown_schema", "sequence_gap", "stale_sequence", "poison_message"},
         Con!SetAside(c, e, reason), UNCHANGED outbox
  PROVE  ConsumerInv'
<1>1. ConsumerTypeOK'
  BY DEF Con!SetAside, ConsumerInv, ConsumerTypeOK, QuarantineRow
<1>2. SetAsideIsPublished'
  BY DEF Con!SetAside, ConsumerInv, ConsumerTypeOK, SetAsideIsPublished
<1>3. AppliedIsBehind' /\ Con!AppliedInOrder'
  BY DEF Con!SetAside, ConsumerInv, AppliedIsBehind, Con!AppliedInOrder
<1> QED BY <1>1, <1>2, <1>3 DEF ConsumerInv

LEMMA AdvanceKeeps ==
  ASSUME NullIsNoRow, ConsumerInv, NEW c \in Consumer, NEW e \in Published, Advances(c, e),
         UNCHANGED outbox
  PROVE  ConsumerInv'
<1>event. \A f \in Published : f.aggregate \in Aggregate /\ f.sequence \in Nat
  BY DEF NullIsNoRow, Com!NullIsNoRow, Published
<1>0. /\ \A d \in Consumer : last[d] \in [Aggregate -> Nat]
                             /\ inbox[d] \in [Published -> {"absent", "quarantined", "processed"}]
      /\ \A d \in Consumer : quarantine[d] \in [Published -> {None} \cup QuarantineRow]
      /\ \A d \in Consumer : applied[d] \in Seq(Published)
  BY DEF ConsumerInv, ConsumerTypeOK
<1>1. /\ e.aggregate \in Aggregate /\ e.sequence \in Nat
      /\ \A d \in Consumer : d # c => last'[d] = last[d] /\ applied'[d] = applied[d]
      /\ \A a \in Aggregate : a # e.aggregate => last'[c][a] = last[c][a]
      /\ last'[c][e.aggregate] = last[c][e.aggregate] + 1
      /\ last'[c][e.aggregate] = e.sequence
      /\ applied[c] \in Seq(Published)
      /\ last \in [Consumer -> [Aggregate -> Nat]]
  BY <1>event, <1>0 DEF Advances, ConsumerInv, ConsumerTypeOK
<1>grows. \A a \in Aggregate : last[c][a] \in Nat /\ last'[c][a] \in Nat /\ last[c][a] <= last'[c][a]
  BY <1>0, <1>1
<1>2. ConsumerTypeOK'
  <2>1. /\ inbox' \in [Consumer -> [Published -> {"absent", "quarantined", "processed"}]]
        /\ last' \in [Consumer -> [Aggregate -> Nat]]
    BY <1>0, <1>1 DEF Advances, ConsumerInv, ConsumerTypeOK
  <2>2. quarantine' \in [Consumer -> [Published -> {None} \cup QuarantineRow]]
    <3>1. CASE UNCHANGED quarantine
      BY <3>1 DEF ConsumerInv, ConsumerTypeOK
    <3>2. CASE quarantine' = [quarantine EXCEPT ![c][e].status = "replayed"] /\ quarantine[c][e] # None
      <4>1. PICK row : row = [quarantine[c][e] EXCEPT !.status = "replayed"]
        OBVIOUS
      <4>2. row \in QuarantineRow
        BY <1>0, <3>2, <4>1 DEF QuarantineRow
      <4>3. quarantine' = [quarantine EXCEPT ![c] = [quarantine[c] EXCEPT ![e] = row]]
        BY <3>2, <4>1
      <4>4. [quarantine[c] EXCEPT ![e] = row] \in [Published -> {None} \cup QuarantineRow]
        BY <1>0, <4>2
      <4> QED BY <4>3, <4>4 DEF ConsumerInv, ConsumerTypeOK
    <3> QED BY <3>1, <3>2 DEF Advances
  <2>3. applied' \in [Consumer -> Seq(Published)]
    <3>1. Append(applied[c], e) \in Seq(Published)
      BY <1>0
    <3> QED BY <3>1 DEF Advances, ConsumerInv, ConsumerTypeOK
  <2> QED BY <2>1, <2>2, <2>3 DEF ConsumerTypeOK
<1>3. SetAsideIsPublished'
  <2>1. \A d \in Consumer, f \in Published : f # e \/ d # c => quarantine'[d][f] = quarantine[d][f]
    BY <1>0 DEF Advances, ConsumerInv, ConsumerTypeOK
  <2> QED BY <2>1 DEF Advances, ConsumerInv, SetAsideIsPublished
<1>4. \A i \in DOMAIN applied[c] :
        /\ applied[c][i].aggregate \in Aggregate /\ applied[c][i].sequence \in Nat
        /\ applied[c][i].sequence <= last[c][applied[c][i].aggregate]
  BY <1>event, <1>0 DEF ConsumerInv, AppliedIsBehind
<1>5. CASE UNCHANGED applied
  <2>1. AppliedIsBehind'
    <3> SUFFICES ASSUME NEW d \in Consumer, NEW i \in DOMAIN applied[d]
                 PROVE  applied[d][i].sequence <= last'[d][applied[d][i].aggregate]
      BY <1>5 DEF AppliedIsBehind
    <3>1. CASE d # c
      BY <1>1, <3>1 DEF ConsumerInv, AppliedIsBehind
    <3>2. CASE d = c
      BY <1>grows, <1>4, <3>2
    <3> QED BY <3>1, <3>2
  <2> QED BY <1>2, <1>3, <1>5, <2>1 DEF ConsumerInv, Con!AppliedInOrder
<1>6. CASE applied' = [applied EXCEPT ![c] = Append(@, e)]
  <2>1. /\ applied'[c] = Append(applied[c], e) /\ Len(applied[c]) \in Nat
        /\ DOMAIN applied[c] = 1..Len(applied[c])
        /\ DOMAIN applied'[c] = 1..(Len(applied[c]) + 1)
        /\ applied'[c][Len(applied[c]) + 1] = e
        /\ \A i \in DOMAIN applied[c] : applied'[c][i] = applied[c][i]
    BY <1>1, <1>6 DEF ConsumerInv, ConsumerTypeOK
  <2>2. AppliedIsBehind'
    <3> SUFFICES ASSUME NEW d \in Consumer, NEW i \in DOMAIN applied'[d]
                 PROVE  applied'[d][i].sequence <= last'[d][applied'[d][i].aggregate]
      BY DEF AppliedIsBehind
    <3>1. CASE d # c
      BY <1>1, <3>1 DEF ConsumerInv, AppliedIsBehind
    <3>2. CASE d = c /\ i \in DOMAIN applied[c]
      <4>1. applied'[d][i] = applied[c][i] /\ i \in DOMAIN applied[c]
        BY <2>1, <3>2
      <4> QED BY <1>grows, <1>4, <3>2, <4>1
    <3>3. CASE d = c /\ i = Len(applied[c]) + 1
      BY <1>1, <2>1, <3>3
    <3> QED BY <2>1, <3>1, <3>2, <3>3
  <2>3. Con!AppliedInOrder'
    <3> SUFFICES ASSUME NEW d \in Consumer, NEW i \in DOMAIN applied'[d], NEW j \in DOMAIN applied'[d],
                        i < j, applied'[d][i].aggregate = applied'[d][j].aggregate
                 PROVE  applied'[d][i].sequence < applied'[d][j].sequence
      BY DEF Con!AppliedInOrder
    <3>1. CASE d # c
      BY <1>1, <3>1 DEF ConsumerInv, Con!AppliedInOrder
    <3>2. CASE d = c /\ j \in DOMAIN applied[c]
      <4>1. i \in DOMAIN applied[c]
        BY <2>1, <3>2
      <4> QED BY <2>1, <3>2, <4>1 DEF ConsumerInv, Con!AppliedInOrder
    <3>3. CASE d = c /\ j = Len(applied[c]) + 1
      <4>1. i \in DOMAIN applied[c]
        BY <2>1, <3>3
      <4>2. applied'[d][i] = applied[c][i] /\ applied'[d][j] = e
        BY <2>1, <3>3, <4>1
      <4>3. applied[c][i].aggregate = e.aggregate
        BY <4>2
      <4>4. applied[c][i].sequence \in Nat /\ applied[c][i].sequence <= last[c][e.aggregate]
        BY <1>4, <4>1, <4>3
      <4> QED BY <1>0, <1>1, <4>2, <4>4
    <3> QED BY <2>1, <3>1, <3>2, <3>3
  <2> QED BY <1>2, <1>3, <2>2, <2>3 DEF ConsumerInv
<1> QED BY <1>5, <1>6 DEF Advances

-----------------------------------------------------------------------------
LEMMA Inductive == ASSUME NullIsNoRow, IInv, [Next]_<<cmdVars, conVars>> PROVE IInv'
<1>1. CASE Cmd!Next /\ UNCHANGED conVars
  <2>1. Com!IInv' /\ outbox \subseteq outbox'
    BY <1>1, CommandsKeep, CommandsWrite DEF IInv
  <2>2. ConsumerInv'
    BY <1>1, <2>1 DEF conVars, IInv, ConsumerInv, ConsumerTypeOK, SetAsideIsPublished, AppliedIsBehind,
         Con!AppliedInOrder
  <2> QED BY <2>1, <2>2 DEF IInv
<1>2. Com!IInv /\ UNCHANGED cmdVars => Com!IInv'
  <2>1. Com!IInv /\ UNCHANGED cmdVars => Com!TypeOK' /\ Com!KeysExclusive' /\ Com!RowsExclusive'
    BY DEF cmdVars, Com!IInv, Com!TypeOK, Com!KeysExclusive, Com!RowsExclusive
  <2>2. Com!IInv /\ UNCHANGED cmdVars => Com!Recorded' /\ Com!StreamsCount' /\ Com!AuditNames'
    BY ZenonT(60) DEF cmdVars, Com!IInv, Com!Recorded, Com!OnRecord, Com!StreamsCount, Com!StreamOf, Com!AuditNames
  <2> QED BY <2>1, <2>2 DEF Com!IInv
<1>3. CASE Con!Next /\ UNCHANGED cmdVars
  <2>1. PICK c \in Consumer, e \in Published : Con!TakeIn(c, e) \/ Con!Replay(c, e)
    BY <1>3 DEF Con!Next
  <2>2. UNCHANGED outbox
    BY <1>3 DEF cmdVars
  <2>3. ConsumerInv'
    BY <2>1, <2>2, ConsumerSteps, SetAsideKeeps, AdvanceKeeps DEF IInv
  <2> QED BY <1>2, <1>3, <2>3 DEF IInv
<1>4. CASE UNCHANGED <<cmdVars, conVars>>
  <2>1. ConsumerInv'
    BY <1>4 DEF cmdVars, conVars, IInv, ConsumerInv, ConsumerTypeOK, SetAsideIsPublished,
         AppliedIsBehind, Con!AppliedInOrder
  <2> QED BY <1>2, <1>4, <2>1 DEF IInv
<1> QED BY <1>1, <1>3, <1>4 DEF Next

THEOREM MessagingInvariant == ASSUME NullIsNoRow PROVE Spec => []IInv
<1> QED BY Starts, Inductive, PTL DEF Spec

\* The events of an aggregate are numbered as its version counts, and the audit chain names
\* each once and in order: CommandService.record, with consumers that read the outbox.
THEOREM OutboxCountsVersionHolds == ASSUME NullIsNoRow PROVE Spec => []OutboxCountsVersion
<1>1. IInv => Com!OutboxCountsVersion
  BY Com!OutboxFollows DEF IInv
<1>2. Com!OutboxCountsVersion => OutboxCountsVersion
  <2>1. \A S : Cmd!Cardinality(S) = Com!Cardinality(S)
    BY DEF Cmd!Cardinality, Com!Cardinality
  <2> QED BY <2>1 DEF OutboxCountsVersion, Cmd!OutboxCountsVersion, Com!OutboxCountsVersion
<1> QED BY <1>1, <1>2, MessagingInvariant, PTL

\* A key has one event, and whoever asked under the key was told that event, for the same
\* request: CommandService.record under retries, conflicts, rollbacks and crashes.
THEOREM OneOutcomePerKeyHolds == ASSUME NullIsNoRow PROVE Spec => []Com!OneOutcomePerKey
<1>1. IInv => Com!OneOutcomePerKey
  BY Com!OutcomesFollow DEF IInv
<1> QED BY <1>1, MessagingInvariant, PTL

-----------------------------------------------------------------------------
(* What a consumer's rows say of an event *)

\* An inbox row is set aside with its quarantine row, or processed because its handler ran or
\* because it was replayed.
RowsAgree(c, e) ==
  /\ inbox[c][e] = "absent" => quarantine[c][e] = None
  /\ inbox[c][e] = "quarantined" <=> Con!Open(c, e)
  /\ inbox[c][e] = "processed" <=> Con!Ran(c, e) \/ Con!Replayed(c, e)
  /\ ~(Con!Ran(c, e) /\ Con!Replayed(c, e))
  /\ e \notin outbox => inbox[c][e] = "absent"

RowsInv ==
  /\ outbox \subseteq Published
  /\ \A c \in Consumer, e \in Published : RowsAgree(c, e)
  /\ Con!PositionIsProcessed
  /\ \A c \in Consumer, a \in Aggregate : last[c][a] <= version[a]

\* No two events of an aggregate have one sequence: the audit chain names them in order.
LEMMA SequencesApart ==
  ASSUME Com!IInv, NEW d \in outbox, NEW e \in outbox,
         d.aggregate = e.aggregate, d.sequence = e.sequence
  PROVE  d = e
<1>1. PICK i \in DOMAIN audit : audit[i] = d
  BY DEF Com!IInv, Com!AuditNames
<1>2. PICK j \in DOMAIN audit : audit[j] = e
  BY DEF Com!IInv, Com!AuditNames
<1>3. i \in Nat /\ j \in Nat /\ d.sequence \in Nat /\ e.sequence \in Nat
  BY Numbered DEF Com!IInv, Com!TypeOK
<1>4. ~(i < j) /\ ~(j < i)
  BY <1>1, <1>2, <1>3 DEF Com!IInv, Com!AuditNames
<1> QED BY <1>1, <1>2, <1>3, <1>4

\* What a step of the commands publishes is new, and the last of its aggregate.
LEMMA CommandsPublish ==
  ASSUME NullIsNoRow, Com!IInv, Com!ReadIsExpected, outbox \subseteq Published, Cmd!Next
  PROVE  /\ outbox' \subseteq Published
         /\ \A e \in outbox' \ outbox : e.sequence > version[e.aggregate]
         /\ \A a \in Aggregate : version[a] \in Nat /\ version'[a] \in Nat /\ version[a] <= version'[a]
<1>0. version \in [Aggregate -> Nat] /\ MaxVersion \in Nat
  BY DEF Com!IInv, Com!TypeOK, NullIsNoRow, Com!NullIsNoRow
<1>1. Com!Next
  BY SameCommands
<1>2. ASSUME NEW c \in Client, Com!Commit(c)
      PROVE  outbox' \subseteq Published /\ \A e \in outbox' \ outbox : e.sequence > version[e.aggregate]
  <2> PICK cmd, event : cmd = txn[c].cmd /\ event = Com!EventOf(c)
    OBVIOUS
  <2>1. /\ cmd \in Com!Command /\ txn[c].major \in Major /\ version[cmd.aggregate] = cmd.expected
        /\ event = [aggregate |-> cmd.aggregate, sequence |-> cmd.expected + 1,
                    major |-> txn[c].major, key |-> cmd.key]
    BY <1>2, Com!CommitNumbers
  <2>2. cmd.key \in Key /\ cmd.aggregate \in Aggregate /\ cmd.expected \in 0..MaxVersion
    BY <2>1 DEF Com!Command
  <2>3. event \in Published /\ event.sequence > version[event.aggregate]
    BY <1>0, <2>1, <2>2 DEF Published
  <2>4. outbox' = outbox \cup {event}
    BY <1>2 DEF Com!Commit
  <2> QED BY <2>3, <2>4
<1>3. ASSUME NEW c \in Client, ~Com!Commit(c),
             \/ \E cmd \in Com!Command : (\E m \in Major : Com!Claim(c, cmd, m)) \/ Com!Retry(c, cmd)
             \/ Com!Lock(c) \/ Com!Conflict(c) \/ Com!WriteAudit(c) \/ Com!Rollback(c)
      PROVE  UNCHANGED outbox
  BY <1>3 DEF Com!Claim, Com!Retry, Com!Lock, Com!Conflict, Com!WriteAudit, Com!Rollback
<1>4. outbox' \subseteq Published /\ \A e \in outbox' \ outbox : e.sequence > version[e.aggregate]
  BY <1>1, <1>2, <1>3 DEF Com!Next
<1>5. ASSUME NEW a \in Aggregate
      PROVE  version[a] \in Nat /\ version'[a] \in Nat /\ version[a] <= version'[a]
  <2>1. UNCHANGED version \/ \E b \in Aggregate : version' = [version EXCEPT ![b] = @ + 1]
    BY CommandsWrite
  <2> QED BY <1>0, <2>1
<1> QED BY <1>4, <1>5

LEMMA CommandsKeepRows ==
  ASSUME NullIsNoRow, IInv, Com!ReadIsExpected, RowsInv, Cmd!Next, UNCHANGED conVars PROVE RowsInv'
<1>1. /\ UNCHANGED <<inbox, last, quarantine, applied>> /\ outbox \subseteq outbox'
      /\ outbox' \subseteq Published
      /\ \A e \in outbox' \ outbox : e.sequence > version[e.aggregate]
      /\ \A a \in Aggregate : version[a] \in Nat /\ version'[a] \in Nat /\ version[a] <= version'[a]
  BY CommandsPublish, CommandsWrite DEF IInv, RowsInv, conVars
<1>2. \A c \in Consumer, a \in Aggregate : last[c][a] \in Nat
  BY DEF IInv, ConsumerInv, ConsumerTypeOK
<1>3. ASSUME NEW c \in Consumer, NEW e \in Published PROVE RowsAgree(c, e)'
  BY <1>1 DEF RowsInv, RowsAgree, Con!Open, Con!Ran, Con!Replayed
<1>4. ASSUME NEW c \in Consumer, NEW e \in outbox'
      PROVE  inbox'[c][e] = "processed" <=> e.sequence <= last'[c][e.aggregate]
  <2>1. CASE e \in outbox
    BY <1>1, <2>1 DEF RowsInv, Con!PositionIsProcessed
  <2>2. CASE e \notin outbox
    <3>1. inbox[c][e] = "absent" /\ e.aggregate \in Aggregate /\ e.sequence \in Nat
      BY <1>1, <2>2 DEF RowsInv, RowsAgree, Published, NullIsNoRow, Com!NullIsNoRow
    <3>2. last[c][e.aggregate] <= version[e.aggregate] /\ e.sequence > version[e.aggregate]
      BY <1>1, <2>2, <3>1 DEF RowsInv
    <3> QED BY <1>1, <1>2, <3>1, <3>2
  <2> QED BY <2>1, <2>2
<1>5. ASSUME NEW c \in Consumer, NEW a \in Aggregate PROVE last'[c][a] <= version'[a]
  BY <1>1, <1>2 DEF RowsInv
<1> QED BY <1>1, <1>3, <1>4, <1>5 DEF RowsInv, Con!PositionIsProcessed

LEMMA SetAsideKeepsRows ==
  ASSUME NullIsNoRow, IInv, RowsInv, NEW c \in Consumer, NEW e \in Published, e \in outbox,
         NEW reason \in {"unknown_schema", "sequence_gap", "stale_sequence", "poison_message"},
         Con!SetAside(c, e, reason), UNCHANGED cmdVars
  PROVE  RowsInv'
<1> PICK row : row = [reason |-> reason, status |-> "quarantined"]
  OBVIOUS
<1>1. /\ inbox[c][e] = "absent" /\ inbox'[c][e] = "quarantined"
      /\ quarantine'[c][e] = row /\ row # None /\ row.status = "quarantined"
      /\ \A d \in Consumer, f \in Published : d # c \/ f # e =>
           inbox'[d][f] = inbox[d][f] /\ quarantine'[d][f] = quarantine[d][f]
      /\ UNCHANGED <<last, applied, outbox, version>>
  BY DEF Con!SetAside, IInv, ConsumerInv, ConsumerTypeOK, QuarantineRow, NullIsNoRow, cmdVars
<1>2. ASSUME NEW d \in Consumer, NEW f \in Published PROVE RowsAgree(d, f)'
  <2>1. CASE d = c /\ f = e
    <3>1. ~Con!Ran(c, e)
      BY <1>1 DEF RowsInv, RowsAgree
    <3> QED BY <1>1, <2>1, <3>1 DEF RowsAgree, Con!Open, Con!Ran, Con!Replayed
  <2>2. CASE d # c \/ f # e
    BY <1>1, <2>2 DEF RowsInv, RowsAgree, Con!Open, Con!Ran, Con!Replayed
  <2> QED BY <2>1, <2>2
<1>3. ASSUME NEW d \in Consumer, NEW f \in outbox
      PROVE  inbox'[d][f] = "processed" <=> f.sequence <= last[d][f.aggregate]
  BY <1>1 DEF RowsInv, Con!PositionIsProcessed
<1> QED BY <1>1, <1>2, <1>3 DEF RowsInv, Con!PositionIsProcessed

LEMMA AdvanceKeepsRows ==
  ASSUME NullIsNoRow, IInv, RowsInv, NEW c \in Consumer, NEW e \in Published, Advances(c, e),
         UNCHANGED cmdVars
  PROVE  RowsInv'
<1>1. /\ inbox'[c][e] = "processed" /\ e \in outbox /\ e.aggregate \in Aggregate
      /\ \A d \in Consumer, f \in Published : d # c \/ f # e =>
           inbox'[d][f] = inbox[d][f] /\ quarantine'[d][f] = quarantine[d][f]
      /\ \A d \in Consumer : d # c => applied'[d] = applied[d]
      /\ UNCHANGED <<outbox, version>>
  BY Numbered DEF Advances, IInv, ConsumerInv, ConsumerTypeOK, cmdVars
<1>2. /\ last'[c][e.aggregate] = e.sequence /\ e.sequence = last[c][e.aggregate] + 1
      /\ \A d \in Consumer, a \in Aggregate : last[d][a] \in Nat
      /\ \A d \in Consumer, a \in Aggregate : d # c \/ a # e.aggregate => last'[d][a] = last[d][a]
  BY <1>1 DEF Advances, IInv, ConsumerInv, ConsumerTypeOK
<1>3. inbox[c][e] # "processed"
  BY <1>1, <1>2 DEF RowsInv, Con!PositionIsProcessed
<1>4. ~Con!Ran(c, e) /\ ~Con!Replayed(c, e)
  BY <1>3 DEF RowsInv, RowsAgree
<1>5. applied[c] \in Seq(Published) /\ quarantine[c][e] \in {None} \cup QuarantineRow
  BY DEF IInv, ConsumerInv, ConsumerTypeOK
<1>6. ASSUME NEW d \in Consumer, NEW f \in Published PROVE RowsAgree(d, f)'
  <2>1. CASE d = c /\ f = e
    <3>1. CASE UNCHANGED applied /\ quarantine[c][e] # None
               /\ quarantine' = [quarantine EXCEPT ![c][e].status = "replayed"]
      <4> PICK row : row = [quarantine[c][e] EXCEPT !.status = "replayed"]
        OBVIOUS
      <4>1. quarantine'[c][e] = row
        BY <3>1 DEF IInv, ConsumerInv, ConsumerTypeOK
      <4>2. row \in QuarantineRow /\ row.status = "replayed" /\ row # None
        BY <1>5, <3>1 DEF QuarantineRow, NullIsNoRow
      <4> QED BY <1>1, <1>4, <2>1, <3>1, <4>1, <4>2 DEF RowsAgree, Con!Open, Con!Ran, Con!Replayed
    <3>2. CASE applied' = [applied EXCEPT ![c] = Append(@, e)] /\ UNCHANGED quarantine
               /\ inbox[c][e] = "absent"
      <4>1. applied'[c] = Append(applied[c], e)
        BY <3>2 DEF IInv, ConsumerInv, ConsumerTypeOK
      <4>2. Con!Ran(c, e)'
        <5>1. Len(applied[c]) + 1 \in DOMAIN applied'[c] /\ applied'[c][Len(applied[c]) + 1] = e
          BY <1>5, <4>1
        <5> QED BY <5>1 DEF Con!Ran
      <4> QED BY <1>1, <1>4, <2>1, <3>2, <4>2 DEF RowsInv, RowsAgree, Con!Open, Con!Replayed
    <3> QED BY <3>1, <3>2 DEF Advances
  <2>2. CASE d # c
    BY <1>1, <2>2 DEF RowsInv, RowsAgree, Con!Open, Con!Ran, Con!Replayed
  <2>3. CASE d = c /\ f # e
    <3>1. Con!Ran(c, f)' <=> Con!Ran(c, f)
      <4>1. CASE UNCHANGED applied
        BY <4>1 DEF Con!Ran
      <4>2. CASE applied' = [applied EXCEPT ![c] = Append(@, e)]
        <5>1. /\ DOMAIN applied[c] = 1..Len(applied[c]) /\ Len(applied[c]) \in Nat
              /\ DOMAIN applied'[c] = 1..(Len(applied[c]) + 1)
              /\ applied'[c][Len(applied[c]) + 1] = e
              /\ \A i \in DOMAIN applied[c] : applied'[c][i] = applied[c][i]
          BY <1>5, <4>2 DEF IInv, ConsumerInv, ConsumerTypeOK
        <5> QED BY <2>3, <5>1 DEF Con!Ran
      <4> QED BY <4>1, <4>2 DEF Advances
    <3> QED BY <1>1, <2>3, <3>1 DEF RowsInv, RowsAgree, Con!Open, Con!Replayed
  <2> QED BY <2>1, <2>2, <2>3
<1>7. ASSUME NEW d \in Consumer, NEW f \in outbox
      PROVE  inbox'[d][f] = "processed" <=> f.sequence <= last'[d][f.aggregate]
  <2>1. f \in Published /\ f.aggregate \in Aggregate /\ f.sequence \in Nat
    BY Numbered DEF RowsInv, IInv
  <2>2. inbox[d][f] = "processed" <=> f.sequence <= last[d][f.aggregate]
    BY DEF RowsInv, Con!PositionIsProcessed
  <2>3. CASE d # c \/ f.aggregate # e.aggregate
    BY <1>1, <1>2, <2>1, <2>2, <2>3
  <2>4. CASE d = c /\ f.aggregate = e.aggregate
    <3>1. CASE f = e
      BY <1>1, <1>2, <2>1, <2>4, <3>1
    <3>2. CASE f # e
      <4>1. f.sequence # e.sequence
        BY <1>1, <2>4, <3>2, SequencesApart DEF IInv
      <4> QED BY <1>1, <1>2, <2>1, <2>2, <2>4, <3>2, <4>1
    <3> QED BY <3>1, <3>2
  <2> QED BY <2>3, <2>4
<1>8. ASSUME NEW d \in Consumer, NEW a \in Aggregate PROVE last'[d][a] <= version[a]
  <2>1. e.sequence <= version[e.aggregate]
    BY <1>1, Numbered DEF IInv
  <2> QED BY <1>2, <2>1 DEF RowsInv
<1> QED BY <1>1, <1>6, <1>7, <1>8 DEF RowsInv, Con!PositionIsProcessed

LEMMA RowsInductive ==
  ASSUME NullIsNoRow, IInv, Com!ReadIsExpected, RowsInv, [Next]_<<cmdVars, conVars>>
  PROVE  Com!ReadIsExpected' /\ RowsInv'
<1>1. UNCHANGED cmdVars => Com!ReadIsExpected'
  BY DEF cmdVars, Com!ReadIsExpected
<1>2. CASE Cmd!Next /\ UNCHANGED conVars
  BY <1>2, SameCommands, Com!ReadIsExpectedKept, CommandsKeepRows DEF IInv
<1>3. CASE Con!Next /\ UNCHANGED cmdVars
  <2>1. PICK c \in Consumer, e \in Published : Con!TakeIn(c, e) \/ Con!Replay(c, e)
    BY <1>3 DEF Con!Next
  <2> QED BY <1>1, <1>3, <2>1, ConsumerSteps, SetAsideKeepsRows, AdvanceKeepsRows
<1>4. CASE UNCHANGED <<cmdVars, conVars>>
  BY <1>1, <1>4 DEF cmdVars, conVars, RowsInv, RowsAgree, Con!PositionIsProcessed, Con!Open,
       Con!Ran, Con!Replayed
<1> QED BY <1>2, <1>3, <1>4 DEF Next

LEMMA RowsStart == ASSUME Init PROVE Com!ReadIsExpected /\ RowsInv
<1>1. Com!ReadIsExpected
  BY DEF Init, Cmd!Init, Cmd!Idle, Com!ReadIsExpected
<1>2. RowsInv
  BY DEF Init, Cmd!Init, Con!Init, RowsInv, RowsAgree, Con!PositionIsProcessed, Con!Open,
       Con!Ran, Con!Replayed
<1> QED BY <1>1, <1>2

\* Handlers take effect at most once per event and in the order of the sequences, whatever
\* arrives, fails, is set aside and is replayed; a consumer's position has passed what it
\* processed and nothing else, and what it processed was handled or replayed, never both:
\* EventConsumerService.consume and replay.
THEOREM AppliedOnceInOrderHolds == ASSUME NullIsNoRow PROVE Spec => []AppliedOnceInOrder
<1>1. IInv /\ RowsInv => AppliedOnceInOrder
  BY DEF IInv, ConsumerInv, RowsInv, RowsAgree, Con!ProcessedOnce, Con!AppliedOnceInOrder,
       AppliedOnceInOrder
<1> QED BY <1>1, Starts, Inductive, RowsStart, RowsInductive, PTL DEF Spec

\* A consumer that is behind in a log has one event to wait for: the next one of the outbox.
\* It is neither lost nor closed, the consumer takes it in when it arrives, or it is set aside
\* and a replay moves over it.
NextIsWaiting(c, a) ==
  \E e \in outbox :
    /\ e.aggregate = a /\ e.sequence = last[c][a] + 1
    /\ \A d \in outbox : d.aggregate = a /\ d.sequence = last[c][a] + 1 => d = e
    /\ \/ inbox[c][e] = "absent" /\ quarantine[c][e] = None
       \/ inbox[c][e] = "quarantined" /\ Con!Open(c, e)

NextAwaits ==
  \A c \in Consumer, a \in Aggregate : last[c][a] < version[a] => NextIsWaiting(c, a)

\* No position is a dead end: a consumer behind the outbox, whatever was lost, came early or
\* late, was of another schema or failed in its handler, waits for one published event, which
\* consume takes in or replay passes: EventConsumerService.
THEOREM NextAwaitsHolds == ASSUME NullIsNoRow PROVE Spec => []NextAwaits
<1>1. ASSUME NullIsNoRow, IInv, RowsInv, NEW c \in Consumer, NEW a \in Aggregate, last[c][a] < version[a]
      PROVE  NextIsWaiting(c, a)
  <2>1. last[c][a] \in Nat /\ version[a] \in Nat
    BY <1>1 DEF IInv, ConsumerInv, ConsumerTypeOK, Com!IInv, Com!TypeOK
  <2>2. last[c][a] + 1 \in {e.sequence : e \in Com!StreamOf(a)}
    <3>1. last[c][a] + 1 \in 1..version[a]
      BY <1>1, <2>1
    <3>2. {e.sequence : e \in Com!StreamOf(a)} = 1..version[a]
      BY <1>1 DEF IInv, Com!IInv, Com!StreamsCount
    <3> QED BY <3>1, <3>2
  <2>3. PICK e \in outbox : e.aggregate = a /\ e.sequence = last[c][a] + 1
    BY <2>2 DEF Com!StreamOf
  <2>4. \A d \in outbox : d.aggregate = a /\ d.sequence = last[c][a] + 1 => d = e
    BY <1>1, <2>3, SequencesApart DEF IInv
  <2>5. e \in Published /\ inbox[c][e] # "processed"
    BY <1>1, <2>1, <2>3 DEF RowsInv, Con!PositionIsProcessed
  <2>6. inbox[c][e] \in {"absent", "quarantined"} /\ RowsAgree(c, e)
    BY <1>1, <2>5 DEF IInv, ConsumerInv, ConsumerTypeOK, RowsInv
  <2> QED BY <2>3, <2>4, <2>6 DEF NextIsWaiting, RowsAgree
<1>2. NullIsNoRow /\ IInv /\ RowsInv => NextAwaits
  BY <1>1 DEF NextAwaits
<1> QED BY <1>2, Starts, Inductive, RowsStart, RowsInductive, PTL DEF Spec

-----------------------------------------------------------------------------
(* Refinement *)

\* A step of commands and consumers is a write or a read of ordered delivery, or none.
LEMMA StepsAreOrdered ==
  ASSUME NullIsNoRow, IInv, [Next]_<<cmdVars, conVars>> PROVE [Ordered!Next]_<<version, last>>
<1>1. CASE Cmd!Next /\ UNCHANGED conVars
  BY <1>1, CommandsWrite DEF IInv, conVars, Ordered!Next, Ordered!Write
<1>2. CASE Con!Next /\ UNCHANGED cmdVars
  <2>1. PICK c \in Consumer, e \in Published : Con!TakeIn(c, e) \/ Con!Replay(c, e)
    BY <1>2 DEF Con!Next
  <2>2. UNCHANGED version
    BY <1>2 DEF cmdVars
  <2>3. CASE Advances(c, e)
    <3>1. /\ e.aggregate \in Aggregate /\ e.sequence <= version[e.aggregate]
          /\ e.sequence = last[c][e.aggregate] + 1
          /\ last \in [Consumer -> [Aggregate -> Nat]] /\ version \in [Aggregate -> Nat]
      BY <2>3, Numbered DEF Advances, IInv, ConsumerInv, ConsumerTypeOK
    <3>2. last' = [last EXCEPT ![c][e.aggregate] = @ + 1]
      BY <2>3, <3>1 DEF Advances
    <3>3. Ordered!Read(c, e.aggregate)
      BY <2>2, <3>1, <3>2 DEF Ordered!Read
    <3> QED BY <3>1, <3>3 DEF Ordered!Next
  <2>4. CASE \E reason \in {"unknown_schema", "sequence_gap", "stale_sequence", "poison_message"} :
               Con!SetAside(c, e, reason)
    BY <2>2, <2>4 DEF Con!SetAside
  <2> QED BY <2>1, <2>3, <2>4, ConsumerSteps
<1>3. CASE UNCHANGED <<cmdVars, conVars>>
  BY <1>3 DEF cmdVars, conVars
<1> QED BY <1>1, <1>2, <1>3 DEF Next

\* Commands and consumers implement ordered delivery: every log grows at its end, and every
\* consumer moves over it one entry after the other, over a lossy and unordered medium.
THEOREM ImplementsOrderedDelivery == ASSUME NullIsNoRow PROVE Spec => Ordered!Spec
<1>1. Init => Ordered!Init
  BY DEF Init, Cmd!Init, Con!Init, Ordered!Init
<1> QED BY <1>1, Starts, Inductive, StepsAreOrdered, PTL DEF Spec, Ordered!Spec

\* A command comes out as one step on the version its caller expects, with its event and its
\* answer, and a key as one request: CommandService.record, three row locks at a time, beside
\* consumers that read the outbox.
THEOREM AtomicCommandsImplemented == ASSUME NullIsNoRow PROVE Spec => ImplementsAtomicCommands
<1>1. Init => Com!Atomic!Init
  BY Com!StartsAtomically, Com!Starts DEF Init, Cmd!Init, Com!Init, Cmd!Idle, Com!Idle
<1>2. ASSUME NullIsNoRow, IInv, Com!ReadIsExpected, [Next]_<<cmdVars, conVars>>
      PROVE  [Com!Atomic!Next]_<<version, outbox, idem, answers>>
  <2>1. CASE Cmd!Next
    BY <1>2, <2>1, SameCommands, Com!StepsAreAtomic DEF IInv, NullIsNoRow
  <2>2. CASE UNCHANGED cmdVars
    BY <2>2 DEF cmdVars
  <2> QED BY <1>2, <2>1, <2>2 DEF Next
<1>3. Com!Atomic!Init => Cmd!Atomic!Init
  BY DEF Com!Atomic!Init, Cmd!Atomic!Init
<1>4. Com!Atomic!Next => Cmd!Atomic!Next
  BY DEF Com!Atomic!Next, Cmd!Atomic!Next, Com!Atomic!Execute, Cmd!Atomic!Execute,
         Com!Atomic!Waste, Cmd!Atomic!Waste, Com!Atomic!Repeat, Cmd!Atomic!Repeat,
         Com!Atomic!Settle, Cmd!Atomic!Settle, Com!Atomic!Told, Cmd!Atomic!Told,
         Com!Command, Cmd!Command
<1> QED BY <1>1, <1>2, <1>3, <1>4, Starts, Inductive, RowsStart, RowsInductive, PTL
        DEF Spec, ImplementsAtomicCommands, Cmd!ImplementsAtomicCommands, Cmd!Atomic!Spec
=============================================================================
