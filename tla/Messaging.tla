----------------------------- MODULE Messaging -----------------------------
(***************************************************************************)
(* Commands and consumers together: the outbox the commands write is what  *)
(* reaches the consumers, over a delivery that loses, repeats and reorders.*)
(***************************************************************************)
EXTENDS Integers, Sequences, FiniteSets

CONSTANTS Client, Key, Aggregate, Payload, Major, MaxVersion, None,
          Consumer, Supported, MaxPoison

VARIABLES idem, version, outbox, audit, txn, answers,
          inbox, last, quarantine, applied

Published == [aggregate : Aggregate, sequence : 1..(MaxVersion + 1), major : Major, key : Key]

Cmd == INSTANCE Commands
Con == INSTANCE EventConsumer WITH Event <- Published

cmdVars == <<idem, version, outbox, audit, txn, answers>>
conVars == <<inbox, last, quarantine, applied>>

Init == Cmd!Init /\ Con!Init

Next ==
  \/ Cmd!Next /\ UNCHANGED conVars
  \/ Con!Next /\ UNCHANGED cmdVars

Spec == Init /\ [][Next]_<<cmdVars, conVars>>

\* The event arrives at the consumer, or the operator replays it.
Served(c, e) == (Con!TakeIn(c, e) \/ Con!Replay(c, e)) /\ UNCHANGED cmdVars

\* What Commands and EventConsumer promise, of the two together.
OutboxCountsVersion      == Cmd!OutboxCountsVersion
ImplementsAtomicCommands == Cmd!ImplementsAtomicCommands
AppliedOnceInOrder       == Con!AppliedOnceInOrder
ProcessedWasApplied      == Con!ProcessedWasApplied
=============================================================================
