--------------------------- MODULE AtomicCommands ---------------------------
(***************************************************************************)
(* What a command promises its caller: it happens at once and entirely, on *)
(* the version the caller expects, or not at all, and a key stands for one *)
(* request and what came of it.  There are no locks, no transactions and   *)
(* no order of writes here.                                                *)
(***************************************************************************)
EXTENDS Naturals

CONSTANTS Key, Aggregate, Major, None,
          Command   \* records of key, aggregate, expected version and payload

VARIABLES
  version,  \* of each aggregate
  outbox,   \* the events that consumers may see
  outcome,  \* per key None, or the request made under it and its event
  answers   \* what callers were told

Init ==
  /\ version = [a \in Aggregate |-> 0]
  /\ outbox = {}
  /\ outcome = [k \in Key |-> None]
  /\ answers = {}

Settle(cmd, status, event) ==
  /\ outcome[cmd.key] = None
  /\ outcome' = [outcome EXCEPT ![cmd.key] =
       [status |-> status, digest |-> <<cmd.aggregate, cmd.expected, cmd.payload>>, event |-> event]]

Told(cmd, event) == answers' = answers \cup {[cmd |-> cmd, event |-> event]}

\* Compare the version and set it, with the event and the answer.
Execute(cmd, m) ==
  LET event == [aggregate |-> cmd.aggregate, sequence |-> cmd.expected + 1,
                major |-> m, key |-> cmd.key]
  IN  /\ version[cmd.aggregate] = cmd.expected
      /\ version' = [version EXCEPT ![cmd.aggregate] = cmd.expected + 1]
      /\ outbox' = outbox \cup {event}
      /\ Settle(cmd, "completed", event)
      /\ Told(cmd, event)

\* A command that came too late may use its key up.
Waste(cmd) ==
  /\ version[cmd.aggregate] # cmd.expected
  /\ Settle(cmd, "started", None)
  /\ UNCHANGED <<version, outbox, answers>>

\* The same request under the same key is told what came of it.
Repeat(cmd) ==
  /\ outcome[cmd.key] # None
  /\ outcome[cmd.key].status = "completed"
  /\ outcome[cmd.key].digest = <<cmd.aggregate, cmd.expected, cmd.payload>>
  /\ Told(cmd, outcome[cmd.key].event)
  /\ UNCHANGED <<version, outbox, outcome>>

Next == \E cmd \in Command : (\E m \in Major : Execute(cmd, m)) \/ Waste(cmd) \/ Repeat(cmd)

Spec == Init /\ [][Next]_<<version, outbox, outcome, answers>>
=============================================================================
