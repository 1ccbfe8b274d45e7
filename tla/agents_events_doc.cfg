\* The documented outbox of every state change, against an orchestration that starts without
\* an event: one orchestration of two steps.
\* Everything may end.
CONSTANTS
  None = None
  Manifest = {"m1"}
  Tool = {"t1"}
  RegistryVersion = {2}
  Plan = {"p1"}
  LastStep = 2
  Orchestration = {"o1"}
  Key = {k1, k2, k3}
  Txn = {x1, x2}
  MaxVersion = 5
  MaxLost = 1
SPECIFICATION AgentsSpec
CHECK_DEADLOCK FALSE
INVARIANTS
  EventsGapless
