\* Three concurrent transactions on two aggregates under three keys, with queued row
\* locks; and three events in two schema majors, arriving in any order at a consumer in a
\* rolling deployment, with a failing handler and an operator that replays.
CONSTANTS
  k1 = k1
  k2 = k2
  k3 = k3
  a1 = a1
  a2 = a2
  c1 = c1
  c2 = c2
  c3 = c3
  projection = projection
  None = None
  Client = {c1, c2, c3}
  Key = {k1, k2, k3}
  Aggregate = {a1, a2}
  Payload = {"p", "q"}
  Major = {1, 2}
  MaxVersion = 2
  Consumer = {projection}
  Supported <- BothMajors
  MaxPoison = 1
SPECIFICATION FairSpec
INVARIANTS
  OutboxCountsVersion
  AppliedOnceInOrder
PROPERTIES
  CommandEnds
  ReadsOn
  ImplementsAtomicCommands
\* The keys are finite and each is used once, so the instance stops.
CHECK_DEADLOCK FALSE
