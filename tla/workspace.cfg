\* Two versions and two deletion requests of a document; three memory items derived from a
\* source and from each other; a contact and two companies; two index generations of two
\* sources; two claims, their two sources and a timeline event.  Two executions of an
\* orchestration of two steps, two callers of an instance of three steps, three tasks, one
\* notification over two days.
\* Everything may be deleted or end: the end is not a deadlock.
CONSTANTS
  x1 = x1
  x2 = x2
  y1 = y1
  y2 = y2
  k1 = k1
  k2 = k2
  k3 = k3
  m1 = m1
  t1 = t1
  e1 = e1
  s1 = s1
  None = None
  Null = None
  Nil = Nil
  Nothing = Nothing
  NoItem = NoItem
  NoRow = NoRow
  NoValue = NoValue
  contact = contact
  firm = firm
  firm2 = firm2
  Resource = {contact, firm, firm2}
  Kind <- Kinds
  MaxChanges = 4
  Generation = {"old", "new"}
  Indexed = {"owned", "free"}
  ResourceOf <- Owners
  Digest = {1, 2}
  DisposalReason = {"deleted"}
  Version = {x1, x2}
  Deletion = {y1, y2}
  Processor = {"text/1"}
  MaxState = 7
  Memory = {m1, x1, x2}
  Expiring = {m1}
  Confirmed = {}
  External = {s1}
  SourceReason = {"source_deleted"}
  LastVersion <- Few
  Claim = {y1, y2}
  Source = {x1, x2}
  Event = {e1}
  Projection = {"workspace"}
  MaxClaimVersion = 3
  MaxRelations = 1
  Manifest = {"m1"}
  Tool = {"t1"}
  RegistryVersion = {2}
  Plan = {"p1"}
  LastStep = 2
  Orchestration = {"o1"}
  Key = {k1, k2, k3}
  Txn = {x1, x2}
  MaxVersion = 5
  MaxLost = 1
  DefinitionVersion = {1}
  Graph <- Steps
  First = "prepare"
  Instance = {"i1"}
  Caller = {x1, x2}
  Approval = {"a1"}
  User = {"u1", "u2"}
  Requester = "u1"
  Required = 1
  MaxInstanceVersion = 6
  Task = {t1, x1, x2}
  NeedsProof = {t1}
  Dated = {t1}
  Limit = 3
  MaxTaskVersion = 3
  Intent = {"n1"}
  IntentDigest = {"d1"}
  Offset <- Spring
  Day = 8
  QuietStart = 6
  QuietEnd = 2
  MaximumAttempts = 3
  RetryDelay = 1
  RateLimit = 2
  MaxClock = 12
SYMMETRY WorkspaceSymmetry
SPECIFICATION MCSpec
CHECK_DEADLOCK FALSE
INVARIANTS
  ContentIntact
  InvalidationIsTransitive
  ExclusiveEdges
  SearchesCurrent
  TimelineOfLivingClaims
  EffectsOncePerLoss
  PathOfSeenSteps
  Acyclic
PROPERTIES
  HoldKeepsObjects
  NeverActiveAgain
