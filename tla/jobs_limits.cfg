\* Four jobs of two definitions, retried, replayed and replayed again, against every ceiling
\* and every quota.
CONSTANTS
  d1 = d1
  d2 = d2
  j1 = j1
  j2 = j2
  j3 = j3
  j4 = j4
  w1 = w1
  w2 = w2
  k1 = k1
  k2 = k2
  k3 = k3
  k4 = k4
  None = None
  Job = {j1, j2, j3, j4}
  Worker = {w1}
  Key = {k1, k2, k3}
  Payload = {"p"}
  WorkspaceLimit = 2
  BacklogLimit = 3
  EnqueueLimit = 3
  LeaseSeconds = 1
  ReplayFloor = 1
  Minute = 2
  Slots = 3
  StartDelay = {0}
  Lifetime = {2}
  Reported = {"transient"}
  MaxClock = 2
  LatestDeadline = 4
  MaxVersion = 1
  MaxControls = 0
  Cancellable = {}
  Pausable = {}
  Definition <- TwoDefinitions
  MaxAttempts <- MixedAttempts
  RetryDelay <- MixedDelays
  MaxConcurrency <- MixedConcurrency
  RateLimit <- MixedRate
SYMMETRY JobSymmetry
SPECIFICATION Spec
INVARIANTS
  WithinLimits
  DeadLetterLinks
