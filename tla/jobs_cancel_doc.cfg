\* The documented rule that cancellation failures never retry, against what fail and _recover_expired do.
CONSTANTS
  d1 = d1
  d2 = d2
  j1 = j1
  j2 = j2
  j3 = j3
  j4 = j4
  w1 = w1
  w2 = w2
  k1 = k1
  k2 = k2
  k3 = k3
  k4 = k4
  None = None
  Job = {j1}
  Worker = {w1, w2}
  Key = {k1}
  Payload = {"p"}
  WorkspaceLimit = 20
  BacklogLimit = 10000
  EnqueueLimit = 120
  LeaseSeconds = 2
  ReplayFloor = 2
  Minute = 60
  Slots = 1
  StartDelay = {0}
  Lifetime = {4}
  Reported = {"transient", "poison"}
  MaxClock = 4
  LatestDeadline = 4
  MaxVersion = 4
  MaxControls = 0
  Cancellable = {j1}
  Pausable = {}
  Definition <- OneDefinition
  MaxAttempts <- TwoAttempts
  RetryDelay <- OneSecond
  MaxConcurrency <- TwoAtATime
  RateLimit <- NoRate
SYMMETRY JobSymmetry
SPECIFICATION Spec
PROPERTIES
  CancelledNeverRetried
