\* Three jobs of two definitions under every kind of limit, with dead
\* letters, replays and a definition that operators pause and resume.
CONSTANTS
  d1 = d1
  d2 = d2
  j1 = j1
  j2 = j2
  j3 = j3
  j4 = j4
  w1 = w1
  w2 = w2
  k1 = k1
  k2 = k2
  k3 = k3
  k4 = k4
  None = None
  Job = {j1, j2, j3}
  Worker = {w1}
  Key = {k1, k2}
  Payload = {"p"}
  WorkspaceLimit = 2
  BacklogLimit = 2
  EnqueueLimit = 2
  LeaseSeconds = 1
  ReplayFloor = 2
  Minute = 2
  Slots = 2
  StartDelay = {0}
  Lifetime = {2}
  Reported = {"transient"}
  MaxClock = 3
  LatestDeadline = 3
  MaxVersion = 1
  MaxControls = 1
  Cancellable = {}
  Pausable = {d1}
  Definition <- TwoDefinitions
  MaxAttempts <- MixedAttempts
  RetryDelay <- MixedDelays
  MaxConcurrency <- MixedConcurrency
  RateLimit <- MixedRate
SPECIFICATION FairSpec
PROPERTIES
  EveryJobSettles
