\* Two requests of one session, each with the decision that it is authorized by.
CONSTANTS
  s1 = s1
  s2 = s2
  s3 = s3
  x1 = x1
  x2 = x2
  k1 = k1
  k2 = k2
  None = None
  NoRow = NoRow
  NoMirror = NoMirror
  Absent = Absent
  Decision = {1, 2}
  Envelope = {"none"}
  RouteVersions = 3
  Capability = {"email"}
  Allowed = {"email"}
  MaxVersion = 4
  Source = {}
  Rotation = {}
  Txn = {x1, x2}
  MaxGeneration = 2
  MaxOauth = 1
  Context <- Contexts
  User = {"u1"}
  MfaRequired = {}
  Session = {s1, s2, s3}
  Token = {k1, k2}
  Request = {x1, x2}
  MaxLinkVersion = 2
  Version = {"v1", "v2"}
  Hash = {"h1", "h2"}
  Reference = {"r1"}
  MaxMirrorVersion = 5
  MaxConflicts = 2
  Row = {k1, k2}
  Key = {k1, k2}
  Backup = {"b1"}
  Digest = {"d1"}
  ClosureTxn = {x1, x2}
  w1 = w1
  w2 = w2
  w3 = w3
  NoValue = NoValue
  Schedule = {k1, k2}
  Day = 3
  MaxShift = 2
  CatchUp = 2
  Batch = 2
  BacklogLimit = 3
  EnqueueLimit = 2
  Minute = 3
  Skew = 1
  LastInstant = 18
  MaxClock = 11
  ShortClock = 5
  MaxScheduleVersion = 3
  ClientSpec <- AllRequests
  Offset <- TwoZones
  OrganizationLimit = 4
  MaxEligible = 3
  Workspaces <- ThreeWorkspaces
SYMMETRY ServicesSymmetry
SPECIFICATION MCSpec
CHECK_DEADLOCK FALSE
INVARIANTS
  AuthenticCallbackAccepted
