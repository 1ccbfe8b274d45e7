\* An owner and a user who is created or invited twice, under two concurrent transactions.
\* Every token may be used and every version reached: the end is not a deadlock.
CONSTANTS
  o1 = o1
  o2 = o2
  t1 = t1
  t2 = t2
  x1 = x1
  x2 = x2
  None = None
  User = {o1, o2}
  Role = {"workspace_owner", "member"}
  Token = {t1, t2}
  Txn = {x1, x2}
  Bootstrap = {o1}
  LastVersion <- FewChanges
SPECIFICATION FairSpec
CHECK_DEADLOCK FALSE
INVARIANTS
  OwnerSurvivesCommit
PROPERTIES
  ImplementsAtomicMemberships
  EveryTransactionEnds
