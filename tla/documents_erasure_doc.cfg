\* The documented erasure, against a store from which a call deletes one object a version.
\* Everything may be deleted and the governance settled: the end is not a deadlock.
CONSTANTS
  v1 = v1
  v2 = v2
  e1 = e1
  e2 = e2
  Nothing = Nothing
  Version = {v1}
  Processor = {"text/1"}
  Deletion = {e1}
  MaxState = 5
SPECIFICATION DocumentsSpec
CHECK_DEADLOCK FALSE
INVARIANTS
  DeletionErases
