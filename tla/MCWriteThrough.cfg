CONSTANTS
  Clients = {c1, c2}
  Keys = {k1, n1}
  NaNs = {n1}
  Values = {v1}
  LockIds = {l1, l2}
  Deleter = TRUE
  Absent = Absent
  None = None
SPECIFICATION FairSpec
INVARIANTS
  Exclusion
  LockTable
  FrontAgrees
PROPERTIES
  Refines
  CallsReturn
