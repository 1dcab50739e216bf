CONSTANTS
  Callers = {c1, c2}
  Keys = {k1}
  NaNs = {}
  Zero = Zero
  CallIds = {l1, l2}
  SingleFlight = TRUE
  None = None
SPECIFICATION FairSpec
INVARIANTS
  SingleLoad
  NoOrphanFlight
  HitIsReal
  OwnContextOnly
PROPERTIES
  ResultIsFinal
  CallsReturn
