CONSTANTS
  Callers = {c1, c2}
  Keys = {n1}
  NaNs = {n1}
  Zero = Zero
  CallIds = {l1, l2}
  SingleFlight = TRUE
  None = None
SPECIFICATION Spec
INVARIANT
  EntriesAreRemoved
