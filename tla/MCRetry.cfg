CONSTANTS
  Callers = {c1, c2}
  Errors = {"again", "fatal"}
  Stop <- MCStop
  MaxAttempt = 3
  MaxCalls = 1
  MaxClock = 1
  Width = 2
  Precision = 1
  Fixed = 0
  Lo = 0
  Hi = 3
  Base = 1
  MaxDelay = 3
  FactorNum = 2
  FactorExp = 0
SPECIFICATION FairSpec
CHECK_DEADLOCK FALSE
INVARIANTS
  OutcomeIsJust
  RetryIsDue
  BackoffRestarts
  DelayInRange
PROPERTY
  DoReturns
