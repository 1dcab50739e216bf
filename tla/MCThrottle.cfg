CONSTANTS
  Callers = {c1, c2, c3}
  Cap = 2
  Delays = {1, 2}
  Bodies = {"open"}
  MaxCalls = 1
  MaxClock = 1
  Limiters <- MCLimiters
  Interval = 2
  Timed = {c1}
  MaxNext = 1
SPECIFICATION BucketSpec
CHECK_DEADLOCK FALSE
INVARIANTS
  SlotsAreHeld
  RateIsKept
  BodyClosedOnce
  ClaimsAreSettled
  FailsClosed
  ErrorsAreTrue
PROPERTIES
  CallsReturn
