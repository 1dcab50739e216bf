CONSTANTS
  Clients = {c1}
  Keys = {k1}
  Durations <- MCDurations
  Times <- MCTimes
  Loops = {"cleanup", "rebuild"}
  DefaultTTL = 2
  MinTTL = 1
  MaxTTL = 0
  MaxDuration = 3
  MaxClock = 3
SPECIFICATION FairSpec
PROPERTIES
  SetHonours
  IsSwept
  LoopsStop
