CONSTANTS
  Clients = {c1}
  Keys = {k1}
  Durations <- MCDurations
  Times <- MCTimes
  Loops = {"cleanup"}
  DefaultTTL = 2
  MinTTL = 0
  MaxTTL = 0
  MaxDuration = 3
  MaxClock = 3
SPECIFICATION FairSpec
PROPERTIES
  KeepNeverStale
