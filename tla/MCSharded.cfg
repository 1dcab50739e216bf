CONSTANTS
  Clients = {c1, c2}
  Keys <- MCKeys
  Durations <- MCShort
  Times <- MCFarTimes
  Loops = {}
  DefaultTTL = 0
  MinTTL = 0
  MaxTTL = 2
  MaxDuration = 3
  MaxClock = 2
  Size = 2
  Hash <- MCHash
  Readers = {c1}
  Writers = {c2}
SPECIFICATION ShardedSpec
INVARIANTS
  LifeIsBounded
  ScanIsFaithful
PROPERTIES
  LiveIsKept
  SetHonours
