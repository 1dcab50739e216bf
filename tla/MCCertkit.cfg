CONSTANTS
  Setups <- MCSetups
  Contents <- MCContents
  Ids = {1, 2}
  MaxWrites = 2
  Issuers = {i1}
  Second = 2
  Minute = 2
  Validities = {1, 3}
  Serials = {0, 2}
  ForeignTimes = {0, 6}
  MaxSerial = 2
  MaxRandom = 1
  MaxCerts = 2
  MaxTime = 6
SPECIFICATION MCSpec
INVARIANTS
  KeyMaterialCleared
  ConfigIsJust
  LeafInsideCA
