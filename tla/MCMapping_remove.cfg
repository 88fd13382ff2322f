SPECIFICATION PartsSpec
CONSTANTS
  MaxGen = 1
  MaxUi = 1
  Mappings = {"m1", "m2"}
  Multiplexed = {"m1"}
  Passwords = {"good", "bad"}
  NoPassword = "no password"
  Saved = "bad"
  Shared = "bad"
  Right = "good"
  NoMapping = "no mapping"
  MaxHashes = 2
  MaxPrompts = 1
PROPERTY RemovedMappingStops
CHECK_DEADLOCK FALSE
