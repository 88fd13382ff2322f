SPECIFICATION PartsSpec
CONSTANTS
  MaxGen = 3
  MaxUi = 2
  Mappings = {"m1", "m2"}
  Multiplexed = {"m1"}
  Passwords = {"good", "bad"}
  NoPassword = "no password"
  Saved = "bad"
  Shared = "bad"
  Right = "good"
  NoMapping = "no mapping"
  MaxHashes = 2
  MaxPrompts = 1
INVARIANTS NoDeadHandlePinned OwnLogin
PROPERTIES TunnelsLetGo TypedIsSent
CHECK_DEADLOCK FALSE
