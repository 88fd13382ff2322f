SPECIFICATION PartsSpec
CONSTANTS
  Callers = {"c1", "c2"}
  Warm = "warm"
  Login = "login"
  Lists = {"la"}
  NoDisplays = "none"
  ProbeMax = 2
  RefreshMax = 2
  WarmTries = 1
  MaxChanges = 2
  MaxFaults = 1
  Credit = 2
  ChanCap = 2
  Stall = 1
  MaxStalled = 1
  MaxScene = 2
  MaxShape = 2
  MaxTopo = 1
  MaxMoves = 1
INVARIANTS StreamInMeasure
PROPERTIES VerdictInOrder VerdictSettles StreamSettles
CHECK_DEADLOCK FALSE
