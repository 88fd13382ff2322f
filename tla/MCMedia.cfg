SPECIFICATION PartsSpec
CONSTANTS
  Limit = 2
  Window = 3
  Grace = 2
  MaxTime = 7
  Viewers = {"c1", "c2"}
  AckRequired = {"c2"}
  MaxLag = 1
  MaxAsks = 1
  MaxSwitches = 1
  NoViewer = "none"
  Delays = {10, 170, 700, 1200}
  Baselines = {10, 60}
  Caps = {4, 10, 16}
  MinFps = 8
  NormalFps = 16
  MaxOut = 1
INVARIANTS FramesShared RateInMeasure
PROPERTIES ExhaustedFallsBack NewcomerPromoted AudioRecovers
CHECK_DEADLOCK FALSE
