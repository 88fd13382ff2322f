SPECIFICATION PartsSpec
CONSTANTS
  x = x
  y = y
  Conns = {1, 2, 3}
  Keys = {"a", "b", "p"}
  KeysOf <- TwoAddresses
  Limit <- PrefixHigher
  MinuteLimit = 1
  Whitelist = FALSE
  Decay = 2
  MaxMinute = 3
  MaxTries = 4
  Links = {x, y}
  SessionKeys = {"k"}
  PeerOf <- OnePeer
  Scopes = {"remote", "terminal"}
  Permitted = {"remote", "terminal"}
  Listed = {"p"}
  ApproveMode = "both"
  PermanentEnabled = TRUE
  TfaEnabled = TRUE
  Trusted = {}
  MaxRequests = 2
  MaxTemp = 2
  MaxTokens = 1
SYMMETRY Alike
INVARIANTS NoneForgotten LetInProperly LetsInOnce
CHECK_DEADLOCK FALSE
