SPECIFICATION PartsSpec
CONSTANTS
  Conns = {1, 2, 3}
  Addrs = {1, 2, 3}
  MAX_UNAUTHORIZED_CONNS = 2
  MAX_UNAUTHORIZED_CONNS_PER_ADDR = 1
  NoConn = NoConn
INVARIANTS Bounded
PROPERTIES PlacesComeBack EndsRegistered
CHECK_DEADLOCK FALSE
