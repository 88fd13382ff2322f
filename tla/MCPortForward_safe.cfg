SPECIFICATION SafeSpec
CONSTANTS
  MIN_FRAME_CHARGE = 2
  INITIAL_WINDOW = 4
  MAX_FRAME = 4
  CHANNEL_WINDOW = 8
  UPDATE_THRESHOLD = 4
  MAX_SEND_CREDIT = 8
  U32_MAX = 8
  START = 4
  MAX_CHANNELS = 1
  DATA_QUEUE_FRAMES = 1
  MaxId = 2
  MaxFrames = 6
  Lens = {1, 3, 4}
  Talkers = {"ctl", "tgt"}
  Breakers = {"ctl", "tgt"}
  Enders = {"ctl", "tgt"}
  Scenes = {"contract", "one way", "duplex", "cap"}
INVARIANTS NoCreditDeadlock Delivered NeverOverran
PROPERTIES EndsAgree
CHECK_DEADLOCK FALSE
