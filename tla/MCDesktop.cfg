SPECIFICATION DesktopSpec
CONSTANTS
  Conns = {1, 2, 3}
  Impls = {"window", "virtual"}
  Amyuni = FALSE
  NoConn = 0
  Watchers = {1}
  Handles = {"h1", "h2", "h3", "h4"}
  Looks = {"arrow", "beam", "hand"}
  ShapeOf <- TwoAlike
  HandlesMax = 2
  ShapesMax = 2
  FilesHandles = TRUE
  MaxBuilt = 4
INVARIANTS OwnerProper CursorKept
PROPERTIES PrivacySettles HelperFollowed
CHECK_DEADLOCK FALSE
