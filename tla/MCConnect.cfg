SPECIFICATION PartsSpec
CONSTANTS
  Others <- MCOthers
  Types <- MCTypes
  MaxTries = 2
  Callers = {"c1", "c2"}
  Keys = {"offer"}
  Key <- OneOffer
  Policies = {FALSE, TRUE}
  Lossy = {"c1", "c2"}
  Nobody = "nobody"
INVARIANTS RightWinner StartedAsSaid SharedSafely
PROPERTIES StartEnds NoneStranded CrossingServed
CHECK_DEADLOCK FALSE
