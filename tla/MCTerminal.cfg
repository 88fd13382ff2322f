SPECIFICATION PartsSpec
INVARIANTS OutputWhole
PROPERTIES TerminalsEnd
CHECK_DEADLOCK FALSE
