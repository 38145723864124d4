SPECIFICATION FairSpec
CONSTANTS
  NumPorts = 3
  Removable = {1, 2, 3}
  Supported = {}
PROPERTY WaitingPortGetsItsTurn
CHECK_DEADLOCK FALSE
