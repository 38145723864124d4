SPECIFICATION RingSpec
CONSTANTS
  NumPorts = 3
  buf_size = 5
  Removable = {2}
  Supported = {1, 2}
INVARIANTS OneAddressingPort SlotForItsPort SlotsDistinct RingHoldsCommands
PROPERTIES FollowsDiagram EveryDeviceConfigured
CHECK_DEADLOCK FALSE
