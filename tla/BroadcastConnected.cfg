\* What TCPSender.h says of isConnected.
SPECIFICATION Spec
CONSTANTS
  Device = {"shop"}
  MaxDatagrams = 2
  MaxTimeouts = 4
CHECK_DEADLOCK FALSE
INVARIANT ConnectionIsReal
