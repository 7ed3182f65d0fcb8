\* What UDPSender.h and UDPRequests.h say of an answer, with two devices.
SPECIFICATION Spec
CONSTANTS
  Device = {"shop", "store"}
  MaxDatagrams = 2
  MaxTimeouts = 4
CHECK_DEADLOCK FALSE
INVARIANT PeerHasAccepted
