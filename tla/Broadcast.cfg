\* Sending a count with two devices in the network.
SPECIFICATION Spec
CONSTANTS
  Device = {"shop", "store"}
  MaxDatagrams = 2
  MaxTimeouts = 4
CHECK_DEADLOCK FALSE
INVARIANTS
  TypeOK
  RequestsBounded
  SentOnAcceptance
  LateAnswerCounts
  EarlyConnectionsAreReal
PROPERTIES
  OnlyFirstConnectWaits
  CallEnds
