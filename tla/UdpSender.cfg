\* The sender with six datagrams, any of them empty, arriving at any moment.
SPECIFICATION Spec
CONSTANT MaxDatagrams = 6
INVARIANTS
  TypeOK
  OneReceive
  NoLostWakeup
PROPERTIES
  KeepsMailbox
  AwaitReturns
  LatestIsAnswered
