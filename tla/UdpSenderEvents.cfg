\* What the comment in awaitResponse says of the events that can run.
SPECIFICATION Spec
CONSTANT MaxDatagrams = 5
INVARIANT OnlyReceivesRun
