CONSTANT MaxStopped = 2
SPECIFICATION TCFairSpec
CHECK_DEADLOCK FALSE
INVARIANTS
  OnceEach
  SaysStopped
  GoodbyeHeard
PROPERTIES
  StopAnswered
  KeepsAnnouncing
