CONSTANTS
  n1 = n1
  n2 = n2
  Nicks <- TwoNicks
  MaxSessions = 2
  MaxInbox = 2
  MaxChats = 2
  MaxQueue = 2
SPECIFICATION Spec
SYMMETRY NickSymmetry
CHECK_DEADLOCK FALSE
INVARIANTS
  TypeOK
  OneThread
  NeverStranded
  ListFollows
