SPECIFICATION EventsFairSpec
CONSTANTS
  e1 = e1
  e2 = e2
  e3 = e3
  e4 = e4
  e5 = e5
  l1 = l1
  l2 = l2
  NoEvent = NoEvent
  Events <- MCEvents
  Listeners <- MCListeners
  Declared <- MCDeclared
  Address <- MCAddress
  QueueSize = 2
INVARIANTS
  AccountedOnce
PROPERTIES
  StrictFifo
  EventsMove
  DispatcherCloses
CHECK_DEADLOCK FALSE
