SPECIFICATION FairSpec
CONSTANTS
  reconnect = reconnect
  user = user
  Controllers <- MCControllers
  NoThread = NoThread
  MaxEvents = 2
  MaxQueues = 3
INVARIANTS
  AcceptedIsRead
  OpenQueueIsRead
PROPERTIES
  ImplementsDelivery
  ReportConsistent
  DropOnlyAfterTake
  QueuedIsHandled
CHECK_DEADLOCK FALSE
