SPECIFICATION UpFairSpec
CONSTANTS
  watch = watch
  bounce = bounce
  stream = stream
  Reconnectors <- MCReconnectors
  Waiters <- MCWaiters
  Cancellable <- MCCancellable
  NoThread = NoThread
  MaxRounds = 3
  Endpoints = 2
  Reachable <- MCReachable
INVARIANTS
  NoLostWakeup
  PassesEarlyOnlyInWindow
  OneConnection
  OpenGateHasLiveClient
  SomeDialSucceeds
PROPERTIES
  UpSleeperIsReleased
  ImplementsLock
CHECK_DEADLOCK FALSE
