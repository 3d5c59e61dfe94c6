SPECIFICATION FairSpec
CONSTANTS
  Ids = {1, 2}
  Contents = {c1}
  AutoRetryLimit = 1
  Retried = {1}
  Workers = {w1}
  Handlers = {h1}
  Finalizers = {f1}
INVARIANTS
  TypeOK
  EventsNumbered
  DeadlocksCrossOrders
PROPERTIES
  Serial
  ImplementsLifecycle
  QueueMovesOn
CHECK_DEADLOCK FALSE
