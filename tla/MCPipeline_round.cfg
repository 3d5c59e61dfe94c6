SPECIFICATION Spec
CONSTANTS
  None = None
  Tasks = {t1}
  Workers = {w1, w2}
  Finalizers = {f1, f2}
  AutoRetryLimit = 3
  Interrupt = FALSE
  MaxAttempt = 4
  Faults = {"write", "commit", "read", "view", "panic", "erase", "stop", "crash"}
SYMMETRY ActorSymmetry
INVARIANTS
  TypeOK
  KeysBehindRows
  SingleExecutor
  TableMatchesRounds
  CancelReaches
  ProductsOfThisRound
PROPERTIES
  LateResultsDropped
  OnlyOwnersMove
  AuditTrail
  ImplementsLifecycle
