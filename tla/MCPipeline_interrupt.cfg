SPECIFICATION Spec
CONSTANTS
  None = None
  Tasks = {t1, t2}
  Workers = {w1, w2}
  Finalizers = {f1}
  AutoRetryLimit = 2
  Interrupt = TRUE
  MaxAttempt = 2
  Faults = {"write", "erase", "stop", "crash"}
SYMMETRY Symmetry
INVARIANTS
  ProductsOfThisRound
  InFlightOwned
PROPERTIES
  AuditTrail
  ImplementsLifecycle
