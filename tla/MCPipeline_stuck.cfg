SPECIFICATION FairSpec
CONSTANTS
  None = None
  Tasks = {t1}
  Workers = {w1}
  Finalizers = {f1}
  AutoRetryLimit = 2
  Interrupt = FALSE
  MaxAttempt = 1
  Faults = {"read"}
PROPERTIES
  StuckMeansExit
