SPECIFICATION FairSpec
CONSTANTS
  None = None
  Tasks = {t1}
  Workers = {w1, w2}
  Finalizers = {f1, f2}
  AutoRetryLimit = 2
  Interrupt = FALSE
  MaxAttempt = 2
  Faults = {"write", "erase", "view"}
PROPERTIES
  EveryTaskSettles
  DeletionCompletes
