SPECIFICATION Spec
CONSTANTS
  None = None
  Tasks = {t1}
  Workers = {w1}
  Finalizers = {f1}
  AutoRetryLimit = 3
  Interrupt = FALSE
  MaxAttempt = 4
  Faults = {}
PROPERTIES
  BudgetOfThreeRounds
