SPECIFICATION Spec
CONSTANTS
  None = None
  Recordings = {r1}
  AutoRetryLimit = 1
  MaxAttempt = 1
  Faults = {}
PROPERTIES
  StreamPushes
