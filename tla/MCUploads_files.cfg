SPECIFICATION Spec
CONSTANTS
  None = None
  Requests = {r1, r2, r3}
  Contents = {h1, h2}
  Deleters = {d1, d2}
  Faults = {"save", "write", "commit", "remove", "read", "stop"}
SYMMETRY Symmetry
INVARIANTS
  TypeOK
  OneLivePerContent
  LiveHasFile
  OnlyFailuresLeaveFiles
PROPERTIES
  ReuseIsLive
  RecoverySweeps
CHECK_DEADLOCK FALSE
