SPECIFICATION FairSpec
CONSTANTS
  Statements <- SqlFiles
  Tasks = {t1}
  Workers = {w1, w2}
  None = None
  MaxStops = 2
INVARIANTS
  TypeOK
  ServesWholeSchema
  RoundsOwnTheirTask
PROPERTIES
  CutOffNeedsHands
  DatabaseClosedLast
  ShutdownEnds
  EveryTaskTaken
CHECK_DEADLOCK FALSE
