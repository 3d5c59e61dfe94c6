SPECIFICATION FairSpec
CONSTANTS
  None = None
  Recordings = {r1}
  AutoRetryLimit = 2
  MaxAttempt = 3
  Faults = {"read"}
INVARIANTS
  TypeOK
  StreamInOrder
  StreamEndsAsSaid
PROPERTIES
  AnswersWereTrue
  StreamFollows
