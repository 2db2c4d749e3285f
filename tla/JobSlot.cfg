SPECIFICATION FairSpec
CONSTANTS
  MaxEvents = 3
  IsrEvents = {2}
  LastPhase = 2
  LastTask = 2
  MaxRetries = 1
INVARIANTS TypeOK ResponseForThisJob
PROPERTIES LostToFreedJobOnly ServiceSpec JobsEnd
CHECK_DEADLOCK FALSE
