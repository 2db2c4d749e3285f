SPECIFICATION FairSpec
CONSTANTS
  MaxRequests = 3
  MaxNotReady = 1
  MaxErrors = 1
  Files = {1}
  FileType <- MCFileType
  MaxAlarms = 1
CHECK_DEADLOCK FALSE
INVARIANTS TypeOK AnswersAwaited StopsForAReason OnlyFailuresLeak NoLostWakeup
PROPERTIES TransportServes OperationEnds
