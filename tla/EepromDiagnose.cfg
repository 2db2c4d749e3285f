SPECIFICATION FairSpec
CONSTANTS
  Requests = {1, 2, 3, 4, 5, 6, 7}
  TypeOf <- MCTypeOf
  BusErrors = TRUE
  Bytes = 3
  MaxDiagnoses = 2
CHECK_DEADLOCK FALSE
INVARIANTS TypeOK DmaMemoryAlive DmaFindsJob NothingLeaked VerdictRight
PROPERTIES TransportServes DiagnoseEnds
