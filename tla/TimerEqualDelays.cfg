\* Every caller asks for the same delay, one tick short of a counter period.
SPECIFICATION FairSpec
CONSTANTS
  Pairs = {spi, mothership}
  Free = none
  Slots = 2
  Period = 3
  Word = 20
  Timeouts = {2}
  MaxLate = 6
  StartTimes = {0}
  DmaCalls = FALSE
  RearmInCallback = TRUE
  MaxClears = 1
  TicksInCalls = FALSE
INVARIANTS TypeOK OneAlarmPerPair 
PROPERTIES   AlarmsRing
