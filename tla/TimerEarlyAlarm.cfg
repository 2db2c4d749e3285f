\* Two subscribers with a delay shorter and one longer than a period.
SPECIFICATION Spec
CONSTANTS
  Pairs = {spi, mothership}
  Free = none
  Slots = 2
  Period = 3
  Word = 20
  Timeouts = {2, 4}
  MaxLate = 6
  StartTimes = {0}
  DmaCalls = FALSE
  RearmInCallback = FALSE
  MaxClears = 0
  TicksInCalls = FALSE
PROPERTY NeverEarly
