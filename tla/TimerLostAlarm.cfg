\* One subscriber that sets its alarm again around the time it rings.
SPECIFICATION Spec
CONSTANTS
  Pairs = {spi}
  Free = none
  Slots = 2
  Period = 3
  Word = 20
  Timeouts = {2}
  MaxLate = 6
  StartTimes = {0}
  DmaCalls = FALSE
  RearmInCallback = FALSE
  MaxClears = 0
  TicksInCalls = FALSE
INVARIANT CountingWhileArmed
