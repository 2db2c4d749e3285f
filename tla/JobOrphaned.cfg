SPECIFICATION Spec
CONSTANTS
  MaxEvents = 2
  IsrEvents = {1, 2}
  LastPhase = 2
  LastTask = 2
  MaxRetries = 0
INVARIANT AcceptedIsHeld
CHECK_DEADLOCK FALSE
