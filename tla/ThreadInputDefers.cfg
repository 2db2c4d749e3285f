SPECIFICATION FairSpec
CONSTANTS
  input = input
  medium = medium
  spi = spi
  flash = flash
  eeprom = eeprom
  None = none
  Input = input
  Policy <- EepromReceives
  Threads = {input}
  Actors = {spi, eeprom}
  Home <- InputHome
  QueueSize <- SmallQueues
  Listeners <- EepromFirst
  Targets = {none, spi, eeprom}
  Buffered = FALSE
  MaxEvents = 2
  MaxReschedules = 1
INVARIANT NoEventLost
CHECK_DEADLOCK FALSE
