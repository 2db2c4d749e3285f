SPECIFICATION FairSpec
CONSTANTS
  input = input
  medium = medium
  spi = spi
  flash = flash
  eeprom = eeprom
  None = none
  Input = input
  Policy <- EepromReceives
  Threads = {input}
  Actors = {spi, eeprom}
  Home <- InputHome
  QueueSize <- SmallQueues
  Listeners <- EepromFirst
  Targets = {none, spi, eeprom}
  Buffered = FALSE
  MaxEvents = 4
  MaxReschedules = 1
INVARIANTS TypeOK NoEventVanishes NoWakeupLost
CHECK_DEADLOCK FALSE
