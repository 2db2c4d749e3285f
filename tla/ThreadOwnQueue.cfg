SPECIFICATION FairSpec
CONSTANTS
  input = input
  medium = medium
  spi = spi
  flash = flash
  eeprom = eeprom
  None = none
  Input = input
  Policy <- AllHandle
  Threads = {medium}
  Actors = {spi, flash}
  Home <- MediumHome
  QueueSize <- LargeQueues
  Listeners <- EveryActor
  Targets = {none, flash}
  Buffered = TRUE
  MaxEvents = 3
  MaxReschedules = 1
INVARIANTS HandledOnce DeferredCountExact BufferReleased NoWakeupLost
PROPERTIES FreshEventsDispatched
